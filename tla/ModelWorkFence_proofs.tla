------------------------ MODULE ModelWorkFence_proofs ------------------------
(* The fence holds for every number of consumers, pieces of work, writers and  *)
(* inodes, through lost processes, re-linked markers and torn records.         *)
EXTENDS ModelWorkFence, TLAPS

-------------------------------------------------------------------------------
\* The kernel's locks: a writer has a target from try_exclusive to its end, and
\* shares it neither with work nor with another writer.
LockInv ==
    /\ \A m \in Writers : phase[m] # "none" <=> target[m] \in Inodes
    /\ \A m \in Writers : target[m] # None =>
          /\ \A w \in Work : lease[w] # target[m]
          /\ \A n \in Writers : target[n] = target[m] => n = m

\* Work holds a lease only of an inode whose record is idle.
LeaseInv == \A w \in Work : lease[w] # None => content[lease[w]] = Idle

\* A writer past begin has its own transaction, in the effect its intent is in
\* the inode, and while it writes the record is torn.
IntentInv ==
    \A m \in Writers :
        /\ phase[m] \in {"beginning", "effect", "ready", "finishing"} =>
              tx[m] \in Transactions
        /\ phase[m] \in {"effect", "ready"} => content[target[m]] = tx[m]
        /\ phase[m] \in {"beginning", "finishing"} => content[target[m]] = Torn

IInv == TypeOK /\ LockInv /\ LeaseInv /\ IntentInv

-------------------------------------------------------------------------------
LEMMA InitInv == Init => IInv
  BY NoneAssumption, OwnerAssumption
     DEF Init, IInv, TypeOK, LockInv, LeaseInv, IntentInv, Stages, Phases

\* Steps of the consumers.
LEMMA ConsumerInv == IInv /\ ConsumerNext => IInv'
  <1> SUFFICES ASSUME IInv, ConsumerNext PROVE IInv'
    OBVIOUS
  <1> USE NoneAssumption, OwnerAssumption DEF IInv
  <1>w. ASSUME writerVars' = writerVars, content' = content, TypeOK', IInv,
               \A w \in Work : lease'[w] = None \/ lease'[w] = lease[w]
        PROVE  IInv'
    <2>1. phase' = phase /\ target' = target /\ tx' = tx
      BY <1>w DEF writerVars
    <2>2. LockInv'
      BY <1>w, <2>1 DEF LockInv
    <2>3. LeaseInv' /\ IntentInv'
      BY <1>w, <2>1 DEF LeaseInv, IntentInv
    <2> QED
      BY <1>w, <2>2, <2>3
  <1>1. ASSUME NEW c \in Consumers, OpenFence(c) PROVE IInv'
    BY <1>1, <1>w DEF OpenFence, TypeOK, writerVars
  <1>2. ASSUME NEW c \in Consumers, CloseFence(c) PROVE IInv'
    BY <1>2, <1>w DEF CloseFence, TypeOK, writerVars
  <1>3. ASSUME NEW c \in Consumers, KillConsumer(c) PROVE IInv'
    <2>1. TypeOK'
      BY <1>3 DEF KillConsumer, TypeOK, writerVars, Stages
    <2>2. \A w \in Work : lease'[w] = None \/ lease'[w] = lease[w]
      BY <1>3 DEF KillConsumer
    <2> QED
      BY <1>3, <1>w, <2>1, <2>2 DEF KillConsumer
  <1>4. ASSUME NEW c \in Consumers, Relink(c) PROVE IInv'
    BY <1>4, <1>w DEF Relink, TypeOK, writerVars
  <1>5. ASSUME NEW w \in Work, Wait(w) PROVE IInv'
    BY <1>5, <1>w DEF Wait, TypeOK, writerVars, Stages
  <1>6. ASSUME NEW w \in Work, Acquire(w) PROVE IInv'
    <2> DEFINE i == link[Owner[w]]
    <2>1. i \in Inodes /\ content[i] = Idle /\ ExclusiveOn(i) = {}
      BY <1>6 DEF Acquire, Readable, TypeOK
    <2>2. /\ lease' = [lease EXCEPT ![w] = i]
          /\ stage' = [stage EXCEPT ![w] = "leased"]
          /\ content' = content /\ link' = link /\ bound' = bound
          /\ phase' = phase /\ target' = target /\ tx' = tx
      BY <1>6 DEF Acquire, writerVars
    <2>3. \A m \in Writers : target[m] # i
      BY <2>1 DEF ExclusiveOn
    <2> HIDE DEF i
    <2>4. TypeOK'
      BY <2>1, <2>2 DEF TypeOK, Stages
    <2>5. LockInv'
      BY <2>2, <2>3 DEF LockInv, TypeOK
    <2>6. LeaseInv'
      BY <2>1, <2>2 DEF LeaseInv, TypeOK
    <2>7. IntentInv'
      BY <2>2 DEF IntentInv
    <2> QED
      BY <2>4, <2>5, <2>6, <2>7
  <1>7. ASSUME NEW w \in Work, GiveUp(w) PROVE IInv'
    BY <1>7, <1>w DEF GiveUp, TypeOK, writerVars, Stages
  <1>8. ASSUME NEW w \in Work, Start(w) PROVE IInv'
    BY <1>8, <1>w DEF Start, TypeOK, writerVars, Stages
  <1>9. ASSUME NEW w \in Work, Release(w) PROVE IInv'
    <2>1. TypeOK' /\ \A v \in Work : lease'[v] = None \/ lease'[v] = lease[v]
      BY <1>9 DEF Release, TypeOK, writerVars, Stages
    <2> QED
      BY <1>9, <1>w, <2>1 DEF Release
  <1> QED
    BY <1>1, <1>2, <1>3, <1>4, <1>5, <1>6, <1>7, <1>8, <1>9 DEF ConsumerNext

\* A writer that owns its inode may change the record without disturbing anybody.
LEMMA RecordInv ==
    ASSUME IInv, NEW m \in Writers, NEW v \in {Idle, Torn} \cup Transactions,
           NEW p \in Phases \ {"none"}, NEW t \in Transactions \cup {None},
           phase[m] # "none",
           content' = [content EXCEPT ![target[m]] = v],
           phase' = [phase EXCEPT ![m] = p],
           tx' = [tx EXCEPT ![m] = t],
           target' = target, consumerVars' = consumerVars,
           p \in {"beginning", "effect", "ready", "finishing"} => t \in Transactions,
           p \in {"effect", "ready"} => v = t,
           p \in {"beginning", "finishing"} => v = Torn
    PROVE  IInv'
  <1>1. link' = link /\ bound' = bound /\ stage' = stage /\ lease' = lease
    BY DEF consumerVars
  <1>2. target[m] \in Inodes
    BY DEF IInv, LockInv
  <1>3. TypeOK'
    BY <1>1, <1>2 DEF IInv, TypeOK
  <1>4. LockInv'
    BY <1>1 DEF IInv, LockInv, TypeOK
  <1>5. LeaseInv'
    <2> SUFFICES ASSUME NEW w \in Work, lease[w] # None PROVE content'[lease[w]] = Idle
      BY <1>1 DEF LeaseInv
    <2>1. lease[w] # target[m] /\ lease[w] \in Inodes
      BY <1>2, NoneAssumption DEF IInv, LockInv, TypeOK
    <2> QED
      BY <2>1 DEF IInv, LeaseInv, TypeOK
  <1>6. IntentInv'
    <2> SUFFICES ASSUME NEW n \in Writers
                 PROVE  /\ phase'[n] \in {"beginning", "effect", "ready", "finishing"} =>
                              tx'[n] \in Transactions
                        /\ phase'[n] \in {"effect", "ready"} => content'[target[n]] = tx'[n]
                        /\ phase'[n] \in {"beginning", "finishing"} =>
                              content'[target[n]] = Torn
      BY DEF IntentInv
    <2>1. CASE n = m
      BY <1>2, <2>1 DEF IInv, TypeOK
    <2>2. CASE n # m
      <3>1. phase'[n] = phase[n] /\ tx'[n] = tx[n]
        BY <2>2 DEF IInv, TypeOK
      <3>2. target[n] # target[m]
        BY <1>2, <2>2, NoneAssumption DEF IInv, LockInv
      <3>3. phase[n] # "none" => content'[target[n]] = content[target[n]]
        BY <3>2 DEF IInv, LockInv, TypeOK
      <3> QED
        BY <3>1, <3>3 DEF IInv, IntentInv
    <2> QED
      BY <2>1, <2>2
  <1> QED
    BY <1>3, <1>4, <1>5, <1>6 DEF IInv

\* A function updated with its own value is itself: the steps that leave the
\* record or the transaction alone are record steps too.
LEMMA Unmoved ==
    ASSUME TypeOK, NEW m \in Writers, target[m] \in Inodes
    PROVE  /\ content = [content EXCEPT ![target[m]] = content[target[m]]]
           /\ tx = [tx EXCEPT ![m] = tx[m]]
           /\ content[target[m]] \in {Idle, Torn} \cup Transactions
           /\ tx[m] \in Transactions \cup {None}
  BY DEF TypeOK

LEMMA WriterInv == IInv /\ WriterNext => IInv'
  <1> SUFFICES ASSUME IInv, WriterNext PROVE IInv'
    OBVIOUS
  <1>1. ASSUME NEW m \in Writers, NEW i \in Inodes, TryExclusive(m, i) PROVE IInv'
    <2>1. /\ phase' = [phase EXCEPT ![m] = "exclusive"]
          /\ target' = [target EXCEPT ![m] = i]
          /\ content' = content /\ tx' = tx /\ link' = link /\ bound' = bound
          /\ stage' = stage /\ lease' = lease
          /\ phase[m] = "none"
      BY <1>1 DEF TryExclusive, consumerVars
    <2>2. /\ \A w \in Work : lease[w] # i
          /\ \A n \in Writers : target[n] # i
      BY <1>1 DEF TryExclusive, Lockable, SharedOn, ExclusiveOn
    <2>3. TypeOK'
      BY <2>1 DEF IInv, TypeOK, Phases
    <2>4. LockInv'
      BY <2>1, <2>2, NoneAssumption DEF IInv, LockInv, TypeOK
    <2>5. LeaseInv'
      BY <2>1 DEF IInv, LeaseInv
    <2>6. IntentInv'
      BY <2>1 DEF IInv, IntentInv, TypeOK
    <2> QED
      BY <2>3, <2>4, <2>5, <2>6 DEF IInv
  <1>2. ASSUME NEW m \in Writers, phase[m] # "none" PROVE target[m] \in Inodes
    BY <1>2 DEF IInv, LockInv
  <1>3. ASSUME NEW m \in Writers, NEW t \in Transactions, Begin(m, t) PROVE IInv'
    BY <1>3, RecordInv DEF Begin, Phases
  <1>4. ASSUME NEW m \in Writers, BeginWritten(m) PROVE IInv'
    <2>1. phase[m] = "beginning" /\ tx[m] \in Transactions
      BY <1>4 DEF BeginWritten, IInv, IntentInv
    <2>2. tx' = [tx EXCEPT ![m] = tx[m]]
      BY <1>2, <1>4, <2>1, Unmoved DEF BeginWritten, IInv
    <2> QED
      BY <1>4, <2>1, <2>2, RecordInv DEF BeginWritten, Phases
  <1>5. ASSUME NEW m \in Writers, VerifyReady(m) PROVE IInv'
    <2>1. phase[m] = "effect" /\ tx[m] \in Transactions /\ content[target[m]] = tx[m]
      BY <1>5 DEF VerifyReady, IInv, IntentInv
    <2>2. /\ tx' = [tx EXCEPT ![m] = tx[m]]
          /\ content' = [content EXCEPT ![target[m]] = content[target[m]]]
      BY <1>2, <1>5, <2>1, Unmoved DEF VerifyReady, IInv
    <2>3. phase' = [phase EXCEPT ![m] = "ready"] /\ target' = target
          /\ consumerVars' = consumerVars
      BY <1>5 DEF VerifyReady
    <2> QED
      BY <2>1, <2>2, <2>3, RecordInv DEF Phases
  <1>6. ASSUME NEW m \in Writers, Finish(m) PROVE IInv'
    <2>1. phase[m] = "ready" /\ tx[m] \in Transactions
      BY <1>6 DEF Finish, IInv, IntentInv
    <2>2. tx' = [tx EXCEPT ![m] = tx[m]]
      BY <1>2, <1>6, <2>1, Unmoved DEF Finish, IInv
    <2> QED
      BY <1>6, <2>1, <2>2, RecordInv DEF Finish, Phases
  <1>7. ASSUME NEW m \in Writers, FinishWritten(m) PROVE IInv'
    <2>1. phase[m] = "finishing" /\ tx[m] \in Transactions
      BY <1>7 DEF FinishWritten, IInv, IntentInv
    <2>2. tx' = [tx EXCEPT ![m] = tx[m]]
      BY <1>2, <1>7, <2>1, Unmoved DEF FinishWritten, IInv
    <2> QED
      BY <1>7, <2>1, <2>2, RecordInv DEF FinishWritten, Phases
  <1>8. ASSUME NEW m \in Writers, CloseWriter(m) PROVE IInv'
    <2>1. /\ phase' = [phase EXCEPT ![m] = "none"]
          /\ target' = [target EXCEPT ![m] = None]
          /\ tx' = [tx EXCEPT ![m] = None]
          /\ content' = content /\ link' = link /\ bound' = bound
          /\ stage' = stage /\ lease' = lease
      BY <1>8 DEF CloseWriter, consumerVars
    <2>2. TypeOK'
      BY <2>1 DEF IInv, TypeOK, Phases
    <2>3. LockInv'
      BY <2>1, NoneAssumption DEF IInv, LockInv, TypeOK
    <2>4. LeaseInv'
      BY <2>1 DEF IInv, LeaseInv
    <2>5. IntentInv'
      BY <2>1 DEF IInv, IntentInv, TypeOK
    <2> QED
      BY <2>2, <2>3, <2>4, <2>5 DEF IInv
  <1> QED
    BY <1>1, <1>3, <1>4, <1>5, <1>6, <1>7, <1>8 DEF WriterNext

LEMMA NextInv == IInv /\ [Next]_vars => IInv'
  <1>1. IInv /\ UNCHANGED vars => IInv'
    BY DEF vars, IInv, TypeOK, LockInv, LeaseInv, IntentInv
  <1> QED
    BY <1>1, ConsumerInv, WriterInv DEF Next

\* The inductive invariant: the kernel's locks, the leases and the recorded
\* intents agree.
THEOREM Invariance == Spec => []IInv
  BY InitInv, NextInv, PTL DEF Spec

-------------------------------------------------------------------------------
\* The variables keep their types (the descriptors and record of the fence).
THEOREM TypeCorrect == Spec => []TypeOK
  BY Invariance, PTL DEF IInv

\* A record that is not idle, left by a live or by a lost writer, admits no work.
THEOREM UnresolvedBlocksWorkHolds == Spec => []UnresolvedBlocksWork
  <1>1. IInv => UnresolvedBlocksWork
    BY NoneAssumption DEF IInv, LeaseInv, UnresolvedBlocksWork, SharedOn, TypeOK
  <1> QED
    BY <1>1, Invariance, PTL

\* The model server is never restarted under accepted work of the same inode.
THEOREM NoEffectDuringWorkHolds == Spec => []NoEffectDuringWork
  <1>1. IInv => NoEffectDuringWork
    BY NoneAssumption DEF IInv, LockInv, NoEffectDuringWork, SharedOn
  <1> QED
    BY <1>1, Invariance, PTL

\* Effects run under their own durable intent.
THEOREM EffectUnderIntentHolds == Spec => []EffectUnderIntent
  <1>1. IInv => EffectUnderIntent
    BY DEF IInv, IntentInv, EffectUnderIntent
  <1> QED
    BY <1>1, Invariance, PTL

\* Only the finish of the transaction's own writer, after readiness, removes an
\* intent: a lost lock, another writer or a consumer never does.
THEOREM IntentSurvivesHolds == Spec => IntentSurvives
  <1> DEFINE Survives ==
        \A i \in Inodes :
          content[i] \in Transactions /\ content'[i] # content[i] =>
              \E m \in Writers :
                  /\ target[m] = i /\ tx[m] = content[i]
                  /\ phase[m] = "ready" /\ phase'[m] = "finishing"
  <1>1. IInv /\ [Next]_vars => [Survives]_vars
    <2> SUFFICES ASSUME IInv, Next PROVE Survives
      OBVIOUS
    <2>1. ASSUME content' = content PROVE Survives
      BY <2>1
    <2>2. ASSUME NEW m \in Writers, Finish(m) PROVE Survives
      BY <2>2 DEF Finish, IInv, TypeOK
    <2>3. ASSUME NEW m \in Writers, content[target[m]] \notin Transactions,
                 NEW v, content' = [content EXCEPT ![target[m]] = v]
          PROVE  Survives
      BY <2>3 DEF IInv, TypeOK
    <2>4. ASSUME NEW m \in Writers, NEW t \in Transactions, Begin(m, t) PROVE Survives
      BY <2>3, <2>4, DistinctAssumption DEF Begin
    <2>5. ASSUME NEW m \in Writers, BeginWritten(m) PROVE Survives
      BY <2>3, <2>5, DistinctAssumption DEF BeginWritten, IInv, IntentInv
    <2>6. ASSUME NEW m \in Writers, FinishWritten(m) PROVE Survives
      BY <2>3, <2>6, DistinctAssumption DEF FinishWritten, IInv, IntentInv
    <2>7. ASSUME ConsumerNext PROVE content' = content
      BY <2>7 DEF ConsumerNext, OpenFence, CloseFence, KillConsumer, Relink, Wait,
                  Acquire, GiveUp, Start, Release
    <2>8. ASSUME NEW m \in Writers,
                 (\E i \in Inodes : TryExclusive(m, i)) \/ VerifyReady(m) \/ CloseWriter(m)
          PROVE  content' = content
      BY <2>8 DEF TryExclusive, VerifyReady, CloseWriter
    <2> QED
      BY <2>1, <2>2, <2>4, <2>5, <2>6, <2>7, <2>8 DEF Next, WriterNext
  <1> QED
    BY <1>1, Invariance, PTL DEF Spec, IntentSurvives
===============================================================================

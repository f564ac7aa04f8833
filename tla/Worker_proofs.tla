----------------------------- MODULE Worker_proofs -----------------------------
(* The worker's journal, queue bound, ledger bound and maintenance exclusion   *)
(* hold for every number of jobs and consumers, whatever writes fail and       *)
(* processes die.  One identity is one job: it carries one input, is paid for  *)
(* and called back at most once, and is not run again while its outcome is     *)
(* unknown.  Due records leave, as long as no accepted job has a tombstone.    *)
EXTENDS Worker, SequenceTheorems, FiniteSetTheorems, TLAPS

-------------------------------------------------------------------------------
\* A record on disk: a later restart knows the job.
Guarded(j) == journal[j] # None \/ archive[j] # None

\* A consumer inside _run_job has a job.
BusyHasJob == \A c \in Consumers : cons[c].pc \in Busy => cons[c].job \in Requests

\* The crash witness is on disk before the model request.
WitnessFirst == \A c \in Consumers : cons[c].pc = "executing" => Guarded(JobOf(c))

\* Each accepted job holds a lease, and no lease is held beside a writer.
LeaseInv ==
    /\ \A j \in Jobs : pend[j] # None => j \in leased
    /\ maintenance => leased = {}

IInv == TypeOK /\ BusyHasJob /\ WitnessFirst /\ ExecutedHasGuard /\ LeaseInv
            /\ WaitingWithinQueue

-------------------------------------------------------------------------------
(* Lemmas.                                                                     *)
LEMMA RemoveAtSeq ==
  ASSUME NEW S, NEW s \in Seq(S), NEW i \in 1..Len(s)
  PROVE  RemoveAt(s, i) \in Seq(S) /\ Len(RemoveAt(s, i)) = Len(s) - 1
  <1> DEFINE a == SubSeq(s, 1, i - 1)
             b == SubSeq(s, i + 1, Len(s))
  <1>1. a \in Seq(S) /\ Len(a) = i - 1
    <2>1. \A k \in 1..(i - 1) : s[k] \in S
      OBVIOUS
    <2> QED
      BY <2>1, SubSeqProperties
  <1>2. b \in Seq(S) /\ Len(b) = Len(s) - i
    <2>1. \A k \in (i + 1)..Len(s) : s[k] \in S
      OBVIOUS
    <2> QED
      BY <2>1, SubSeqProperties
  <1>3. RemoveAt(s, i) = a \o b
    BY DEF RemoveAt
  <1> HIDE DEF a, b
  <1>4. a \o b \in Seq(S) /\ Len(a \o b) = Len(a) + Len(b)
    BY <1>1, <1>2, ConcatProperties
  <1>5. Len(s) \in Nat /\ i \in Nat
    OBVIOUS
  <1> QED
    BY <1>1, <1>2, <1>3, <1>4, <1>5

\* What one journal write, successful or not, may do.
Written ==
    /\ journal' \in [Jobs -> Records \cup {None}]
    /\ history' \in [Jobs -> Records \cup {None}]
    /\ old' \subseteq Jobs /\ faults' \in Nat
    /\ \A j \in Jobs : journal[j] # None => journal'[j] # None

LEMMA RecordType ==
  ASSUME TypeOK, NEW q \in Requests, NEW s \in States
  PROVE  Record(q, s) \in Records /\ Record(q, s) # None
  <1>1. q[1] \in Jobs /\ q[2] \in Fps
    BY DEF Requests
  <1>2. attempt[q[1]] \in Nat
    BY <1>1 DEF TypeOK
  <1> QED
    BY <1>1, <1>2, NoRecordAssumption DEF Record, Records

LEMMA RecordedWrites ==
  ASSUME TypeOK, NEW q \in Requests, NEW s \in States, Recorded(q, s)
  PROVE  Written /\ journal'[q[1]] # None
  <1>1. q[1] \in Jobs
    BY DEF Requests
  <1>2. Record(q, s) \in Records /\ Record(q, s) # None
    BY RecordType
  <1> QED
    BY <1>1, <1>2 DEF Recorded, Written, TypeOK

LEMMA RecordRaisedWrites ==
  ASSUME TypeOK, NEW q \in Requests, NEW s \in States, RecordRaised(q, s)
  PROVE  Written
  <1>1. q[1] \in Jobs
    BY DEF Requests
  <1>2. Record(q, s) \in Records /\ Record(q, s) # None
    BY RecordType
  <1>3. journal' = journal \/ journal' = [journal EXCEPT ![q[1]] = Record(q, s)]
    BY DEF RecordRaised
  <1>4. /\ journal' \in [Jobs -> Records \cup {None}]
        /\ \A j \in Jobs : journal[j] # None => journal'[j] # None
    BY <1>1, <1>2, <1>3 DEF TypeOK
  <1>5. history' = history /\ old' = old /\ faults' \in Nat
    BY DEF RecordRaised, TypeOK
  <1> QED
    BY <1>4, <1>5 DEF Written, TypeOK

\* The rollover leaves a tombstone for each record it takes.
LEMMA ArchiveKeeps ==
  ASSUME TypeOK, NEW S \in SUBSET DueJobs, Archive(S)
  PROVE  /\ journal' \in [Jobs -> Records \cup {None}]
         /\ history' \in [Jobs -> Records \cup {None}]
         /\ archive' \in [Jobs -> Records \cup {None}]
         /\ old' \subseteq Jobs
         /\ \A j \in Jobs : Guarded(j) => Guarded(j)'
  <1>1. \A j \in S : history[j] # None
    BY DEF DueJobs, Due, StateIn, Terminal
  <1> QED
    BY <1>1 DEF Archive, TypeOK, Guarded

Frame == UNCHANGED <<mode, archive, permit, reserved, proc, inflight, maintenance, attempt>>
NoWrite == UNCHANGED <<journal, history, old, faults>>
NoEnd == UNCHANGED <<pend, leased>>
Ends(j) == pend' = [pend EXCEPT ![j] = None] /\ leased' = leased \ {j}
Ghosts ==
    /\ calls' \in [Jobs -> Nat] /\ callbacks' \in [Jobs -> Nat]
    /\ inputs' \in [Jobs -> SUBSET Fps] /\ undecided' \subseteq Jobs
    /\ \A j \in Jobs : calls'[j] > 0 => calls[j] > 0 \/ Guarded(j)
Waiting ==
    /\ queue' \in Seq(Requests) /\ lane' \in Seq(Requests)
    /\ Len(queue') + Len(lane') <= Len(queue) + Len(lane)
ConsRecord == [pc : Phases, job : Requests \cup {None}, err : BOOLEAN]

\* A step of consumer c that takes it to x.
LEMMA ConsumerMoves ==
  ASSUME IInv, NEW c \in Consumers, NEW x \in ConsRecord,
         cons' = [cons EXCEPT ![c] = x],
         x.pc \in Busy => x.job \in Requests,
         x.pc = "executing" => journal'[x.job[1]] # None \/ archive'[x.job[1]] # None,
         Frame, Written \/ NoWrite, NoEnd \/ \E j \in Jobs : Ends(j), Ghosts, Waiting
  PROVE  IInv'
  <1>1. Written
    BY DEF NoWrite, Written, IInv, TypeOK
  <1>2. \A j \in Jobs : Guarded(j) => Guarded(j)'
    BY <1>1 DEF Written, Frame, Guarded
  <1>3. \A d \in Consumers : cons'[d] = IF d = c THEN x ELSE cons[d]
    BY DEF IInv, TypeOK
  <1>4. pend' \in [Jobs -> Fps \cup {None}] /\ leased' \subseteq leased
    BY DEF NoEnd, Ends, IInv, TypeOK
  <1>5. TypeOK'
    <2>1. cons' \in [Consumers -> ConsRecord]
      BY DEF IInv, TypeOK, ConsRecord
    <2>2. /\ mode' \in Modes /\ archive' \in [Jobs -> Records \cup {None}]
          /\ permit' \in Jobs \cup {None} /\ reserved' \subseteq Jobs
          /\ proc' \in {"down", "running", "draining"} /\ inflight' \subseteq Requests
          /\ maintenance' \in BOOLEAN /\ attempt' \in [Jobs -> Nat]
      BY DEF Frame, IInv, TypeOK
    <2>3. leased' \subseteq Jobs
      BY <1>4 DEF IInv, TypeOK
    <2> QED
      BY <1>1, <1>4, <2>1, <2>2, <2>3 DEF Written, Ghosts, Waiting, ConsRecord, TypeOK
  <1>6. BusyHasJob'
    <2> SUFFICES ASSUME NEW d \in Consumers, cons'[d].pc \in Busy
                 PROVE  cons'[d].job \in Requests
      BY DEF BusyHasJob
    <2> QED
      BY <1>3 DEF BusyHasJob, IInv
  <1>7. WitnessFirst'
    <2> SUFFICES ASSUME NEW d \in Consumers, cons'[d].pc = "executing"
                 PROVE  Guarded(cons[d].job[1])'
      BY DEF WitnessFirst, JobOf
    <2>1. CASE d = c
      BY <2>1, <1>3 DEF Guarded
    <2>2. CASE d # c
      <3>1. cons'[d] = cons[d] /\ cons[d].pc \in Busy
        BY <2>2, <1>3 DEF Busy, Phases
      <3>3. cons[d].job \in Requests
        BY <3>1 DEF IInv, BusyHasJob
      <3>2. Guarded(cons[d].job[1]) /\ cons[d].job[1] \in Jobs
        BY <3>1, <3>3 DEF IInv, WitnessFirst, JobOf, Requests
      <3> QED
        BY <3>1, <3>2, <1>2 DEF Guarded
    <2> QED
      BY <2>1, <2>2
  <1>8. ExecutedHasGuard'
    BY <1>2 DEF Ghosts, ExecutedHasGuard, Guarded, IInv
  <1>9. LeaseInv'
    BY <1>4 DEF LeaseInv, IInv, NoEnd, Ends, Frame, TypeOK
  <1>10. WaitingWithinQueue'
    BY <1>5, BoundsAssumption DEF Waiting, WaitingWithinQueue, IInv, TypeOK
  <1> QED
    BY <1>5, <1>6, <1>7, <1>8, <1>9, <1>10 DEF IInv

LEMMA Kept ==
  ASSUME IInv
  PROVE  /\ UNCHANGED runVars => Frame /\ Waiting
         /\ UNCHANGED ghosts => Ghosts
  <1>1. ASSUME UNCHANGED runVars PROVE Frame /\ Waiting
    BY <1>1 DEF runVars, guards, Frame, Waiting, IInv, TypeOK
  <1>2. ASSUME UNCHANGED ghosts PROVE Ghosts
    BY <1>2 DEF ghosts, Ghosts, IInv, TypeOK
  <1> QED
    BY <1>1, <1>2

\* A busy consumer goes on with its job.
LEMMA ToMoves ==
  ASSUME IInv, NEW c \in Consumers, cons[c].pc \in Busy, NEW p \in Phases, To(c, p),
         p = "executing" => Guarded(JobOf(c))',
         UNCHANGED runVars, Written \/ NoWrite, NoEnd, Ghosts
  PROVE  IInv'
  <1> DEFINE x == [cons[c] EXCEPT !.pc = p]
  <1>1. cons[c] \in ConsRecord /\ cons[c].job \in Requests
    BY DEF IInv, TypeOK, BusyHasJob, ConsRecord
  <1>2. x \in ConsRecord /\ x.pc = p /\ x.job = cons[c].job
    BY <1>1 DEF ConsRecord
  <1>3. cons' = [cons EXCEPT ![c] = x]
    BY DEF To, IInv, TypeOK
  <1>4. cons'[c] = x
    BY <1>3 DEF IInv, TypeOK
  <1>5. p = "executing" => journal'[x.job[1]] # None \/ archive'[x.job[1]] # None
    <2>1. cons'[c].job = cons[c].job
      BY <1>2, <1>4
    <2> QED
      BY <1>2, <2>1 DEF JobOf, Guarded
  <1>6. Frame /\ Waiting
    BY Kept
  <1> HIDE DEF x
  <1> QED
    BY <1>1, <1>2, <1>3, <1>5, <1>6, ConsumerMoves

\* A busy consumer ends its job and looks for another.
LEMMA FinishMoves ==
  ASSUME IInv, NEW c \in Consumers, cons[c].pc \in Busy, NEW p \in {"idle", "lane", "dead"},
         cons' = [cons EXCEPT ![c] = [Idle EXCEPT !.pc = p]], Ends(JobOf(c)),
         UNCHANGED runVars, Written \/ NoWrite, Ghosts
  PROVE  IInv'
  <1> DEFINE x == [Idle EXCEPT !.pc = p]
  <1>1. JobOf(c) \in Jobs
    BY DEF IInv, BusyHasJob, JobOf, Requests
  <1>2. x \in ConsRecord /\ x.pc = p
    BY DEF ConsRecord, Idle, Phases
  <1>3. Frame /\ Waiting
    BY Kept
  <1>4. x.pc \notin Busy /\ x.pc # "executing"
    BY <1>2 DEF Busy
  <1> HIDE DEF x
  <1>5. cons' = [cons EXCEPT ![c] = x]
    BY DEF x
  <1> QED
    BY <1>1, <1>2, <1>3, <1>4, <1>5, ConsumerMoves

LEMMA FinishEnds ==
  ASSUME NEW c \in Consumers, Finish(c)
  PROVE  /\ Ends(JobOf(c))
         /\ \E p \in {"idle", "lane", "dead"} : cons' = [cons EXCEPT ![c] = [Idle EXCEPT !.pc = p]]
  <1>1. CASE InLane(JobOf(c))
    BY <1>1 DEF Finish, Ends
  <1>2. CASE ~InLane(JobOf(c))
    BY <1>2 DEF Finish, Ends
  <1> QED
    BY <1>1, <1>2

-------------------------------------------------------------------------------
(* The steps of a consumer.                                                    *)
LEMMA TakeInv ==
  ASSUME IInv, NEW c \in Consumers, Take(c)
  PROVE  IInv'
  <1>1. PICK i \in 1..Len(queue) :
           /\ queue' = RemoveAt(queue, i)
           /\ IF InLane(queue[i][1])
              THEN lane' = Append(lane, queue[i]) /\ To(c, "lane")
              ELSE cons' = [cons EXCEPT ![c] = Running(queue[i])] /\ lane' = lane
    BY DEF Take
  <1>2. queue \in Seq(Requests) /\ lane \in Seq(Requests) /\ queue[i] \in Requests
    BY DEF IInv, TypeOK
  <1>3. queue' \in Seq(Requests) /\ Len(queue') = Len(queue) - 1
    BY <1>1, <1>2, RemoveAtSeq
  <1>4. Frame /\ NoWrite /\ NoEnd
    BY DEF Take, Frame, NoWrite, NoEnd, disk, guards
  <1>5. Ghosts
    BY Kept DEF Take
  <1>6. cons[c] \in ConsRecord
    BY DEF IInv, TypeOK, ConsRecord
  <1>7. CASE InLane(queue[i][1])
    <2> DEFINE x == [cons[c] EXCEPT !.pc = "lane"]
    <2>1. lane' \in Seq(Requests) /\ Len(lane') = Len(lane) + 1
      BY <1>1, <1>2, <1>7
    <2>2. Waiting
      BY <1>2, <1>3, <2>1 DEF Waiting
    <2>3. x \in ConsRecord /\ x.pc = "lane"
      BY <1>6 DEF ConsRecord, Phases
    <2>4. cons' = [cons EXCEPT ![c] = x]
      BY <1>1, <1>7 DEF To
    <2>5. x.pc \notin Busy /\ x.pc # "executing"
      BY <2>3 DEF Busy
    <2> HIDE DEF x
    <2> QED
      BY <2>2, <2>3, <2>4, <2>5, <1>4, <1>5, ConsumerMoves
  <1>8. CASE ~InLane(queue[i][1])
    <2> DEFINE x == Running(queue[i])
    <2>1. Waiting
      BY <1>1, <1>2, <1>3, <1>8 DEF Waiting
    <2>2. x \in ConsRecord /\ x.job \in Requests /\ x.pc # "executing"
      BY <1>2 DEF ConsRecord, Running, Phases
    <2>3. cons' = [cons EXCEPT ![c] = x]
      BY <1>1, <1>8
    <2> HIDE DEF x
    <2> QED
      BY <2>1, <2>2, <2>3, <1>4, <1>5, ConsumerMoves
  <1> QED
    BY <1>7, <1>8

LEMMA LaneTakeInv ==
  ASSUME IInv, NEW c \in Consumers, LaneTake(c)
  PROVE  IInv'
  <1>1. queue \in Seq(Requests) /\ lane \in Seq(Requests)
    BY DEF IInv, TypeOK
  <1>2. Frame /\ NoWrite /\ NoEnd /\ queue' = queue
    BY DEF LaneTake, Frame, NoWrite, NoEnd, disk, guards
  <1>3. Ghosts
    BY Kept DEF LaneTake
  <1>4. CASE lane # <<>> /\ Cardinality(InLaneNow) < LANE
    <2> DEFINE x == Running(Head(lane))
    <2>1. Head(lane) \in Requests /\ Tail(lane) \in Seq(Requests)
          /\ Len(Tail(lane)) = Len(lane) - 1
      BY <1>1, <1>4
    <2>2. cons' = [cons EXCEPT ![c] = x] /\ lane' = Tail(lane)
      BY <1>4 DEF LaneTake
    <2>3. Waiting
      BY <1>1, <1>2, <2>1, <2>2 DEF Waiting
    <2>4. x \in ConsRecord /\ x.job \in Requests /\ x.pc # "executing"
      BY <2>1 DEF ConsRecord, Running, Phases
    <2> HIDE DEF x
    <2> QED
      BY <2>2, <2>3, <2>4, <1>2, <1>3, ConsumerMoves
  <1>5. CASE ~(lane # <<>> /\ Cardinality(InLaneNow) < LANE)
    <2>1. cons' = [cons EXCEPT ![c] = Idle] /\ lane' = lane
      BY <1>5 DEF LaneTake
    <2>2. Waiting
      BY <1>1, <1>2, <2>1 DEF Waiting
    <2>3. Idle \in ConsRecord /\ Idle.pc \notin Busy /\ Idle.pc # "executing"
      BY DEF ConsRecord, Idle, Phases, Busy
    <2> QED
      BY <2>1, <2>2, <2>3, <1>2, <1>3, ConsumerMoves
  <1> QED
    BY <1>4, <1>5

LEMMA StartInv ==
  ASSUME IInv, NEW c \in Consumers, Start(c)
  PROVE  IInv'
  <1>1. cons[c].pc \in Busy /\ cons[c].job \in Requests
    BY DEF Start, Busy, Phases, IInv, BusyHasJob
  <1>2. UNCHANGED runVars /\ NoEnd /\ Ghosts
    BY Kept DEF Start, NoEnd
  <1>3. CASE Recorded(cons[c].job, "execution_started") /\ To(c, "executing")
    <2>1. Written /\ journal'[cons[c].job[1]] # None
      BY <1>1, <1>3, RecordedWrites DEF IInv, States
    <2>2. cons'[c].job = cons[c].job
      BY <1>3 DEF To, IInv, TypeOK
    <2>3. Guarded(JobOf(c))'
      BY <2>1, <2>2 DEF Guarded, JobOf
    <2> QED
      BY <1>1, <1>2, <1>3, <2>1, <2>3, ToMoves DEF Phases
  <1>4. CASE RecordRaised(cons[c].job, "execution_started") /\ To(c, "failing")
    <2>1. Written
      BY <1>1, <1>4, RecordRaisedWrites DEF IInv, States
    <2> QED
      BY <1>1, <1>2, <1>4, <2>1, ToMoves DEF Phases
  <1> QED
    BY <1>3, <1>4 DEF Start

LEMMA InferInv ==
  ASSUME IInv, NEW c \in Consumers, Infer(c)
  PROVE  IInv'
  <1>1. cons[c].pc = "executing" /\ cons[c].pc \in Busy /\ cons[c].job \in Requests
    BY DEF Infer, Busy, Phases, IInv, BusyHasJob
  <1>2. JobOf(c) \in Jobs /\ cons[c].job[2] \in Fps /\ Guarded(JobOf(c))
    BY <1>1 DEF JobOf, Requests, IInv, WitnessFirst
  <1>3. Ghosts
    <2>1. \A j \in Jobs : calls'[j] > 0 => calls[j] > 0 \/ Guarded(j)
      BY <1>2 DEF Infer, IInv, TypeOK
    <2> QED
      BY <1>2, <2>1 DEF Infer, Ghosts, IInv, TypeOK
  <1>4. UNCHANGED runVars /\ NoWrite /\ NoEnd /\ To(c, "inferred")
    BY DEF Infer, NoWrite, NoEnd
  <1> QED
    BY <1>1, <1>3, <1>4, ToMoves DEF Phases

LEMMA FailInv ==
  ASSUME IInv, NEW c \in Consumers, Fail(c)
  PROVE  IInv'
  <1>1. cons[c].pc \in Busy
    BY DEF Fail, Busy, Phases
  <1>2. UNCHANGED runVars /\ NoWrite /\ NoEnd /\ To(c, "failing") /\ Ghosts
    BY Kept DEF Fail, NoWrite, NoEnd
  <1> QED
    BY <1>1, <1>2, ToMoves DEF Phases

LEMMA DecidedGhosts ==
  ASSUME IInv, NEW c \in Consumers, Decided(c)
  PROVE  Ghosts
  BY DEF Decided, Ghosts, IInv, TypeOK

\* The record "completed" and the end, with or without a callback before.
LEMMA CompleteInv ==
  ASSUME IInv, NEW c \in Consumers, cons[c].pc \in Busy, Complete(c), Decided(c),
         UNCHANGED runVars
  PROVE  IInv'
  <1>1. cons[c].job \in Requests
    BY DEF IInv, BusyHasJob
  <1>2. Ghosts
    BY DecidedGhosts
  <1>3. CASE Recorded(cons[c].job, "completed") /\ Finish(c)
    <2>1. Written
      BY <1>1, <1>3, RecordedWrites DEF IInv, States
    <2> QED
      BY <1>2, <1>3, <2>1, FinishEnds, FinishMoves
  <1>4. CASE RecordRaised(cons[c].job, "completed") /\ To(c, "failing") /\ NoEnd
    <2>1. Written
      BY <1>1, <1>4, RecordRaisedWrites DEF IInv, States
    <2> QED
      BY <1>2, <1>4, <2>1, ToMoves DEF Phases
  <1> QED
    BY <1>3, <1>4 DEF Complete, NoEnd

LEMMA CallbackInv ==
  ASSUME IInv, NEW c \in Consumers,
         CompleteLocally(c) \/ BeginCallback(c) \/ Post(c) \/ PostAccepted(c) \/ PostUncertain(c)
  PROVE  IInv'
  <1> USE DEF Phases, Busy
  <1>1. CASE CompleteLocally(c)
    BY <1>1, CompleteInv DEF CompleteLocally
  <1>2. CASE BeginCallback(c)
    <2>1. cons[c].job \in Requests /\ cons[c].pc \in Busy
      BY <1>2 DEF BeginCallback, IInv, BusyHasJob
    <2>2. UNCHANGED runVars /\ NoEnd /\ Ghosts
      BY <1>2, Kept DEF BeginCallback, NoEnd
    <2>3. CASE Recorded(cons[c].job, "callback_sending") /\ To(c, "sending")
      <3>1. Written
        BY <2>1, <2>3, RecordedWrites DEF IInv, States
      <3> QED
        BY <2>1, <2>2, <2>3, <3>1, ToMoves
    <2>4. CASE RecordRaised(cons[c].job, "callback_sending") /\ To(c, "failing")
      <3>1. Written
        BY <2>1, <2>4, RecordRaisedWrites DEF IInv, States
      <3> QED
        BY <2>1, <2>2, <2>4, <3>1, ToMoves
    <2> QED
      BY <1>2, <2>3, <2>4 DEF BeginCallback
  <1>3. CASE Post(c)
    <2>1. cons[c].job \in Requests /\ cons[c].pc \in Busy
      BY <1>3 DEF Post, IInv, BusyHasJob
    <2>2. UNCHANGED runVars /\ NoWrite /\ NoEnd /\ To(c, "posted")
      BY <1>3 DEF Post, NoWrite, NoEnd
    <2>3. Ghosts
      BY <1>3, <2>1 DEF Post, Ghosts, IInv, TypeOK, JobOf, Requests
    <2> QED
      BY <2>1, <2>2, <2>3, ToMoves
  <1>4. CASE PostAccepted(c)
    BY <1>4, CompleteInv DEF PostAccepted
  <1>5. CASE PostUncertain(c)
    <2>1. cons[c].job \in Requests /\ cons[c].pc \in Busy
      BY <1>5 DEF PostUncertain, IInv, BusyHasJob
    <2>2. UNCHANGED runVars /\ NoEnd /\ Ghosts /\ To(c, "failing")
      BY <1>5, Kept DEF PostUncertain, NoEnd
    <2>3. Written
      BY <1>5, <2>1, RecordedWrites, RecordRaisedWrites DEF PostUncertain, IInv, States
    <2> QED
      BY <2>1, <2>2, <2>3, ToMoves
  <1> QED
    BY <1>1, <1>2, <1>3, <1>4, <1>5

LEMMA HandlerInv ==
  ASSUME IInv, NEW c \in Consumers, HandleUnsafe(c) \/ HandleFailed(c) \/ HandleOnDemand(c)
  PROVE  IInv'
  <1>1. cons[c].pc = "failing" /\ cons[c].pc \in Busy /\ cons[c].job \in Requests
    BY DEF HandleUnsafe, HandleFailed, HandleOnDemand, NothingSent, Phases, Busy, IInv, BusyHasJob
  <1>2. UNCHANGED runVars
    BY DEF HandleUnsafe, HandleFailed, HandleOnDemand
  <1>3. CASE HandleUnsafe(c)
    BY <1>1, <1>2, <1>3, Kept, FinishEnds, FinishMoves DEF HandleUnsafe, NoWrite
  <1>4. CASE HandleFailed(c)
    <2>1. Ghosts
      BY <1>4, DecidedGhosts DEF HandleFailed
    <2>2. CASE Recorded(cons[c].job, "failed") /\ Finish(c)
      <3>1. Written
        BY <1>1, <2>2, RecordedWrites DEF IInv, States
      <3> QED
        BY <1>1, <1>2, <2>1, <2>2, <3>1, FinishEnds, FinishMoves
    <2>3. CASE /\ RecordRaised(cons[c].job, "failed")
               /\ Ends(JobOf(c))
               /\ cons' = [cons EXCEPT ![c] = [Idle EXCEPT !.pc = "dead"]]
      <3>1. Written
        BY <1>1, <2>3, RecordRaisedWrites DEF IInv, States
      <3> QED
        BY <1>1, <1>2, <2>1, <2>3, <3>1, FinishMoves
    <2> QED
      BY <1>4, <2>2, <2>3 DEF HandleFailed, Ends
  <1>5. CASE HandleOnDemand(c)
    <2> DEFINE x == [cons[c] EXCEPT !.pc = "sending", !.err = TRUE]
               y == [cons[c] EXCEPT !.err = TRUE]
    <2>1. cons[c] \in ConsRecord
      BY DEF IInv, TypeOK, ConsRecord
    <2>2. Frame /\ Waiting /\ NoEnd /\ Ghosts
      BY <1>5, Kept DEF HandleOnDemand, NoEnd
    <2>3. CASE /\ Recorded(cons[c].job, "callback_sending")
               /\ cons' = [cons EXCEPT ![c].pc = "sending", ![c].err = TRUE]
      <3>1. Written
        BY <1>1, <2>3, RecordedWrites DEF IInv, States
      <3>2. cons' = [cons EXCEPT ![c] = x]
        BY <2>3 DEF IInv, TypeOK
      <3>3. x \in ConsRecord /\ x.pc = "sending" /\ x.job = cons[c].job
        BY <2>1 DEF ConsRecord, Phases
      <3> HIDE DEF x
      <3> QED
        BY <1>1, <2>2, <3>1, <3>2, <3>3, ConsumerMoves
    <2>4. CASE /\ RecordRaised(cons[c].job, "callback_sending")
               /\ cons' = [cons EXCEPT ![c].err = TRUE]
      <3>1. Written
        BY <1>1, <2>4, RecordRaisedWrites DEF IInv, States
      <3>2. cons' = [cons EXCEPT ![c] = y]
        BY <2>4 DEF IInv, TypeOK
      <3>3. y \in ConsRecord /\ y.pc = "failing" /\ y.job = cons[c].job
        BY <1>1, <2>1 DEF ConsRecord
      <3> HIDE DEF y
      <3> QED
        BY <1>1, <2>2, <3>1, <3>2, <3>3, ConsumerMoves
    <2> QED
      BY <1>5, <2>3, <2>4 DEF HandleOnDemand
  <1> QED
    BY <1>3, <1>4, <1>5

LEMMA WorkInv ==
  ASSUME IInv, NEW c \in Consumers, Work(c)
  PROVE  IInv'
  BY TakeInv, LaneTakeInv, StartInv, InferInv, FailInv, CallbackInv, HandlerInv DEF Work

-------------------------------------------------------------------------------
(* Admission and the process.                                                  *)

\* A step of no consumer, or one that ends them all.
LEMMA OthersKeep ==
  ASSUME IInv, TypeOK', LeaseInv', WaitingWithinQueue',
         cons' = cons \/ cons' = [c \in Consumers |-> Idle],
         \A j \in Jobs : Guarded(j) => Guarded(j)',
         calls' = calls
  PROVE  IInv'
  <1>1. ExecutedHasGuard'
    BY DEF IInv, ExecutedHasGuard, Guarded
  <1>2. CASE cons' = cons
    <2>1. BusyHasJob'
      BY <1>2 DEF IInv, BusyHasJob
    <2>2. WitnessFirst'
      <3> SUFFICES ASSUME NEW c \in Consumers, cons[c].pc = "executing"
                   PROVE  Guarded(JobOf(c))'
        BY <1>2 DEF WitnessFirst
      <3>1. cons[c].job \in Requests /\ Guarded(JobOf(c))
        BY DEF IInv, WitnessFirst, BusyHasJob, Busy, Phases
      <3>2. cons[c].job[1] \in Jobs
        BY <3>1 DEF Requests
      <3> QED
        BY <1>2, <3>1, <3>2 DEF Guarded, JobOf
    <2> QED
      BY <2>1, <2>2, <1>1 DEF IInv
  <1>3. CASE cons' = [c \in Consumers |-> Idle]
    BY <1>1, <1>3 DEF IInv, BusyHasJob, WitnessFirst, Idle, Busy
  <1> QED
    BY <1>2, <1>3

LEMMA SameQueue ==
  ASSUME IInv
  PROVE  /\ UNCHANGED <<queue, lane>> => WaitingWithinQueue'
         /\ queue' = <<>> /\ lane' = <<>> => WaitingWithinQueue'
         /\ UNCHANGED <<pend, leased, maintenance>> => LeaseInv'
         /\ UNCHANGED disk => \A j \in Jobs : Guarded(j) => Guarded(j)'
  BY BoundsAssumption DEF IInv, WaitingWithinQueue, LeaseInv, disk, Guarded

LEMMA RequestInv ==
  ASSUME IInv, NEW j \in Jobs, NEW fp \in Fps, Request(j, fp)
  PROVE  IInv'
  <1>1. TypeOK'
    BY DEF Request, disk, guards, ghosts, IInv, TypeOK, Requests
  <1> QED
    BY <1>1, SameQueue, OthersKeep DEF Request, ghosts

LEMMA DismissInv ==
  ASSUME IInv, NEW q \in inflight, Dismiss(q)
  PROVE  IInv'
  <1>1. TypeOK'
    BY DEF Dismiss, disk, guards, ghosts, IInv, TypeOK
  <1> QED
    BY <1>1, SameQueue, OthersKeep DEF Dismiss, ghosts

\* The permit and the reservations keep their types.
LEMMA SpendType ==
  ASSUME TypeOK, NEW j \in Jobs, Spend(j)
  PROVE  permit' \in Jobs \cup {None} /\ reserved' \subseteq Jobs
  BY DEF Spend, TypeOK

LEMMA AdmitInv ==
  ASSUME IInv, NEW q \in inflight, Admit(q)
  PROVE  IInv'
  <1>1. q \in Requests /\ q[1] \in Jobs /\ q[2] \in Fps
    BY DEF IInv, TypeOK, Requests
  <1>2. Archive(DueJobs) /\ Spend(q[1]) /\ inflight' = inflight \ {q} /\ maintenance = FALSE
    BY DEF Admit, Reaches, IInv, TypeOK
  <1>3. /\ journal' \in [Jobs -> Records \cup {None}]
        /\ history' \in [Jobs -> Records \cup {None}]
        /\ archive' \in [Jobs -> Records \cup {None}]
        /\ old' \subseteq Jobs
        /\ \A j \in Jobs : Guarded(j) => Guarded(j)'
    BY <1>2, ArchiveKeeps DEF IInv
  <1>4. permit' \in Jobs \cup {None} /\ reserved' \subseteq Jobs
    BY <1>1, <1>2, SpendType DEF IInv
  <1>5. /\ queue' = Append(queue, q) /\ pend' = [pend EXCEPT ![q[1]] = q[2]]
        /\ leased' = leased \cup {q[1]} /\ attempt' = [attempt EXCEPT ![q[1]] = @ + 1]
        /\ UNCHANGED <<mode, proc, lane, cons, maintenance, faults, calls, inputs,
                       undecided, callbacks>>
    BY DEF Admit, ghosts
  <1>6. queue' \in Seq(Requests) /\ Len(queue') = Len(queue) + 1
    BY <1>1, <1>5 DEF IInv, TypeOK
  <1>7. TypeOK'
    BY <1>1, <1>2, <1>3, <1>4, <1>5, <1>6 DEF IInv, TypeOK
  <1>8. LeaseInv'
    BY <1>1, <1>2, <1>5 DEF IInv, LeaseInv, TypeOK
  <1>9. WaitingWithinQueue'
    <2>1. Len(queue) + Len(lane) < MAX_QUEUE
      BY DEF Admit, QueueRoom
    <2>2. Len(queue) \in Nat /\ Len(lane) \in Nat
      BY DEF IInv, TypeOK
    <2> QED
      BY <2>1, <2>2, <1>5, <1>6, BoundsAssumption DEF WaitingWithinQueue
  <1> QED
    BY <1>3, <1>5, <1>7, <1>8, <1>9, OthersKeep

LEMMA AdmitRefusedInv ==
  ASSUME IInv, NEW q \in inflight, AdmitRefused(q) \/ AdmitWedged(q)
  PROVE  IInv'
  <1>1. q[1] \in Jobs
    BY DEF IInv, TypeOK, Requests
  <1>2. PICK S \in SUBSET DueJobs : Archive(S)
    BY DEF AdmitRefused, AdmitWedged
  <1>3. /\ journal' \in [Jobs -> Records \cup {None}]
        /\ history' \in [Jobs -> Records \cup {None}]
        /\ archive' \in [Jobs -> Records \cup {None}]
        /\ old' \subseteq Jobs
        /\ \A j \in Jobs : Guarded(j) => Guarded(j)'
    BY <1>2, ArchiveKeeps DEF IInv
  <1>4. permit' \in Jobs \cup {None} /\ reserved' \subseteq Jobs
    BY <1>1, SpendType DEF AdmitRefused, AdmitWedged, guards, IInv, TypeOK
  <1>5. /\ inflight' = inflight \ {q}
        /\ UNCHANGED <<mode, proc, pend, queue, lane, cons, leased, maintenance, attempt,
                       faults, calls, inputs, undecided, callbacks>>
    BY DEF AdmitRefused, AdmitWedged, Reaches, ghosts
  <1>6. TypeOK'
    BY <1>3, <1>4, <1>5 DEF IInv, TypeOK
  <1> QED
    BY <1>3, <1>5, <1>6, SameQueue, OthersKeep

LEMMA ForgetType ==
  ASSUME TypeOK, Forget
  PROVE  /\ proc' \in {"down", "running", "draining"}
         /\ history' \in [Jobs -> Records \cup {None}]
         /\ pend' \in [Jobs -> Fps \cup {None}]
         /\ queue' \in Seq(Requests) /\ lane' \in Seq(Requests)
         /\ cons' \in [Consumers -> [pc : Phases, job : Requests \cup {None}, err : BOOLEAN]]
         /\ inflight' \subseteq Requests /\ leased' \subseteq Jobs
         /\ queue' = <<>> /\ lane' = <<>>
         /\ \A j \in Jobs : pend'[j] = None
         /\ leased' = {} /\ cons' = [c \in Consumers |-> Idle]
  BY DEF Forget, NoJobs, Idle, Phases

\* The end of the process, clean or not, keeps what is on disk.
LEMMA EndInv ==
  ASSUME IInv, Forget,
         journal' \in [Jobs -> Records \cup {None}], archive' \in [Jobs -> Records \cup {None}],
         \A j \in Jobs : journal[j] # None => journal'[j] # None,
         \A j \in Jobs : archive[j] # None => archive'[j] # None,
         UNCHANGED <<mode, guards, old, maintenance, attempt, faults, ghosts>>
  PROVE  IInv'
  <1>1. TypeOK'
    BY ForgetType DEF guards, ghosts, IInv, TypeOK
  <1>2. LeaseInv' /\ WaitingWithinQueue'
    BY ForgetType, SameQueue DEF LeaseInv, IInv
  <1>3. \A j \in Jobs : Guarded(j) => Guarded(j)'
    BY DEF Guarded
  <1>4. cons' = [c \in Consumers |-> Idle] /\ calls' = calls
    BY DEF Forget, ghosts
  <1> QED
    BY <1>1, <1>2, <1>3, <1>4, OthersKeep

LEMMA StopInv ==
  ASSUME IInv, Stop
  PROVE  IInv'
  <1>1. \A q \in Sending : q \in Requests
    BY DEF Sending, IInv, BusyHasJob, Busy, Phases
  <1>2. ASSUME NEW j \in Jobs, NEW p \in Sending, p[1] = j
        PROVE  LET q == CHOOSE q \in Sending : q[1] = j
               IN  Record(q, "callback_uncertain") \in Records
    <2>1. PICK q \in Sending : q = CHOOSE r \in Sending : r[1] = j
      BY <1>2
    <2> QED
      BY <1>1, <2>1, RecordType DEF IInv, States
  <1>3. journal' \in [Jobs -> Records \cup {None}]
    <2> SUFFICES ASSUME NEW j \in Jobs
                 PROVE (IF \E q \in Sending : q[1] = j
                        THEN Record(CHOOSE q \in Sending : q[1] = j, "callback_uncertain")
                        ELSE journal[j]) \in Records \cup {None}
      BY DEF Stop
    <2>1. CASE \E q \in Sending : q[1] = j
      BY <1>2, <2>1
    <2>2. CASE ~\E q \in Sending : q[1] = j
      BY <2>2 DEF IInv, TypeOK
    <2> QED
      BY <2>1, <2>2
  <1>4. \A j \in Jobs : journal[j] # None => journal'[j] # None
    <2> SUFFICES ASSUME NEW j \in Jobs, journal[j] # None
                 PROVE  journal'[j] # None
      OBVIOUS
    <2>1. CASE \E q \in Sending : q[1] = j
      BY <1>2, <2>1, NoRecordAssumption DEF Stop
    <2>2. CASE ~\E q \in Sending : q[1] = j
      BY <2>2 DEF Stop
    <2> QED
      BY <2>1, <2>2
  <1>5. archive' = archive /\ Forget /\ archive' \in [Jobs -> Records \cup {None}]
    BY DEF Stop, IInv, TypeOK
  <1> QED
    BY <1>3, <1>4, <1>5, EndInv DEF Stop

LEMMA CrashInv ==
  ASSUME IInv, Crash \/ CrashInArchive
  PROVE  IInv'
  <1>1. CASE Crash
    <2>1. /\ journal' = journal /\ archive' = archive
          /\ journal' \in [Jobs -> Records \cup {None}]
          /\ archive' \in [Jobs -> Records \cup {None}]
      BY <1>1 DEF Crash, disk, IInv, TypeOK
    <2> QED
      BY <1>1, <2>1, EndInv DEF Crash
  <1>2. CASE CrashInArchive
    <2>1. PICK j \in DueJobs : archive' = [archive EXCEPT ![j] = history[j]]
      BY <1>2 DEF CrashInArchive
    <2>2. j \in Jobs /\ history[j] # None /\ history[j] \in Records \cup {None}
      BY DEF DueJobs, Due, StateIn, Terminal, IInv, TypeOK
    <2>3. /\ journal' = journal /\ journal' \in [Jobs -> Records \cup {None}]
          /\ archive' \in [Jobs -> Records \cup {None}]
          /\ \A k \in Jobs : archive[k] # None => archive'[k] # None
      BY <1>2, <2>1, <2>2 DEF CrashInArchive, IInv, TypeOK
    <2> QED
      BY <1>2, <2>3, EndInv DEF CrashInArchive
  <1> QED
    BY <1>1, <1>2

LEMMA BootInv ==
  ASSUME IInv, Boot
  PROVE  IInv'
  <1> DEFINE due == {j \in old : StateIn(journal, j) \in Terminal}
  <1>1. \A j \in due : journal[j] # None
    BY DEF StateIn, Terminal
  <1>2. /\ archive' = [j \in Jobs |-> IF j \in due THEN journal[j] ELSE archive[j]]
        /\ journal' = [j \in Jobs |-> IF j \in due THEN None ELSE journal[j]]
        /\ history' = [j \in Jobs |-> IF j \in due THEN None ELSE journal[j]]
        /\ old' = old \ due /\ proc' = "running"
        /\ UNCHANGED <<mode, permit, reserved, pend, queue, lane, cons, inflight, leased,
                       maintenance, attempt, faults, calls, inputs, undecided, callbacks>>
    BY DEF Boot, guards, ghosts
  <1> HIDE DEF due
  <1>3. TypeOK'
    BY <1>2 DEF IInv, TypeOK
  <1>4. \A j \in Jobs : Guarded(j) => Guarded(j)'
    BY <1>1, <1>2 DEF Guarded
  <1> QED
    BY <1>2, <1>3, <1>4, SameQueue, OthersKeep

LEMMA EnvironmentInv ==
  ASSUME IInv,
         \/ Drain \/ Maintain
         \/ \E j \in Jobs : Age(j) \/ ExpireReservation(j)
  PROVE  IInv'
  <1>1. CASE Drain
    <2>1. TypeOK'
      BY <1>1 DEF Drain, disk, guards, memory, ghosts, IInv, TypeOK
    <2> QED
      BY <1>1, <2>1, SameQueue, OthersKeep DEF Drain, memory, ghosts
  <1>2. CASE Maintain
    <2>1. TypeOK'
      BY <1>2 DEF Maintain, disk, guards, memory, ghosts, IInv, TypeOK
    <2>2. LeaseInv'
      BY <1>2 DEF Maintain, memory, IInv, LeaseInv
    <2> QED
      BY <1>2, <2>1, <2>2, SameQueue, OthersKeep DEF Maintain, memory, ghosts
  <1>3. ASSUME NEW j \in Jobs, Age(j) PROVE IInv'
    <2>1. TypeOK'
      BY <1>3 DEF Age, disk, guards, memory, ghosts, IInv, TypeOK
    <2> QED
      BY <1>3, <2>1, SameQueue, OthersKeep DEF Age, memory, ghosts
  <1>4. ASSUME NEW j \in Jobs, ExpireReservation(j) PROVE IInv'
    <2>1. TypeOK'
      BY <1>4 DEF ExpireReservation, disk, memory, ghosts, IInv, TypeOK
    <2> QED
      BY <1>4, <2>1, SameQueue, OthersKeep DEF ExpireReservation, memory, ghosts
  <1> QED
    BY <1>1, <1>2, <1>3, <1>4

-------------------------------------------------------------------------------
(* The theorems.                                                               *)
LEMMA InitInv == Init => IInv
  <1> SUFFICES ASSUME Init PROVE IInv
    OBVIOUS
  <1>1. TypeOK
    <2>1. cons \in [Consumers -> [pc : Phases, job : Requests \cup {None}, err : BOOLEAN]]
      BY DEF Init, Idle, Phases
    <2>2. /\ journal \in [Jobs -> Records \cup {None}]
          /\ archive \in [Jobs -> Records \cup {None}]
          /\ history \in [Jobs -> Records \cup {None}]
          /\ pend \in [Jobs -> Fps \cup {None}]
      BY DEF Init, NoJobs
    <2>3. /\ attempt \in [Jobs -> Nat] /\ calls \in [Jobs -> Nat]
          /\ callbacks \in [Jobs -> Nat] /\ inputs \in [Jobs -> SUBSET Fps]
      BY DEF Init
    <2>4. queue \in Seq(Requests) /\ lane \in Seq(Requests)
      BY DEF Init
    <2> QED
      BY <2>1, <2>2, <2>3, <2>4 DEF Init, TypeOK
  <1>2. BusyHasJob /\ WitnessFirst
    BY DEF Init, BusyHasJob, WitnessFirst, Idle, Busy
  <1>3. ExecutedHasGuard /\ LeaseInv /\ WaitingWithinQueue
    BY BoundsAssumption DEF Init, ExecutedHasGuard, LeaseInv, WaitingWithinQueue, NoJobs
  <1> QED
    BY <1>1, <1>2, <1>3 DEF IInv

LEMMA StepInv == IInv /\ [Next]_vars => IInv'
  <1> SUFFICES ASSUME IInv, [Next]_vars PROVE IInv'
    OBVIOUS
  <1>1. ASSUME NEW j \in Jobs, NEW fp \in Fps, Request(j, fp) PROVE IInv'
    BY <1>1, RequestInv
  <1>2. ASSUME NEW q \in inflight,
               Dismiss(q) \/ Admit(q) \/ AdmitRefused(q) \/ AdmitWedged(q)
        PROVE  IInv'
    BY <1>2, DismissInv, AdmitInv, AdmitRefusedInv
  <1>3. ASSUME NEW c \in Consumers, Work(c) PROVE IInv'
    BY <1>3, WorkInv
  <1>4. CASE Boot \/ Stop \/ Crash \/ CrashInArchive
    BY <1>4, BootInv, StopInv, CrashInv
  <1>5. CASE Drain \/ Maintain \/ \E j \in Jobs : Age(j) \/ ExpireReservation(j)
    BY <1>5, EnvironmentInv
  <1>6. CASE UNCHANGED vars
    <2>1. TypeOK'
      BY <1>6 DEF vars, disk, guards, memory, ghosts, IInv, TypeOK
    <2> QED
      BY <1>6, <2>1, SameQueue, OthersKeep DEF vars, memory, ghosts
  <1> QED
    BY <1>1, <1>2, <1>3, <1>4, <1>5, <1>6 DEF Next

\* The strengthening is invariant.
THEOREM Invariance == Spec => []IInv
  BY InitInv, StepInv, PTL DEF Spec

\* Every record the worker writes is one that a restart accepts, in every policy
\* and after every lost write.
THEOREM TypeCorrect == Spec => []TypeOK
  BY Invariance, PTL DEF IInv

\* A job that reached the model has left a record: no crash, lost write, rollover
\* or shutdown makes it unknown to the next process.
THEOREM ExecutedHasGuardHolds == Spec => []ExecutedHasGuard
  BY Invariance, PTL DEF IInv

\* Waiting captions and queued jobs together stay within max_queue.
THEOREM WaitingWithinQueueHolds == Spec => []WaitingWithinQueue
  BY Invariance, PTL DEF IInv

\* No maintenance writer owns the fence while a job is accepted.
THEOREM MaintenanceExcludesWorkHolds == Spec => []MaintenanceExcludesWork
  <1>1. IInv => MaintenanceExcludesWork
    BY DEF IInv, LeaseInv, MaintenanceExcludesWork, Known
  <1> QED
    BY <1>1, Invariance, PTL
-------------------------------------------------------------------------------
(* Where a job is.                                                             *)
JobsIn(s) == {s[i][1] : i \in 1..Len(s)}
Distinct(s) == \A i, k \in 1..Len(s) : s[i][1] = s[k][1] => i = k
Owned(s) == \A i \in 1..Len(s) : pend[s[i][1]] = s[i][2]
Queued == JobsIn(queue) \cup JobsIn(lane)
BusyNow == {c \in Consumers : cons[c].pc \in Busy}

\* A pending job is in one place only, with the input it was accepted for.
Placed ==
    /\ Distinct(queue) /\ Distinct(lane) /\ JobsIn(queue) \cap JobsIn(lane) = {}
    /\ Owned(queue) /\ Owned(lane)
    /\ \A c \in BusyNow :
          /\ pend[JobOf(c)] = cons[c].job[2]
          /\ JobOf(c) \notin Queued
          /\ \A d \in BusyNow : JobOf(d) = JobOf(c) => d = c

Up == proc # "down"
DownInv ==
    ~Up => /\ history = NoJobs /\ pend = NoJobs
           /\ queue = <<>> /\ lane = <<>>
           /\ BusyNow = {}

\* How far a job's run is; one that waits has as little behind it as one that
\* starts.
Stage == [j \in Jobs |->
    {cons[c].pc : c \in {d \in BusyNow : JobOf(d) = j}}
        \cup (IF j \in Queued THEN {"starting"} ELSE {})]
Ahead(j) == "starting" \in Stage[j] \/ "executing" \in Stage[j]

(* What the records of a job say of it.                                        *)
Agrees(r, fp) == r # None => r.fp = fp

\* Journal, memory and tombstone hold one input once a request for it ran.
SameInput(j) ==
    /\ archive[j] # None =>
          /\ Agrees(history[j], archive[j].fp)
          /\ Agrees(journal[j], archive[j].fp)
    /\ pend[j] # None =>
          /\ Agrees(history[j], pend[j])
          /\ Agrees(archive[j], pend[j])
    /\ \A fp \in inputs[j] :
          /\ Agrees(journal[j], fp)
          /\ Agrees(history[j], fp)
          /\ Agrees(archive[j], fp)
          /\ pend[j] \in {None, fp}
          /\ \A other \in inputs[j] : other = fp

\* A running process knows each job that reached the model.
Remembered(j) ==
    /\ inputs[j] # {} => calls[j] > 0
    /\ calls[j] > 0 /\ Up => Previous(j) # None

\* A durable record, as the process believes.
Agreed(j, state) == journal[j] = history[j] /\ StateIn(history, j) = state

\* The record and the callbacks behind each stage of a run.
StageInv(j) == \A s \in Stage[j] :
    /\ s = "starting" => StateIn(history, j) \in {"absent", "failed"}
    /\ s \in {"executing", "inferred"} => Agreed(j, "execution_started")
    /\ s \in {"sending", "posted"} => Agreed(j, "callback_sending") /\ CALLBACKS
    /\ s = "failing" =>
          /\ StateIn(history, j) # "completed"
          /\ StateIn(history, j) \in {"callback_sending", "callback_uncertain"}
                \/ callbacks[j] = 0
    /\ s \in {"starting", "executing", "inferred", "sending"} => callbacks[j] = 0
    /\ s = "posted" => callbacks[j] = 1

\* No admission and no restart takes a job without an outcome for a new one.
UndecidedInv(j) ==
    j \in undecided =>
        /\ ~Ahead(j)
        /\ StateIn(journal, j) \in Unsafe
        /\ Up => StateIn(history, j) \in Unsafe

\* A callback that may have been sent shows on disk and in memory, or the
\* tombstone of the job tells.
Sent == {"callback_sending", "callback_uncertain", "completed"}
Shows(record, tombstone) ==
    IF record # None THEN record.state \in Sent
    ELSE tombstone # None /\ tombstone.state \in Sent
SentInv(j) ==
    callbacks[j] > 0 =>
        /\ callbacks[j] = 1
        /\ Shows(journal[j], archive[j])
        /\ Up => Shows(history[j], archive[j])

DeliveredInv(j) ==
    CALLBACKS /\ "completed" \in {StateIn(journal, j), StateIn(history, j), StateIn(archive, j)}
        => callbacks[j] = 1

\* A job that runs only once keeps the record it ends with.
OnceInv(j) ==
    Continuous /\ ~DeepRetryable(j) =>
        /\ StateIn(history, j) \in Terminal => journal[j] = history[j] /\ pend[j] = None
        /\ archive[j] # None => /\ pend[j] = None
                                /\ journal[j] \in {None, archive[j]}
                                /\ history[j] \in {None, archive[j]}

OneUse(j) == mode = "one_use" /\ ~Local(j)
BoughtOnce(j) == OneUse(j) \/ (Continuous /\ ~DeepRetryable(j))
PaidInv(j) ==
    /\ BoughtOnce(j) => calls[j] <= 1 /\ (Ahead(j) => calls[j] = 0)
    /\ OneUse(j) /\ (calls[j] > 0 \/ Ahead(j)) => permit = j

\* Only a failed write takes journal and memory apart.
FaultInv(j) == faults = 0 /\ Up => journal[j] = history[j]

JobInv(j) ==
    /\ SameInput(j) /\ Remembered(j) /\ StageInv(j) /\ UndecidedInv(j) /\ SentInv(j)
    /\ DeliveredInv(j) /\ OnceInv(j) /\ PaidInv(j) /\ FaultInv(j)

Identity == Placed /\ DownInv /\ \A j \in Jobs : JobInv(j)

-------------------------------------------------------------------------------
(* Lemmas about sequences of requests.                                         *)
LEMMA AppendJobs ==
  ASSUME NEW s \in Seq(Requests), NEW q \in Requests
  PROVE  /\ JobsIn(Append(s, q)) = JobsIn(s) \cup {q[1]}
         /\ Distinct(s) /\ q[1] \notin JobsIn(s) => Distinct(Append(s, q))
         /\ Owned(s) /\ pend[q[1]] = q[2] => Owned(Append(s, q))
  <1> DEFINE t == Append(s, q)
  <1>1. /\ t \in Seq(Requests) /\ Len(t) = Len(s) + 1 /\ Len(s) \in Nat
        /\ t[Len(t)] = q /\ \A i \in 1..Len(s) : t[i] = s[i]
    OBVIOUS
  <1> HIDE DEF t
  <1>2. \A i \in 1..Len(t) : i = Len(t) \/ i \in 1..Len(s)
    BY <1>1
  <1>3. 1..Len(s) \subseteq 1..Len(t) /\ Len(t) \in 1..Len(t)
    BY <1>1
  <1>4. JobsIn(t) = JobsIn(s) \cup {q[1]}
    BY <1>1, <1>2, <1>3 DEF JobsIn
  <1>5. Distinct(s) /\ q[1] \notin JobsIn(s) => Distinct(t)
    BY <1>1, <1>2 DEF Distinct, JobsIn
  <1>6. Owned(s) /\ pend[q[1]] = q[2] => Owned(t)
    BY <1>1, <1>2 DEF Owned
  <1> QED
    BY <1>4, <1>5, <1>6 DEF t

LEMMA RemoveJobs ==
  ASSUME NEW s \in Seq(Requests), NEW i \in 1..Len(s), Distinct(s)
  PROVE  /\ JobsIn(RemoveAt(s, i)) = JobsIn(s) \ {s[i][1]}
         /\ Distinct(RemoveAt(s, i))
         /\ Owned(s) => Owned(RemoveAt(s, i))
  <1> DEFINE t == RemoveAt(s, i)
             a == SubSeq(s, 1, i - 1)
             b == SubSeq(s, i + 1, Len(s))
             from(k) == IF k < i THEN k ELSE k + 1
  <1>1. Len(s) \in Nat /\ i \in Nat /\ 1 <= i /\ i <= Len(s)
    OBVIOUS
  <1>2. a \in Seq(Requests) /\ Len(a) = i - 1 /\ \A k \in 1..(i - 1) : a[k] = s[k]
    <2>1. \A k \in 1..(i - 1) : s[k] \in Requests
      OBVIOUS
    <2> QED
      BY <2>1, <1>1, SubSeqProperties
  <1>3. b \in Seq(Requests) /\ Len(b) = Len(s) - i
        /\ \A k \in 1..(Len(s) - i) : b[k] = s[i + k]
    <2>1. \A k \in (i + 1)..Len(s) : s[k] \in Requests
      OBVIOUS
    <2> QED
      BY <2>1, <1>1, SubSeqProperties
  <1>4. t = a \o b
    BY DEF RemoveAt
  <1> HIDE DEF t, a, b
  <1>5. Len(t) = Len(s) - 1 /\ \A k \in 1..Len(t) : t[k] = s[from(k)]
    <2>1. /\ Len(a \o b) = Len(a) + Len(b)
          /\ \A k \in 1..(Len(a) + Len(b)) :
                (a \o b)[k] = IF k <= Len(a) THEN a[k] ELSE b[k - Len(a)]
      BY <1>2, <1>3, ConcatProperties
    <2>4. Len(t) = Len(a) + Len(b)
      BY <2>1, <1>4, Zenon
    <2>2. Len(t) = Len(s) - 1
      BY <2>4, <1>1, <1>2, <1>3
    <2>3. ASSUME NEW k \in 1..Len(t) PROVE t[k] = s[from(k)]
      <3>1. k \in 1..(Len(a) + Len(b))
        BY <2>2, <1>1, <1>2, <1>3
      <3>2. CASE k < i
        <4>1. k <= Len(a) /\ k \in 1..(i - 1)
          BY <3>1, <3>2, <1>1, <1>2
        <4> QED
          BY <2>1, <3>1, <3>2, <4>1, <1>2, <1>4
      <3>3. CASE ~(k < i)
        <4>1. /\ ~(k <= Len(a)) /\ k - Len(a) \in 1..(Len(s) - i)
              /\ i + (k - Len(a)) = k + 1
          BY <2>2, <3>1, <3>3, <1>1, <1>2
        <4>2. b[k - Len(a)] = s[k + 1]
          BY <4>1, <1>3
        <4> QED
          BY <2>1, <3>1, <3>3, <4>1, <4>2, <1>4
      <3> QED
        BY <3>2, <3>3
    <2> QED
      BY <2>2, <2>3
  <1>6. \A k \in 1..Len(t) : from(k) \in 1..Len(s) /\ from(k) # i
    BY <1>1, <1>5
  <1>7. \A k \in 1..Len(s) : k # i => \E m \in 1..Len(t) : from(m) = k
    <2> SUFFICES ASSUME NEW k \in 1..Len(s), k # i
                 PROVE  \E m \in 1..Len(t) : from(m) = k
      OBVIOUS
    <2>1. CASE k < i
      BY <2>1, <1>1, <1>5
    <2>2. CASE ~(k < i)
      <3>1. k - 1 \in 1..Len(t) /\ from(k - 1) = k
        BY <2>2, <1>1, <1>5
      <3> QED
        BY <3>1
    <2> QED
      BY <2>1, <2>2
  <1>8. \A k, m \in 1..Len(t) : from(k) = from(m) => k = m
    BY <1>1, <1>5
  <1> HIDE DEF from
  <1>9. JobsIn(t) = JobsIn(s) \ {s[i][1]}
    <2>1. ASSUME NEW j \in JobsIn(t) PROVE j \in JobsIn(s) /\ j # s[i][1]
      <3>1. PICK k \in 1..Len(t) : j = t[k][1]
        BY <2>1 DEF JobsIn
      <3>2. from(k) \in 1..Len(s) /\ from(k) # i /\ j = s[from(k)][1]
        BY <3>1, <1>5, <1>6
      <3> QED
        BY <3>2 DEF JobsIn, Distinct
    <2>2. ASSUME NEW j \in JobsIn(s), j # s[i][1] PROVE j \in JobsIn(t)
      <3>1. PICK k \in 1..Len(s) : j = s[k][1]
        BY <2>2 DEF JobsIn
      <3>2. PICK m \in 1..Len(t) : from(m) = k
        BY <2>2, <3>1, <1>7
      <3> QED
        BY <3>1, <3>2, <1>5 DEF JobsIn
    <2> QED
      BY <2>1, <2>2
  <1>10. Distinct(t)
    BY <1>5, <1>6, <1>8 DEF Distinct
  <1>11. Owned(s) => Owned(t)
    BY <1>5, <1>6 DEF Owned
  <1> QED
    BY <1>9, <1>10, <1>11 DEF t

LEMMA HeadJobs ==
  ASSUME NEW s \in Seq(Requests), s # <<>>, Distinct(s)
  PROVE  /\ JobsIn(Tail(s)) = JobsIn(s) \ {Head(s)[1]}
         /\ Head(s)[1] \in JobsIn(s)
         /\ Distinct(Tail(s))
         /\ Owned(s) => Owned(Tail(s)) /\ pend[Head(s)[1]] = Head(s)[2]
  <1> DEFINE t == Tail(s)
  <1>1. /\ Len(s) \in Nat /\ Len(s) >= 1 /\ Len(t) = Len(s) - 1 /\ Head(s) = s[1]
        /\ \A k \in 1..Len(t) : t[k] = s[k + 1]
    OBVIOUS
  <1> HIDE DEF t
  <1>2. \A k \in 1..Len(t) : k + 1 \in 1..Len(s) /\ k + 1 # 1
    BY <1>1
  <1>3. \A k \in 1..Len(s) : k # 1 => k - 1 \in 1..Len(t) /\ t[k - 1] = s[k]
    <2> SUFFICES ASSUME NEW k \in 1..Len(s), k # 1
                 PROVE  k - 1 \in 1..Len(t) /\ t[k - 1] = s[k]
      OBVIOUS
    <2>1. k - 1 \in 1..Len(t) /\ (k - 1) + 1 = k
      BY <1>1
    <2> QED
      BY <2>1, <1>1
  <1>4. 1 \in 1..Len(s)
    BY <1>1
  <1>5. JobsIn(t) = JobsIn(s) \ {s[1][1]}
    <2>1. ASSUME NEW j \in JobsIn(t) PROVE j \in JobsIn(s) /\ j # s[1][1]
      <3>1. PICK k \in 1..Len(t) : j = t[k][1]
        BY <2>1 DEF JobsIn
      <3> QED
        BY <3>1, <1>1, <1>2, <1>4 DEF JobsIn, Distinct
    <2>2. ASSUME NEW j \in JobsIn(s), j # s[1][1] PROVE j \in JobsIn(t)
      <3>1. PICK k \in 1..Len(s) : j = s[k][1]
        BY <2>2 DEF JobsIn
      <3> QED
        BY <2>2, <3>1, <1>3 DEF JobsIn
    <2> QED
      BY <2>1, <2>2
  <1>6. Distinct(t)
    BY <1>1, <1>2 DEF Distinct
  <1>7. Owned(s) => Owned(t) /\ pend[s[1][1]] = s[1][2]
    BY <1>1, <1>2, <1>4 DEF Owned
  <1> QED
    BY <1>1, <1>4, <1>5, <1>6, <1>7 DEF t, JobsIn

-------------------------------------------------------------------------------
(* What a step does to one job, and to the others.                             *)

\* Nothing about job k changes, except that its run may have left a stage.
SameJob(k) ==
    /\ journal'[k] = journal[k] /\ history'[k] = history[k] /\ archive'[k] = archive[k]
    /\ pend'[k] = pend[k] /\ calls'[k] = calls[k] /\ inputs'[k] = inputs[k]
    /\ callbacks'[k] = callbacks[k] /\ (k \in undecided' <=> k \in undecided)

LEMMA Elsewhere ==
  ASSUME NEW k \in Jobs, JobInv(k), SameJob(k), Stage'[k] \subseteq Stage[k],
         mode' = mode, Up' => Up, faults' = 0 => faults = 0,
         permit' = permit \/ permit = None
  PROVE  JobInv(k)'
  <1> USE DEF JobInv, SameJob
  <1>1. SameInput(k)'
    BY DEF SameInput, Agrees
  <1>2. Remembered(k)'
    BY DEF Remembered, Previous
  <1>3. StageInv(k)'
    BY DEF StageInv, StateIn, Agreed
  <1>4. UndecidedInv(k)'
    BY DEF UndecidedInv, StateIn, Ahead
  <1>5. SentInv(k)'
    BY DEF SentInv, Shows
  <1>6. DeliveredInv(k)'
    BY DEF DeliveredInv, StateIn
  <1>7. OnceInv(k)'
    BY DEF OnceInv, StateIn, Continuous
  <1>8. PaidInv(k)'
    <2>1. k # None
      BY NoneAssumption
    <2>2. (Ahead(k)' => Ahead(k)) /\ (OneUse(k)' <=> OneUse(k)) /\ (BoughtOnce(k)' <=> BoughtOnce(k))
      BY DEF Ahead, OneUse, BoughtOnce, Continuous
    <2>3. calls'[k] = calls[k]
      OBVIOUS
    <2> QED
      BY <2>1, <2>2, <2>3 DEF PaidInv
  <1>9. FaultInv(k)'
    BY DEF FaultInv
  <1> QED
    BY <1>1, <1>2, <1>3, <1>4, <1>5, <1>6, <1>7, <1>8, <1>9

LEMMA BusyFacts ==
  ASSUME IInv, Identity, NEW c \in Consumers, cons[c].pc \in Busy
  PROVE  /\ c \in BusyNow /\ Up /\ cons[c].job \in Requests
         /\ JobOf(c) = cons[c].job[1] /\ JobOf(c) \in Jobs /\ JobInv(JobOf(c))
         /\ pend[JobOf(c)] = cons[c].job[2] /\ pend[JobOf(c)] \in Fps /\ pend[JobOf(c)] # None
         /\ Stage[JobOf(c)] = {cons[c].pc}
         /\ cons[c] \in ConsRecord
  <1>1. c \in BusyNow /\ cons[c].job \in Requests /\ JobOf(c) = cons[c].job[1]
    BY DEF BusyNow, IInv, BusyHasJob, JobOf
  <1>2. Up
    BY <1>1 DEF Identity, DownInv
  <1>3. JobOf(c) \in Jobs /\ cons[c].job[2] \in Fps
    BY <1>1 DEF Requests
  <1>4. /\ pend[JobOf(c)] = cons[c].job[2] /\ JobOf(c) \notin Queued
        /\ \A d \in BusyNow : JobOf(d) = JobOf(c) => d = c
    BY <1>1 DEF Identity, Placed
  <1>5. {d \in BusyNow : JobOf(d) = JobOf(c)} = {c}
    BY <1>1, <1>4
  <1>6. Stage[JobOf(c)] = {cons[c].pc}
    BY <1>3, <1>4, <1>5 DEF Stage
  <1>7. cons[c] \in ConsRecord
    BY DEF IInv, TypeOK, ConsRecord
  <1> QED
    BY <1>1, <1>2, <1>3, <1>4, <1>6, <1>7, NoneAssumption DEF Identity

\* Busy consumer c goes on to x, or ends its job.
MovesTo(c, x) ==
    /\ x \in ConsRecord /\ cons' = [cons EXCEPT ![c] = x]
    /\ x.pc \in Busy => x.job = cons[c].job /\ pend' = pend
    /\ x.pc \notin Busy => pend' = [pend EXCEPT ![JobOf(c)] = None]
    /\ UNCHANGED runVars

LEMMA Moves ==
  ASSUME IInv, Identity, NEW c \in Consumers, cons[c].pc \in Busy, NEW x, MovesTo(c, x)
  PROVE  /\ Placed' /\ DownInv'
         /\ \A k \in Jobs : k # JobOf(c) => Stage'[k] = Stage[k] /\ pend'[k] = pend[k]
         /\ Stage'[JobOf(c)] = IF x.pc \in Busy THEN {x.pc} ELSE {}
         /\ pend'[JobOf(c)] = IF x.pc \in Busy THEN pend[JobOf(c)] ELSE None
  <1> DEFINE j == JobOf(c)
  <1>1. c \in BusyNow /\ Up /\ j = cons[c].job[1] /\ j \in Jobs
    BY BusyFacts
  <1>2. /\ queue' = queue /\ lane' = lane /\ proc' = proc
        /\ queue \in Seq(Requests) /\ lane \in Seq(Requests)
    BY DEF MovesTo, runVars, IInv, TypeOK
  <1>3. \A d \in Consumers : cons'[d] = IF d = c THEN x ELSE cons[d]
    BY DEF MovesTo, IInv, TypeOK
  <1>4. \A k \in Jobs : k # j => pend'[k] = pend[k]
    BY DEF MovesTo, IInv, TypeOK
  <1>5. pend'[j] = IF x.pc \in Busy THEN pend[j] ELSE None
    BY <1>1 DEF MovesTo, IInv, TypeOK
  <1>6. /\ BusyNow' = IF x.pc \in Busy THEN BusyNow ELSE BusyNow \ {c}
        /\ Queued' = Queued
    BY <1>1, <1>2, <1>3 DEF BusyNow, Queued
  <1>7. \A d \in BusyNow' : cons'[d].job = cons[d].job /\ (d # c => cons'[d].pc = cons[d].pc)
    BY <1>1, <1>3, <1>6 DEF MovesTo, BusyNow
  <1>8. \A d \in BusyNow : JobOf(d) \in Jobs /\ (JobOf(d) = j => d = c) /\ d \in Consumers
    BY BusyFacts, <1>1 DEF BusyNow, Identity, Placed
  <1>9. j \notin Queued
    BY <1>1 DEF Identity, Placed
  <1>10. \A s \in {queue, lane} : Owned(s) => Owned(s)'
    <2> SUFFICES ASSUME NEW s \in {queue, lane}, Owned(s) PROVE \A i \in 1..Len(s) : pend'[s[i][1]] = s[i][2]
      BY <1>2 DEF Owned
    <2> QED
      <3> SUFFICES ASSUME NEW i \in 1..Len(s) PROVE pend'[s[i][1]] = s[i][2]
        OBVIOUS
      <3>1. s[i] \in Requests /\ s[i][1] \in Queued
        BY <1>2 DEF Queued, JobsIn
      <3>2. s[i][1] \in Jobs /\ s[i][1] # j
        BY <3>1, <1>9 DEF Requests
      <3> QED
        BY <3>2, <1>4 DEF Owned
  <1>11. \A d \in BusyNow' : JobOf(d)' = JobOf(d) /\ d \in BusyNow
    BY <1>6, <1>7 DEF JobOf
  <1>12. Placed'
    <2>1. (Distinct(queue) /\ Distinct(lane) /\ JobsIn(queue) \cap JobsIn(lane) = {})'
      BY <1>2 DEF Identity, Placed
    <2>2. Owned(queue)' /\ Owned(lane)'
      BY <1>2, <1>10 DEF Identity, Placed, Owned
    <2>3. ASSUME NEW d \in BusyNow'
          PROVE  /\ pend'[JobOf(d)'] = cons'[d].job[2] /\ JobOf(d)' \notin Queued'
                 /\ \A e \in BusyNow' : JobOf(e)' = JobOf(d)' => e = d
      <3>1. JobOf(d)' = JobOf(d) /\ d \in BusyNow /\ cons'[d].job = cons[d].job
        BY <1>7, <1>11
      <3>2. /\ pend[JobOf(d)] = cons[d].job[2] /\ JobOf(d) \notin Queued
            /\ \A e \in BusyNow : JobOf(e) = JobOf(d) => e = d
        BY <3>1 DEF Identity, Placed
      <3>3. pend'[JobOf(d)] = pend[JobOf(d)]
        <4>1. CASE d = c
          BY <4>1, <1>5, <1>6, <2>3
        <4>2. CASE d # c
          BY <4>2, <3>1, <1>4, <1>8
        <4> QED
          BY <4>1, <4>2
      <3> QED
        BY <3>1, <3>2, <3>3, <1>6, <1>11
    <2> QED
      BY <2>1, <2>2, <2>3 DEF Placed
  <1>13. DownInv'
    BY <1>1, <1>2 DEF DownInv, Up
  <1>14. \A k \in Jobs : k # j => Stage'[k] = Stage[k]
    <2> SUFFICES ASSUME NEW k \in Jobs, k # j PROVE Stage'[k] = Stage[k]
      OBVIOUS
    <2>1. {d \in BusyNow' : JobOf(d)' = k} = {d \in BusyNow : JobOf(d) = k}
      BY <1>6, <1>11
    <2>2. \A d \in {e \in BusyNow : JobOf(e) = k} : cons'[d].pc = cons[d].pc
      BY <2>1, <1>7
    <2>3. {cons'[d].pc : d \in {e \in BusyNow' : JobOf(e)' = k}}
            = {cons[d].pc : d \in {e \in BusyNow : JobOf(e) = k}}
      BY <2>1, <2>2
    <2> QED
      BY <2>3, <1>6 DEF Stage
  <1>15. Stage'[j] = IF x.pc \in Busy THEN {x.pc} ELSE {}
    <2>1. {d \in BusyNow' : JobOf(d)' = j} = IF x.pc \in Busy THEN {c} ELSE {}
      BY <1>1, <1>6, <1>8, <1>11
    <2>2. cons'[c].pc = x.pc
      BY <1>3
    <2>3. {cons'[d].pc : d \in {e \in BusyNow' : JobOf(e)' = j}}
            = IF x.pc \in Busy THEN {x.pc} ELSE {}
      BY <2>1, <2>2
    <2> QED
      BY <2>3, <1>1, <1>6, <1>9 DEF Stage
  <1> QED
    BY <1>4, <1>5, <1>12, <1>13, <1>14, <1>15

\* Only job j is touched by the step.
OnlyJob(j) ==
    /\ \A k \in Jobs : k # j =>
          /\ journal'[k] = journal[k] /\ history'[k] = history[k] /\ calls'[k] = calls[k]
          /\ inputs'[k] = inputs[k] /\ callbacks'[k] = callbacks[k]
          /\ (k \in undecided' <=> k \in undecided)
    /\ faults' = 0 => faults = 0

\* A step of a consumer keeps every job's record straight if it keeps its own's.
LEMMA MovesIdentity ==
  ASSUME IInv, Identity, NEW c \in Consumers, cons[c].pc \in Busy, NEW x, MovesTo(c, x),
         OnlyJob(JobOf(c)), NEW j \in Jobs, j = JobOf(c), JobInv(j)'
  PROVE  Identity'
  <1>1. /\ Placed' /\ DownInv'
        /\ \A k \in Jobs : k # j => Stage'[k] = Stage[k] /\ pend'[k] = pend[k]
    BY Moves
  <1>2. mode' = mode /\ archive' = archive /\ permit' = permit /\ (Up' => Up)
    BY DEF MovesTo, runVars, guards, Up
  <1>3. ASSUME NEW k \in Jobs PROVE JobInv(k)'
    <2>1. CASE k = j
      BY <2>1
    <2>2. CASE k # j
      <3>1. SameJob(k) /\ (faults' = 0 => faults = 0)
        BY <1>1, <1>2, <2>2 DEF SameJob, OnlyJob
      <3>2. Stage'[k] \subseteq Stage[k] /\ JobInv(k)
        BY <1>1, <2>2 DEF Identity
      <3> QED
        BY <1>2, <3>1, <3>2, Elsewhere
    <2> QED
      BY <2>1, <2>2
  <1> QED
    BY <1>1, <1>3 DEF Identity

LEMMA RecordedJob ==
  ASSUME TypeOK, NEW q \in Requests, NEW s \in States, Recorded(q, s)
  PROVE  /\ journal'[q[1]] = history'[q[1]] /\ journal'[q[1]] # None
         /\ journal'[q[1]].fp = q[2] /\ journal'[q[1]].state = s
         /\ \A k \in Jobs : k # q[1] => journal'[k] = journal[k] /\ history'[k] = history[k]
         /\ faults' = faults
  <1>1. q[1] \in Jobs
    BY DEF Requests
  <1>2. Record(q, s) # None /\ Record(q, s).fp = q[2] /\ Record(q, s).state = s
    BY RecordType DEF Record
  <1> QED
    BY <1>1, <1>2 DEF Recorded, TypeOK

LEMMA RaisedJob ==
  ASSUME TypeOK, NEW q \in Requests, NEW s \in States, RecordRaised(q, s)
  PROVE  /\ \/ journal'[q[1]] = journal[q[1]]
            \/ /\ journal'[q[1]] # None
               /\ journal'[q[1]].fp = q[2] /\ journal'[q[1]].state = s
         /\ \A k \in Jobs : k # q[1] => journal'[k] = journal[k]
         /\ history' = history /\ faults' # 0
  <1>1. q[1] \in Jobs
    BY DEF Requests
  <1>2. Record(q, s) # None /\ Record(q, s).fp = q[2] /\ Record(q, s).state = s
    BY RecordType DEF Record
  <1>3. journal' = journal \/ journal' = [journal EXCEPT ![q[1]] = Record(q, s)]
    BY DEF RecordRaised
  <1>4. history' = history /\ faults' # 0
    BY DEF RecordRaised, TypeOK
  <1> QED
    BY <1>1, <1>2, <1>3, <1>4 DEF TypeOK

\* The stages a durable record belongs to.
Legal(c, x, s) ==
    \/ s = "execution_started" /\ cons[c].pc = "starting" /\ x.pc = "executing"
    \/ s = "callback_sending" /\ x.pc = "sending" /\ CALLBACKS /\ callbacks[JobOf(c)] = 0
    \/ s = "callback_uncertain" /\ x.pc = "failing"
    \/ s = "completed" /\ x.pc \notin Busy /\ (CALLBACKS => callbacks[JobOf(c)] = 1)
    \/ s = "failed" /\ x.pc \notin Busy /\ callbacks[JobOf(c)] = 0

LEMMA RecordedIdentity ==
  ASSUME IInv, Identity, NEW c \in Consumers, cons[c].pc \in Busy, NEW x, MovesTo(c, x),
         NEW s \in States, Recorded(cons[c].job, s), Legal(c, x, s),
         Decided(c) \/ (s \in Unsafe /\ UNCHANGED ghosts)
  PROVE  Identity'
  <1>0. PICK j \in Jobs : j = JobOf(c)
    BY BusyFacts
  <1>1. /\ Up /\ cons[c].job \in Requests /\ j = cons[c].job[1] /\ j \in Jobs /\ JobInv(j)
        /\ pend[j] = cons[c].job[2] /\ pend[j] \in Fps /\ pend[j] # None
        /\ Stage[j] = {cons[c].pc}
    BY <1>0, BusyFacts
  <1>2. /\ journal'[j] = history'[j] /\ journal'[j] # None
        /\ journal'[j].fp = pend[j] /\ journal'[j].state = s
        /\ \A k \in Jobs : k # j => journal'[k] = journal[k] /\ history'[k] = history[k]
        /\ faults' = faults
    BY <1>1, RecordedJob DEF IInv
  <1>3. /\ Stage'[j] = IF x.pc \in Busy THEN {x.pc} ELSE {}
        /\ pend'[j] = IF x.pc \in Busy THEN pend[j] ELSE None
    BY <1>0, Moves
  <1>4. calls' = calls /\ inputs' = inputs /\ callbacks' = callbacks
    BY DEF Decided, ghosts
  <1>5. undecided' = IF s \in Terminal THEN undecided \ {j} ELSE undecided
    BY <1>0, <1>2 DEF Decided, ghosts, StateIn, Unsafe
  <1>6. archive' = archive /\ mode' = mode /\ permit' = permit /\ proc' = proc
    BY DEF MovesTo, runVars, guards
  <1>7. x.pc \in {"executing", "sending", "failing"} \/ x.pc \notin Busy
    BY DEF Legal
  <1>8. OnlyJob(j)
    BY <1>2, <1>4, <1>5 DEF OnlyJob
  <1>9. Legal(c, x, s) <=>
          \/ s = "execution_started" /\ cons[c].pc = "starting" /\ x.pc = "executing"
          \/ s = "callback_sending" /\ x.pc = "sending" /\ CALLBACKS /\ callbacks[j] = 0
          \/ s = "callback_uncertain" /\ x.pc = "failing"
          \/ s = "completed" /\ x.pc \notin Busy /\ (CALLBACKS => callbacks[j] = 1)
          \/ s = "failed" /\ x.pc \notin Busy /\ callbacks[j] = 0
    BY <1>0 DEF Legal
  <1>10. cons[c].pc = "starting" => Ahead(j) /\ callbacks[j] = 0
    BY <1>1 DEF Ahead, JobInv, StageInv
  <1>11. Ahead(j)' => s = "execution_started" /\ Ahead(j)
    BY <1>3, <1>9, <1>10 DEF Ahead, Busy
  <1> USE <1>1, <1>2, <1>3, <1>4, <1>6, <1>9
  <1>12. SameInput(j)'
    BY DEF JobInv, SameInput, Agrees
  <1>13. Remembered(j)'
    BY DEF JobInv, Remembered, Previous
  <1>14. StageInv(j)'
    BY <1>10 DEF JobInv, StageInv, Agreed, StateIn, Busy
  <1>15. UndecidedInv(j)'
    BY <1>5, <1>11 DEF JobInv, UndecidedInv, StateIn, Unsafe, Terminal
  <1>16. SentInv(j)'
    BY <1>10 DEF JobInv, SentInv, Shows, Sent
  <1>17. DeliveredInv(j)'
    BY DEF JobInv, DeliveredInv, StateIn
  <1>18. OnceInv(j)'
    BY DEF JobInv, OnceInv, StateIn, Terminal, Continuous, Busy
  <1>19. PaidInv(j)'
    BY <1>11 DEF JobInv, PaidInv, OneUse, BoughtOnce, Continuous
  <1>20. FaultInv(j)'
    BY DEF FaultInv
  <1>21. JobInv(j)'
    BY <1>12, <1>13, <1>14, <1>15, <1>16, <1>17, <1>18, <1>19, <1>20 DEF JobInv
  <1>22. OnlyJob(JobOf(c))
    BY <1>0, <1>8
  <1> QED
    BY <1>0, <1>21, <1>22, MovesIdentity

\* A record that may or may not be on disk.
LEMMA RaisedIdentity ==
  ASSUME IInv, Identity, NEW c \in Consumers, cons[c].pc \in Busy, NEW x, MovesTo(c, x),
         NEW s \in States, RecordRaised(cons[c].job, s),
         x.pc = "failing" \/ x.pc \notin Busy,
         x.pc = "failing" => StateIn(history, JobOf(c)) \in {"callback_sending", "callback_uncertain"}
                                \/ callbacks[JobOf(c)] = 0,
         s \notin Sent => callbacks[JobOf(c)] = 0,
         s = "completed" /\ CALLBACKS => callbacks[JobOf(c)] = 1,
         Decided(c) \/ (s \in Unsafe /\ UNCHANGED ghosts)
  PROVE  Identity'
  <1>0. PICK j \in Jobs : j = JobOf(c)
    BY BusyFacts
  <1>1. /\ Up /\ cons[c].job \in Requests /\ j = cons[c].job[1] /\ j \in Jobs /\ JobInv(j)
        /\ pend[j] = cons[c].job[2] /\ pend[j] \in Fps /\ pend[j] # None
        /\ Stage[j] = {cons[c].pc}
    BY <1>0, BusyFacts
  <1>2. /\ \/ journal'[j] = journal[j]
           \/ journal'[j] # None /\ journal'[j].fp = pend[j] /\ journal'[j].state = s
        /\ \A k \in Jobs : k # j => journal'[k] = journal[k]
        /\ history' = history /\ faults' # 0
    BY <1>1, RaisedJob DEF IInv
  <1>3. /\ Stage'[j] = IF x.pc \in Busy THEN {x.pc} ELSE {}
        /\ pend'[j] = IF x.pc \in Busy THEN pend[j] ELSE None
    BY <1>0, Moves
  <1>4. calls' = calls /\ inputs' = inputs /\ callbacks' = callbacks
    BY DEF Decided, ghosts
  <1>5. undecided' = IF StateIn(journal', j) \in Terminal /\ Decided(c)
                     THEN undecided \ {j} ELSE undecided
    BY <1>0 DEF Decided, ghosts
  <1>6. archive' = archive /\ mode' = mode /\ permit' = permit /\ proc' = proc
    BY DEF MovesTo, runVars, guards
  <1>8. OnlyJob(j)
    BY <1>2, <1>4, <1>5 DEF OnlyJob
  <1>7. cons[c].pc \in Busy
    OBVIOUS
  <1>9. /\ x.pc = "failing" \/ x.pc \notin Busy
        /\ x.pc = "failing" => StateIn(history, j) \in {"callback_sending", "callback_uncertain"}
                                  \/ callbacks[j] = 0
        /\ s \notin Sent => callbacks[j] = 0
        /\ s = "completed" /\ CALLBACKS => callbacks[j] = 1
    BY <1>0
  <1>10. Decided(c) \/ s \in Unsafe
    OBVIOUS
  <1>11. ~Ahead(j)'
    BY <1>3, <1>9 DEF Ahead, Busy
  <1> USE <1>1, <1>2, <1>3, <1>4, <1>6, <1>9
  <1>12. SameInput(j)'
    BY DEF JobInv, SameInput, Agrees
  <1>13. Remembered(j)'
    BY DEF JobInv, Remembered, Previous
  <1>14. StageInv(j)'
    BY <1>7 DEF JobInv, StageInv, Agreed, StateIn, Busy, Phases
  <1>15. UndecidedInv(j)'
    BY <1>5, <1>10, <1>11 DEF JobInv, UndecidedInv, StateIn, Unsafe, Terminal
  <1>16. SentInv(j)'
    BY DEF JobInv, SentInv, Shows, Sent
  <1>17. DeliveredInv(j)'
    BY DEF JobInv, DeliveredInv, StateIn
  <1>18. OnceInv(j)'
    BY DEF JobInv, OnceInv, StateIn, Terminal, Continuous, Busy
  <1>19. PaidInv(j)'
    BY <1>11 DEF JobInv, PaidInv, OneUse, BoughtOnce, Continuous
  <1>20. FaultInv(j)'
    BY DEF FaultInv
  <1>21. JobInv(j)'
    BY <1>12, <1>13, <1>14, <1>15, <1>16, <1>17, <1>18, <1>19, <1>20 DEF JobInv
  <1>22. OnlyJob(JobOf(c))
    BY <1>0, <1>8
  <1> QED
    BY <1>0, <1>21, <1>22, MovesIdentity

-------------------------------------------------------------------------------
(* The steps of a consumer with a job.                                         *)
LEMMA ToStep ==
  ASSUME IInv, Identity, NEW c \in Consumers, cons[c].pc \in Busy, NEW p \in Busy,
         To(c, p), UNCHANGED runVars, pend' = pend
  PROVE  \E x : MovesTo(c, x) /\ x.pc = p
  <1> DEFINE x == [cons[c] EXCEPT !.pc = p]
  <1>1. cons[c] \in ConsRecord /\ p \in Phases
    BY BusyFacts DEF Busy
  <1>2. x \in ConsRecord /\ x.pc = p /\ x.job = cons[c].job
    BY <1>1 DEF ConsRecord
  <1>3. cons' = [cons EXCEPT ![c] = x]
    BY DEF To, IInv, TypeOK
  <1> HIDE DEF x
  <1> QED
    BY <1>2, <1>3 DEF MovesTo

LEMMA FinishStep ==
  ASSUME IInv, NEW c \in Consumers, NEW p \in {"idle", "lane", "dead"},
         cons' = [cons EXCEPT ![c] = [Idle EXCEPT !.pc = p]],
         Ends(JobOf(c)), UNCHANGED runVars
  PROVE  \E x : MovesTo(c, x) /\ x.pc \notin Busy
  <1> DEFINE x == [Idle EXCEPT !.pc = p]
  <1>1. x \in ConsRecord /\ x.pc = p
    BY DEF ConsRecord, Idle, Phases
  <1>2. x.pc \notin Busy
    BY <1>1 DEF Busy
  <1> HIDE DEF x
  <1>3. cons' = [cons EXCEPT ![c] = x]
    BY DEF x
  <1> QED
    BY <1>1, <1>2, <1>3 DEF MovesTo, Ends

LEMMA StartIdentity ==
  ASSUME IInv, Identity, NEW c \in Consumers, Start(c)
  PROVE  Identity'
  <1>1. cons[c].pc = "starting" /\ cons[c].pc \in Busy /\ UNCHANGED runVars /\ pend' = pend
        /\ UNCHANGED ghosts
    BY DEF Start, Busy, Phases
  <1>2. callbacks[JobOf(c)] = 0
    BY <1>1, BusyFacts DEF JobInv, StageInv
  <1>3. "executing" \in Busy /\ "failing" \in Busy /\ "execution_started" \in States
        /\ "execution_started" \in Unsafe
    BY DEF Busy, Phases, States, Unsafe, Terminal
  <1>4. CASE Recorded(cons[c].job, "execution_started") /\ To(c, "executing")
    <2>1. PICK x : MovesTo(c, x) /\ x.pc = "executing"
      BY <1>1, <1>3, <1>4, ToStep
    <2>2. Legal(c, x, "execution_started")
      BY <1>1, <2>1 DEF Legal
    <2> QED
      BY <1>1, <1>3, <1>4, <2>1, <2>2, RecordedIdentity
  <1>5. CASE RecordRaised(cons[c].job, "execution_started") /\ To(c, "failing")
    <2>1. PICK x : MovesTo(c, x) /\ x.pc = "failing"
      BY <1>1, <1>3, <1>5, ToStep
    <2> QED
      BY <1>1, <1>2, <1>3, <1>5, <2>1, RaisedIdentity
  <1> QED
    BY <1>4, <1>5 DEF Start

LEMMA InferIdentity ==
  ASSUME IInv, Identity, NEW c \in Consumers, Infer(c)
  PROVE  Identity'
  <1>1. cons[c].pc = "executing" /\ cons[c].pc \in Busy /\ "inferred" \in Busy
    BY DEF Infer, Busy, Phases
  <1>2. PICK j \in Jobs : j = JobOf(c)
    BY <1>1, BusyFacts
  <1>3. PICK x : MovesTo(c, x) /\ x.pc = "inferred"
    BY <1>1, ToStep DEF Infer
  <1>4. /\ Up /\ JobInv(j) /\ pend[j] = cons[c].job[2] /\ pend[j] \in Fps /\ pend[j] # None
        /\ Stage[j] = {"executing"}
    BY <1>1, <1>2, BusyFacts
  <1>5. Stage'[j] = {"inferred"} /\ pend'[j] = pend[j]
    BY <1>1, <1>2, <1>3, Moves
  <1>6. /\ journal' = journal /\ history' = history /\ faults' = faults
        /\ callbacks' = callbacks /\ undecided' = undecided \cup {j}
        /\ calls'[j] = calls[j] + 1 /\ inputs'[j] = inputs[j] \cup {pend[j]}
        /\ \A k \in Jobs : k # j => calls'[k] = calls[k] /\ inputs'[k] = inputs[k]
    BY <1>2, <1>4 DEF Infer, IInv, TypeOK
  <1>7. archive' = archive /\ mode' = mode /\ permit' = permit /\ proc' = proc
    BY <1>3 DEF MovesTo, runVars, guards
  <1>8. calls[j] \in Nat
    BY DEF IInv, TypeOK
  <1>9. OnlyJob(j)
    BY <1>6 DEF OnlyJob
  <1>10. /\ journal[j] = history[j] /\ history[j] # None
         /\ history[j].state = "execution_started" /\ callbacks[j] = 0
    BY <1>4 DEF JobInv, StageInv, Agreed, StateIn
  <1>11. Ahead(j) /\ ~Ahead(j)'
    BY <1>4, <1>5 DEF Ahead
  <1> USE <1>4, <1>5, <1>6, <1>7, <1>8, <1>10
  <1>12. SameInput(j)'
    BY DEF JobInv, SameInput, Agrees
  <1>13. Remembered(j)'
    BY DEF Remembered, Previous
  <1>14. StageInv(j)'
    BY DEF StageInv, Agreed, StateIn
  <1>15. UndecidedInv(j)'
    BY <1>11 DEF UndecidedInv, StateIn, Unsafe, States, Terminal
  <1>16. SentInv(j)'
    BY DEF SentInv
  <1>17. DeliveredInv(j)'
    BY DEF JobInv, DeliveredInv, StateIn
  <1>18. OnceInv(j)'
    BY DEF JobInv, OnceInv, StateIn, Terminal, Continuous
  <1>19. PaidInv(j)'
    BY <1>11 DEF JobInv, PaidInv, OneUse, BoughtOnce, Continuous
  <1>20. FaultInv(j)'
    BY DEF FaultInv
  <1>21. JobInv(j)'
    BY <1>12, <1>13, <1>14, <1>15, <1>16, <1>17, <1>18, <1>19, <1>20 DEF JobInv
  <1> QED
    BY <1>1, <1>2, <1>3, <1>9, <1>21, MovesIdentity

\* A step that writes nothing and at most counts a callback.
LEMMA QuietIdentity ==
  ASSUME IInv, Identity, NEW c \in Consumers, cons[c].pc \in Busy, NEW x, MovesTo(c, x),
         NoWrite, calls' = calls, inputs' = inputs, undecided' = undecided,
         \/ /\ callbacks' = callbacks
            /\ x.pc \in Busy => /\ x.pc = "failing"
                                /\ cons[c].pc \in {"starting", "executing", "inferred"}
         \/ /\ callbacks' = [callbacks EXCEPT ![JobOf(c)] = @ + 1]
            /\ cons[c].pc = "sending" /\ x.pc = "posted"
  PROVE  Identity'
  <1>1. PICK j \in Jobs : j = JobOf(c)
    BY BusyFacts
  <1>2. /\ Up /\ JobInv(j) /\ pend[j] \in Fps /\ pend[j] # None
        /\ Stage[j] = {cons[c].pc} /\ cons[c].pc \in Busy
    BY <1>1, BusyFacts
  <1>3. /\ Stage'[j] = IF x.pc \in Busy THEN {x.pc} ELSE {}
        /\ pend'[j] = IF x.pc \in Busy THEN pend[j] ELSE None
    BY <1>1, Moves
  <1>4. /\ archive' = archive /\ mode' = mode /\ permit' = permit /\ proc' = proc
        /\ journal' = journal /\ history' = history /\ faults' = faults
        /\ calls' = calls /\ inputs' = inputs /\ undecided' = undecided
    BY DEF MovesTo, runVars, guards, NoWrite
  <1>5. /\ \/ /\ callbacks'[j] = callbacks[j]
              /\ x.pc \in Busy => /\ x.pc = "failing"
                                  /\ cons[c].pc \in {"starting", "executing", "inferred"}
           \/ /\ callbacks'[j] = callbacks[j] + 1 /\ callbacks[j] = 0
              /\ cons[c].pc = "sending" /\ x.pc = "posted"
        /\ \A k \in Jobs : k # j => callbacks'[k] = callbacks[k]
    BY <1>1, <1>2 DEF IInv, TypeOK, JobInv, StageInv
  <1>6. OnlyJob(j)
    BY <1>4, <1>5 DEF OnlyJob
  <1>7. ~Ahead(j)'
    BY <1>3, <1>5 DEF Ahead, Busy
  <1> USE <1>2, <1>3, <1>4, <1>5
  <1>12. SameInput(j)'
    BY DEF JobInv, SameInput, Agrees
  <1>13. Remembered(j)'
    BY DEF JobInv, Remembered, Previous
  <1>14. StageInv(j)'
    BY DEF JobInv, StageInv, Agreed, StateIn, Busy
  <1>15. UndecidedInv(j)'
    BY <1>7 DEF JobInv, UndecidedInv, StateIn, Unsafe, Terminal
  <1>16. SentInv(j)'
    BY DEF JobInv, SentInv, Shows, Sent, StageInv, Agreed, StateIn, Busy
  <1>17. DeliveredInv(j)'
    BY DEF JobInv, DeliveredInv, StateIn, StageInv, Agreed
  <1>18. OnceInv(j)'
    BY DEF JobInv, OnceInv, StateIn, Terminal, Continuous
  <1>19. PaidInv(j)'
    BY <1>7 DEF JobInv, PaidInv, OneUse, BoughtOnce, Continuous
  <1>20. FaultInv(j)'
    BY DEF JobInv, FaultInv
  <1>21. JobInv(j)'
    BY <1>12, <1>13, <1>14, <1>15, <1>16, <1>17, <1>18, <1>19, <1>20 DEF JobInv
  <1>22. OnlyJob(JobOf(c))
    BY <1>1, <1>6
  <1> QED
    BY <1>1, <1>21, <1>22, MovesIdentity

LEMMA FailIdentity ==
  ASSUME IInv, Identity, NEW c \in Consumers, Fail(c)
  PROVE  Identity'
  <1>1. cons[c].pc \in Busy /\ "failing" \in Busy /\ cons[c].pc \in {"starting", "executing", "inferred"}
    BY DEF Fail, Busy, Phases
  <1>2. PICK x : MovesTo(c, x) /\ x.pc = "failing"
    BY <1>1, ToStep DEF Fail
  <1>3. NoWrite /\ calls' = calls /\ inputs' = inputs /\ undecided' = undecided
        /\ callbacks' = callbacks
    BY DEF Fail, NoWrite, ghosts
  <1> QED
    BY <1>1, <1>2, <1>3, QuietIdentity

LEMMA PostIdentity ==
  ASSUME IInv, Identity, NEW c \in Consumers, Post(c)
  PROVE  Identity'
  <1>1. cons[c].pc \in Busy /\ "posted" \in Busy /\ cons[c].pc = "sending"
    BY DEF Post, Busy, Phases
  <1>2. PICK x : MovesTo(c, x) /\ x.pc = "posted"
    BY <1>1, ToStep DEF Post
  <1>3. NoWrite /\ calls' = calls /\ inputs' = inputs /\ undecided' = undecided
        /\ callbacks' = [callbacks EXCEPT ![JobOf(c)] = @ + 1]
    BY DEF Post, NoWrite
  <1> QED
    BY <1>1, <1>2, <1>3, QuietIdentity

\* The record "completed", with or without a callback before it.
LEMMA CompleteIdentity ==
  ASSUME IInv, Identity, NEW c \in Consumers, CompleteLocally(c) \/ PostAccepted(c)
  PROVE  Identity'
  <1>1. cons[c].pc \in Busy /\ "failing" \in Busy /\ Complete(c) /\ Decided(c) /\ UNCHANGED runVars
    BY DEF CompleteLocally, PostAccepted, Busy, Phases
  <1>2. CALLBACKS => callbacks[JobOf(c)] = 1
    BY <1>1, BusyFacts DEF CompleteLocally, PostAccepted, JobInv, StageInv
  <1>3. StateIn(history, JobOf(c)) = "callback_sending" \/ callbacks[JobOf(c)] = 0
    BY <1>1, BusyFacts DEF CompleteLocally, PostAccepted, JobInv, StageInv, Agreed
  <1>4. "completed" \in States /\ "completed" \in Sent
    BY DEF States, Sent
  <1>5. CASE Recorded(cons[c].job, "completed") /\ Finish(c)
    <2>1. PICK x : MovesTo(c, x) /\ x.pc \notin Busy
      BY <1>1, <1>5, FinishEnds, FinishStep
    <2>2. Legal(c, x, "completed")
      BY <1>2, <2>1 DEF Legal
    <2> QED
      BY <1>1, <1>4, <1>5, <2>1, <2>2, RecordedIdentity
  <1>6. CASE RecordRaised(cons[c].job, "completed") /\ To(c, "failing") /\ UNCHANGED <<pend, leased>>
    <2>1. PICK x : MovesTo(c, x) /\ x.pc = "failing"
      BY <1>1, <1>6, ToStep
    <2> QED
      BY <1>1, <1>2, <1>3, <1>4, <1>6, <2>1, RaisedIdentity
  <1> QED
    BY <1>1, <1>5, <1>6 DEF Complete

LEMMA BeginCallbackIdentity ==
  ASSUME IInv, Identity, NEW c \in Consumers, BeginCallback(c)
  PROVE  Identity'
  <1>1. cons[c].pc \in Busy /\ cons[c].pc = "inferred" /\ CALLBACKS /\ UNCHANGED runVars
        /\ pend' = pend /\ UNCHANGED ghosts
    BY DEF BeginCallback, Busy, Phases
  <1>2. callbacks[JobOf(c)] = 0
    BY <1>1, BusyFacts DEF JobInv, StageInv
  <1>3. "sending" \in Busy /\ "failing" \in Busy /\ "callback_sending" \in States
        /\ "callback_sending" \in Unsafe
    BY DEF Busy, Phases, States, Unsafe, Terminal
  <1>4. CASE Recorded(cons[c].job, "callback_sending") /\ To(c, "sending")
    <2>1. PICK x : MovesTo(c, x) /\ x.pc = "sending"
      BY <1>1, <1>3, <1>4, ToStep
    <2>2. Legal(c, x, "callback_sending")
      BY <1>1, <1>2, <2>1 DEF Legal
    <2> QED
      BY <1>1, <1>3, <1>4, <2>1, <2>2, RecordedIdentity
  <1>5. CASE RecordRaised(cons[c].job, "callback_sending") /\ To(c, "failing")
    <2>1. PICK x : MovesTo(c, x) /\ x.pc = "failing"
      BY <1>1, <1>3, <1>5, ToStep
    <2> QED
      BY <1>1, <1>2, <1>3, <1>5, <2>1, RaisedIdentity
  <1> QED
    BY <1>4, <1>5 DEF BeginCallback

LEMMA PostUncertainIdentity ==
  ASSUME IInv, Identity, NEW c \in Consumers, PostUncertain(c)
  PROVE  Identity'
  <1>1. cons[c].pc \in Busy /\ cons[c].pc \in {"sending", "posted"} /\ UNCHANGED runVars
        /\ pend' = pend /\ UNCHANGED ghosts
    BY DEF PostUncertain, Busy, Phases
  <1>2. "failing" \in Busy /\ "callback_uncertain" \in States /\ "callback_uncertain" \in Unsafe
        /\ "callback_uncertain" \in Sent
    BY DEF Busy, Phases, States, Unsafe, Terminal, Sent
  <1>3. StateIn(history, JobOf(c)) = "callback_sending"
    BY <1>1, BusyFacts DEF JobInv, StageInv, Agreed
  <1>4. PICK x : MovesTo(c, x) /\ x.pc = "failing"
    BY <1>1, <1>2, ToStep DEF PostUncertain
  <1>5. CASE Recorded(cons[c].job, "callback_uncertain")
    <2>1. Legal(c, x, "callback_uncertain")
      BY <1>4 DEF Legal
    <2> QED
      BY <1>1, <1>2, <1>4, <1>5, <2>1, RecordedIdentity
  <1>6. CASE RecordRaised(cons[c].job, "callback_uncertain")
    BY <1>1, <1>2, <1>3, <1>4, <1>6, RaisedIdentity
  <1> QED
    BY <1>5, <1>6 DEF PostUncertain

LEMMA HandlerIdentity ==
  ASSUME IInv, Identity, NEW c \in Consumers,
         HandleUnsafe(c) \/ HandleFailed(c) \/ HandleOnDemand(c)
  PROVE  Identity'
  <1>1. cons[c].pc = "failing" /\ cons[c].pc \in Busy /\ UNCHANGED runVars
    BY DEF HandleUnsafe, HandleFailed, HandleOnDemand, NothingSent, Busy, Phases
  <1>2. NothingSent(c) => callbacks[JobOf(c)] = 0
    BY <1>1, BusyFacts DEF JobInv, StageInv, NothingSent
  <1>3. "sending" \in Busy /\ "failing" \in Busy /\ "callback_sending" \in States
        /\ "callback_sending" \in Unsafe /\ "failed" \in States
    BY DEF Busy, Phases, States, Unsafe, Terminal
  <1>4. CASE HandleUnsafe(c)
    <2>1. Finish(c)
      BY <1>4 DEF HandleUnsafe
    <2>2. PICK x : MovesTo(c, x) /\ x.pc \notin Busy
      BY <1>1, <2>1, FinishEnds, FinishStep
    <2>3. NoWrite /\ calls' = calls /\ inputs' = inputs /\ undecided' = undecided
          /\ callbacks' = callbacks
      BY <1>4 DEF HandleUnsafe, NoWrite, ghosts
    <2> QED
      BY <1>1, <2>2, <2>3, QuietIdentity
  <1>5. CASE HandleFailed(c)
    <2>1. callbacks[JobOf(c)] = 0 /\ Decided(c)
      BY <1>2, <1>5 DEF HandleFailed
    <2>2. CASE Recorded(cons[c].job, "failed") /\ Finish(c)
      <3>1. PICK x : MovesTo(c, x) /\ x.pc \notin Busy
        BY <1>1, <2>2, FinishEnds, FinishStep
      <3>2. Legal(c, x, "failed")
        BY <2>1, <3>1 DEF Legal
      <3> QED
        BY <1>1, <1>3, <2>1, <2>2, <3>1, <3>2, RecordedIdentity
    <2>3. CASE /\ RecordRaised(cons[c].job, "failed")
               /\ pend' = [pend EXCEPT ![JobOf(c)] = None]
               /\ leased' = leased \ {JobOf(c)}
               /\ cons' = [cons EXCEPT ![c] = [Idle EXCEPT !.pc = "dead"]]
      <3>1. Ends(JobOf(c))
        BY <2>3 DEF Ends
      <3>2. PICK x : MovesTo(c, x) /\ x.pc \notin Busy
        BY <1>1, <2>3, <3>1, FinishStep
      <3>3. x.pc # "failing"
        BY <1>3, <3>2
      <3> QED
        BY <1>1, <1>3, <2>1, <2>3, <3>2, <3>3, RaisedIdentity
    <2> QED
      BY <1>5, <2>2, <2>3 DEF HandleFailed
  <1>6. CASE HandleOnDemand(c)
    <2>1. callbacks[JobOf(c)] = 0 /\ CALLBACKS /\ pend' = pend /\ UNCHANGED ghosts
      BY <1>2, <1>6 DEF HandleOnDemand
    <2>2. cons[c] \in ConsRecord
      BY <1>1, BusyFacts
    <2>3. CASE /\ Recorded(cons[c].job, "callback_sending")
               /\ cons' = [cons EXCEPT ![c].pc = "sending", ![c].err = TRUE]
      <3> DEFINE x == [cons[c] EXCEPT !.pc = "sending", !.err = TRUE]
      <3>1. x \in ConsRecord /\ x.pc = "sending" /\ x.job = cons[c].job
        BY <2>2 DEF ConsRecord, Phases
      <3>2. cons' = [cons EXCEPT ![c] = x]
        BY <2>3 DEF IInv, TypeOK
      <3> HIDE DEF x
      <3>3. MovesTo(c, x) /\ Legal(c, x, "callback_sending")
        BY <1>1, <1>3, <2>1, <3>1, <3>2 DEF MovesTo, Legal
      <3> QED
        BY <1>1, <1>3, <2>1, <2>3, <3>3, RecordedIdentity
    <2>4. CASE /\ RecordRaised(cons[c].job, "callback_sending")
               /\ cons' = [cons EXCEPT ![c].err = TRUE]
      <3> DEFINE x == [cons[c] EXCEPT !.err = TRUE]
      <3>1. x \in ConsRecord /\ x.pc = "failing" /\ x.job = cons[c].job
        BY <1>1, <2>2 DEF ConsRecord
      <3>2. cons' = [cons EXCEPT ![c] = x]
        BY <2>4 DEF IInv, TypeOK
      <3> HIDE DEF x
      <3>3. MovesTo(c, x)
        BY <1>1, <1>3, <2>1, <3>1, <3>2 DEF MovesTo
      <3> QED
        BY <1>1, <1>3, <2>1, <2>4, <3>1, <3>3, RaisedIdentity
    <2> QED
      BY <1>6, <2>3, <2>4 DEF HandleOnDemand
  <1> QED
    BY <1>4, <1>5, <1>6

-------------------------------------------------------------------------------
(* Jobs change places.                                                         *)

\* What no step but a write, an admission or a restart changes of any job.
SameRecords ==
    /\ journal' = journal /\ history' = history /\ archive' = archive /\ pend' = pend
    /\ calls' = calls /\ inputs' = inputs /\ callbacks' = callbacks
    /\ undecided' = undecided /\ mode' = mode /\ faults' = faults

\* The run of the jobs is where it was, whatever moved.
LEMMA SameStage ==
  ASSUME Identity, SameRecords, Placed', DownInv', Stage' = Stage, Up' => Up,
         permit' = permit \/ permit = None
  PROVE  Identity'
  <1> SUFFICES ASSUME NEW k \in Jobs PROVE JobInv(k)'
    BY DEF Identity
  <1>1. SameJob(k) /\ mode' = mode /\ (faults' = 0 => faults = 0)
    BY DEF SameRecords, SameJob
  <1>2. JobInv(k) /\ Stage'[k] \subseteq Stage[k]
    BY DEF Identity
  <1> QED
    BY <1>1, <1>2, Elsewhere

LEMMA SamePlaces ==
  ASSUME IInv, Identity, UNCHANGED <<queue, lane, cons, pend>>
  PROVE  Placed' /\ Stage' = Stage /\ BusyNow' = BusyNow
  <1>1. BusyNow' = BusyNow /\ Queued' = Queued
    BY DEF BusyNow, Queued
  <1>2. \A d \in Consumers : JobOf(d)' = JobOf(d)
    BY DEF JobOf
  <1>3. Stage' = Stage
    BY DEF Stage, BusyNow, Queued, JobOf
  <1>4. Placed'
    BY <1>1, <1>2 DEF Identity, Placed, Owned, BusyNow
  <1> QED
    BY <1>1, <1>3, <1>4

LEMMA QuietStep ==
  ASSUME IInv, Identity, SameRecords, UNCHANGED <<queue, lane, cons>>, Up' <=> Up,
         permit' = permit \/ permit = None
  PROVE  Identity'
  <1>1. Placed' /\ Stage' = Stage /\ BusyNow' = BusyNow
    BY SamePlaces DEF SameRecords
  <1>2. DownInv'
    BY <1>1 DEF Identity, DownInv, SameRecords
  <1> QED
    BY <1>1, <1>2, SameStage

\* A free consumer takes a waiting job.
LEMMA Picked ==
  ASSUME IInv, Identity, NEW c \in Consumers, cons[c].pc \notin Busy, NEW q \in Requests,
         q[1] \in Queued, pend[q[1]] = q[2], cons' = [cons EXCEPT ![c] = Running(q)],
         Queued' = Queued \ {q[1]}, pend' = pend
  PROVE  /\ Stage' = Stage /\ BusyNow' = BusyNow \cup {c}
         /\ \A d \in BusyNow' :
               /\ pend'[JobOf(d)'] = cons'[d].job[2] /\ JobOf(d)' \notin Queued'
               /\ \A e \in BusyNow' : JobOf(e)' = JobOf(d)' => e = d
  <1> DEFINE j == q[1]
  <1>1. \A d \in Consumers : cons'[d] = IF d = c THEN Running(q) ELSE cons[d]
    BY DEF IInv, TypeOK
  <1>2. Running(q).pc = "starting" /\ Running(q).job = q /\ "starting" \in Busy
    BY DEF Running, Busy, Phases
  <1>3. BusyNow' = BusyNow \cup {c} /\ c \notin BusyNow /\ c \in BusyNow'
    BY <1>1, <1>2 DEF BusyNow
  <1>4. JobOf(c)' = j /\ cons'[c].pc = "starting" /\ cons'[c].job = q
    BY <1>1, <1>2 DEF JobOf
  <1>5. \A d \in BusyNow : JobOf(d)' = JobOf(d) /\ cons'[d] = cons[d] /\ d # c
    BY <1>1, <1>3 DEF JobOf, BusyNow
  <1>6. \A d \in BusyNow : JobOf(d) # j /\ JobOf(d) \notin Queued
    BY DEF Identity, Placed
  <1>7. Stage' = Stage
    <2> SUFFICES ASSUME NEW k \in Jobs PROVE Stage'[k] = Stage[k]
      BY DEF Stage
    <2>1. CASE k = j
      <3>1. {d \in BusyNow : JobOf(d) = k} = {}
        BY <2>1, <1>6
      <3>2. {d \in BusyNow' : JobOf(d)' = k} = {c}
        BY <2>1, <1>3, <1>4, <1>5, <1>6
      <3>3. Stage[k] = {"starting"}
        BY <2>1, <3>1 DEF Stage
      <3>4. {cons'[d].pc : d \in {e \in BusyNow' : JobOf(e)' = k}} = {"starting"}
        BY <3>2, <1>4
      <3>5. Stage'[k] = {"starting"}
        BY <2>1, <3>4 DEF Stage
      <3> QED
        BY <3>3, <3>5
    <2>2. CASE k # j
      <3>1. {d \in BusyNow' : JobOf(d)' = k} = {d \in BusyNow : JobOf(d) = k}
        BY <2>2, <1>3, <1>4, <1>5
      <3>2. {cons'[d].pc : d \in {e \in BusyNow' : JobOf(e)' = k}}
              = {cons[d].pc : d \in {e \in BusyNow : JobOf(e) = k}}
        BY <3>1, <1>5
      <3>3. k \in Queued' <=> k \in Queued
        BY <2>2
      <3> QED
        BY <3>2, <3>3 DEF Stage
    <2> QED
      BY <2>1, <2>2
  <1>8. ASSUME NEW d \in BusyNow'
        PROVE  /\ pend'[JobOf(d)'] = cons'[d].job[2] /\ JobOf(d)' \notin Queued'
               /\ \A e \in BusyNow' : JobOf(e)' = JobOf(d)' => e = d
    <2>1. CASE d = c
      BY <2>1, <1>3, <1>4, <1>5, <1>6
    <2>2. CASE d # c
      <3>1. d \in BusyNow
        BY <2>2, <1>3, <1>8
      <3>2. pend[JobOf(d)] = cons[d].job[2] /\ \A e \in BusyNow : JobOf(e) = JobOf(d) => e = d
        BY <3>1 DEF Identity, Placed
      <3> QED
        BY <3>1, <3>2, <1>3, <1>4, <1>5, <1>6
    <2> QED
      BY <2>1, <2>2
  <1> QED
    BY <1>3, <1>7, <1>8

LEMMA TakeIdentity ==
  ASSUME IInv, Identity, NEW c \in Consumers, Take(c)
  PROVE  Identity'
  <1>1. PICK i \in 1..Len(queue) :
           /\ queue' = RemoveAt(queue, i)
           /\ IF InLane(queue[i][1])
              THEN lane' = Append(lane, queue[i]) /\ To(c, "lane")
              ELSE cons' = [cons EXCEPT ![c] = Running(queue[i])] /\ lane' = lane
    BY DEF Take
  <1> DEFINE q == queue[i]
  <1>2. queue \in Seq(Requests) /\ lane \in Seq(Requests) /\ q \in Requests
    BY DEF IInv, TypeOK
  <1>3. /\ SameRecords /\ permit' = permit /\ proc' = proc
        /\ cons[c].pc = "idle" /\ cons[c].pc \notin Busy
    BY DEF Take, SameRecords, disk, guards, ghosts, Busy
  <1>4. /\ Distinct(queue) /\ Distinct(lane) /\ JobsIn(queue) \cap JobsIn(lane) = {}
        /\ Owned(queue) /\ Owned(lane)
    BY DEF Identity, Placed
  <1>5. q[1] \in JobsIn(queue) /\ q[1] \notin JobsIn(lane) /\ pend[q[1]] = q[2]
    BY <1>4 DEF JobsIn, Owned
  <1>6. /\ JobsIn(queue') = JobsIn(queue) \ {q[1]} /\ Distinct(queue')
        /\ Owned(queue')
    BY <1>1, <1>2, <1>4, RemoveJobs
  <1>7. Up
    <2>1. queue # <<>>
      BY <1>2
    <2> QED
      BY <2>1 DEF Identity, DownInv
  <1>8. DownInv'
    BY <1>3, <1>7 DEF DownInv, Up
  <1> HIDE DEF q
  <1>9. CASE InLane(q[1])
    <2>1. lane' = Append(lane, q) /\ To(c, "lane")
      BY <1>1, <1>9 DEF q
    <2>2. /\ JobsIn(lane') = JobsIn(lane) \cup {q[1]} /\ Distinct(lane') /\ Owned(lane')
      BY <2>1, <1>2, <1>4, <1>5, AppendJobs
    <2>3. Queued' = Queued
      BY <2>2, <1>5, <1>6 DEF Queued
    <2>4. \A d \in Consumers : cons'[d] = IF d = c THEN [cons[c] EXCEPT !.pc = "lane"] ELSE cons[d]
      BY <2>1 DEF To, IInv, TypeOK
    <2>5. [cons[c] EXCEPT !.pc = "lane"].pc = "lane" /\ "lane" \notin Busy
      BY DEF IInv, TypeOK, Busy
    <2>6. BusyNow' = BusyNow /\ \A d \in BusyNow : cons'[d] = cons[d] /\ JobOf(d)' = JobOf(d)
      BY <1>3, <2>4, <2>5 DEF BusyNow, JobOf
    <2>7. Stage' = Stage
      <3> SUFFICES ASSUME NEW k \in Jobs PROVE Stage'[k] = Stage[k]
        BY DEF Stage
      <3>1. {d \in BusyNow' : JobOf(d)' = k} = {d \in BusyNow : JobOf(d) = k}
        BY <2>6
      <3>2. {cons'[d].pc : d \in {e \in BusyNow' : JobOf(e)' = k}}
              = {cons[d].pc : d \in {e \in BusyNow : JobOf(e) = k}}
        BY <3>1, <2>6
      <3> QED
        BY <3>2, <2>3 DEF Stage
    <2>8. Placed'
      <3>1. JobsIn(queue') \cap JobsIn(lane') = {}
        BY <2>2, <1>4, <1>6
      <3>2. Owned(queue)' /\ Owned(lane)'
        BY <2>2, <1>3, <1>6 DEF Owned, SameRecords
      <3>3. \A d \in BusyNow' :
               /\ pend'[JobOf(d)'] = cons'[d].job[2] /\ JobOf(d)' \notin Queued'
               /\ \A e \in BusyNow' : JobOf(e)' = JobOf(d)' => e = d
        BY <2>3, <2>6, <1>3 DEF Identity, Placed, SameRecords
      <3> QED
        BY <3>1, <3>2, <3>3, <2>2, <1>6 DEF Placed
    <2> QED
      BY <2>7, <2>8, <1>3, <1>8, SameStage DEF Up
  <1>10. CASE ~InLane(q[1])
    <2>1. cons' = [cons EXCEPT ![c] = Running(q)] /\ lane' = lane
      BY <1>1, <1>10 DEF q
    <2>2. Queued' = Queued \ {q[1]} /\ q[1] \in Queued
      BY <2>1, <1>5, <1>6 DEF Queued
    <2>3. /\ Stage' = Stage
          /\ \A d \in BusyNow' :
               /\ pend'[JobOf(d)'] = cons'[d].job[2] /\ JobOf(d)' \notin Queued'
               /\ \A e \in BusyNow' : JobOf(e)' = JobOf(d)' => e = d
      BY <2>1, <2>2, <1>2, <1>3, <1>5, Picked DEF SameRecords
    <2>4. Placed'
      <3>1. JobsIn(queue') \cap JobsIn(lane') = {}
        BY <2>1, <1>4, <1>6
      <3>2. Owned(queue)' /\ Owned(lane)'
        BY <2>1, <1>3, <1>4, <1>6 DEF Owned, SameRecords
      <3> QED
        BY <3>1, <3>2, <2>1, <2>3, <1>4, <1>6 DEF Placed
    <2> QED
      BY <2>3, <2>4, <1>3, <1>8, SameStage DEF Up
  <1> QED
    BY <1>9, <1>10

LEMMA LaneTakeIdentity ==
  ASSUME IInv, Identity, NEW c \in Consumers, LaneTake(c)
  PROVE  Identity'
  <1>1. queue \in Seq(Requests) /\ lane \in Seq(Requests)
    BY DEF IInv, TypeOK
  <1>2. /\ SameRecords /\ permit' = permit /\ proc' = proc /\ queue' = queue
        /\ cons[c].pc = "lane" /\ cons[c].pc \notin Busy
    BY DEF LaneTake, SameRecords, disk, guards, ghosts, Busy
  <1>3. /\ Distinct(queue) /\ Distinct(lane) /\ JobsIn(queue) \cap JobsIn(lane) = {}
        /\ Owned(queue) /\ Owned(lane)
    BY DEF Identity, Placed
  <1>4. CASE lane # <<>> /\ Cardinality(InLaneNow) < LANE
    <2> DEFINE q == Head(lane)
    <2>1. cons' = [cons EXCEPT ![c] = Running(q)] /\ lane' = Tail(lane) /\ q \in Requests
      BY <1>1, <1>4 DEF LaneTake
    <2>2. /\ JobsIn(lane') = JobsIn(lane) \ {q[1]} /\ q[1] \in JobsIn(lane)
          /\ Distinct(lane') /\ Owned(lane') /\ pend[q[1]] = q[2]
      BY <2>1, <1>1, <1>3, <1>4, HeadJobs
    <2>3. Up
      BY <1>4 DEF Identity, DownInv
    <2>4. DownInv'
      BY <2>3, <1>2 DEF DownInv, Up
    <2> HIDE DEF q
    <2>5. Queued' = Queued \ {q[1]} /\ q[1] \in Queued
      BY <2>2, <1>2, <1>3 DEF Queued
    <2>6. /\ Stage' = Stage
          /\ \A d \in BusyNow' :
               /\ pend'[JobOf(d)'] = cons'[d].job[2] /\ JobOf(d)' \notin Queued'
               /\ \A e \in BusyNow' : JobOf(e)' = JobOf(d)' => e = d
      BY <2>1, <2>2, <2>5, <1>2, Picked DEF SameRecords
    <2>7. Placed'
      <3>1. JobsIn(queue') \cap JobsIn(lane') = {}
        BY <2>2, <1>2, <1>3
      <3>2. Owned(queue)' /\ Owned(lane)'
        BY <2>2, <1>2, <1>3 DEF Owned, SameRecords
      <3> QED
        BY <3>1, <3>2, <2>2, <2>6, <1>2, <1>3 DEF Placed
    <2> QED
      BY <2>4, <2>6, <2>7, <1>2, SameStage DEF Up
  <1>5. CASE ~(lane # <<>> /\ Cardinality(InLaneNow) < LANE)
    <2>1. cons' = [cons EXCEPT ![c] = Idle] /\ lane' = lane
      BY <1>5 DEF LaneTake
    <2>2. \A d \in Consumers : cons'[d] = IF d = c THEN Idle ELSE cons[d]
      BY <2>1 DEF IInv, TypeOK
    <2>3. Idle.pc \notin Busy
      BY DEF Idle, Busy
    <2>4. BusyNow' = BusyNow /\ \A d \in BusyNow : cons'[d] = cons[d] /\ JobOf(d)' = JobOf(d)
      BY <1>2, <2>2, <2>3 DEF BusyNow, JobOf
    <2>5. Queued' = Queued
      BY <1>2, <2>1 DEF Queued
    <2>6. Stage' = Stage
      <3> SUFFICES ASSUME NEW k \in Jobs PROVE Stage'[k] = Stage[k]
        BY DEF Stage
      <3>1. {d \in BusyNow' : JobOf(d)' = k} = {d \in BusyNow : JobOf(d) = k}
        BY <2>4
      <3>2. {cons'[d].pc : d \in {e \in BusyNow' : JobOf(e)' = k}}
              = {cons[d].pc : d \in {e \in BusyNow : JobOf(e) = k}}
        BY <3>1, <2>4
      <3> QED
        BY <3>2, <2>5 DEF Stage
    <2>7. Placed'
      <3>1. Owned(queue)' /\ Owned(lane)'
        BY <2>1, <1>2, <1>3 DEF Owned, SameRecords
      <3>2. \A d \in BusyNow' :
               /\ pend'[JobOf(d)'] = cons'[d].job[2] /\ JobOf(d)' \notin Queued'
               /\ \A e \in BusyNow' : JobOf(e)' = JobOf(d)' => e = d
        BY <2>4, <2>5, <1>2 DEF Identity, Placed, SameRecords
      <3> QED
        BY <3>1, <3>2, <2>1, <1>2, <1>3 DEF Placed
    <2>8. DownInv'
      BY <1>2, <2>1, <2>4 DEF Identity, DownInv, Up, SameRecords
    <2> QED
      BY <2>6, <2>7, <2>8, <1>2, SameStage DEF Up
  <1> QED
    BY <1>4, <1>5

-------------------------------------------------------------------------------
(* Admission and rollover.                                                     *)
LEMMA ArchiveJob ==
  ASSUME TypeOK, NEW k \in Jobs, JobInv(k), NEW S \in SUBSET (DueJobs \ Conflicts), Archive(S),
         Up, Up', mode' = mode, faults' = faults, pend'[k] = pend[k],
         calls' = calls, inputs' = inputs, undecided' = undecided, callbacks' = callbacks,
         Stage'[k] = Stage[k], permit' = permit \/ permit = None
  PROVE  JobInv(k)'
  <1>1. CASE k \notin S
    <2>1. journal'[k] = journal[k] /\ history'[k] = history[k] /\ archive'[k] = archive[k]
      BY <1>1 DEF Archive
    <2>2. SameJob(k)
      BY <2>1 DEF SameJob
    <2>3. Stage'[k] \subseteq Stage[k] /\ (faults' = 0 => faults = 0)
      OBVIOUS
    <2> QED
      BY <2>2, <2>3, Elsewhere
  <1>2. CASE k \in S
    <2>1. journal'[k] = None /\ history'[k] = None /\ archive'[k] = history[k]
      BY <1>2 DEF Archive
    <2>2. /\ history[k] # None /\ history[k].state \in Terminal
          /\ journal[k] = history[k] /\ archive[k] \in {None, history[k]}
      BY <1>2 DEF DueJobs, Conflicts, Due, StateIn, Terminal, Tombstoned
    <2>3. permit' = permit \/ permit = None
      OBVIOUS
    <2>4. k # None
      BY NoneAssumption
    <2> USE <2>1, <2>2
    <2>12. SameInput(k)'
      BY DEF JobInv, SameInput, Agrees
    <2>13. Remembered(k)'
      BY DEF JobInv, Remembered, Previous
    <2>14. StageInv(k)'
      BY DEF JobInv, StageInv, Agreed, StateIn, Terminal
    <2>15. UndecidedInv(k)'
      BY DEF JobInv, UndecidedInv, StateIn, Unsafe
    <2>16. SentInv(k)'
      BY DEF JobInv, SentInv, Shows
    <2>17. DeliveredInv(k)'
      BY DEF JobInv, DeliveredInv, StateIn
    <2>18. OnceInv(k)'
      BY DEF JobInv, OnceInv, StateIn, Terminal, Continuous
    <2>19. PaidInv(k)'
      <3>1. /\ Ahead(k)' <=> Ahead(k)
            /\ OneUse(k)' <=> OneUse(k)
            /\ BoughtOnce(k)' <=> BoughtOnce(k)
        BY DEF Ahead, OneUse, BoughtOnce, Continuous
      <3> QED
        BY <2>3, <2>4, <3>1 DEF JobInv, PaidInv
    <2>20. FaultInv(k)'
      BY DEF FaultInv
    <2> QED
      BY <2>12, <2>13, <2>14, <2>15, <2>16, <2>17, <2>18, <2>19, <2>20 DEF JobInv
  <1> QED
    BY <1>1, <1>2

LEMMA AdmitJob ==
  ASSUME TypeOK, NEW j \in Jobs, JobInv(j), NEW fp \in Fps, Fresh(j, fp), Spend(j),
         Conflicts = {}, Archive(DueJobs),
         Up, Up', mode' = mode, faults' = faults, pend'[j] = fp,
         calls' = calls, inputs' = inputs, undecided' = undecided, callbacks' = callbacks,
         Stage[j] = {}, Stage'[j] = {"starting"}
  PROVE  JobInv(j)'
  <1>1. \/ /\ journal'[j] = journal[j] /\ history'[j] = history[j] /\ archive'[j] = archive[j]
        \/ /\ journal'[j] = None /\ history'[j] = None /\ archive'[j] = history[j]
           /\ history[j] # None /\ journal[j] = history[j] /\ archive[j] \in {None, history[j]}
           /\ history[j].state \in Terminal
    BY DEF Archive, DueJobs, Conflicts, Due, StateIn, Terminal, Tombstoned
  <1>2. /\ pend[j] = None /\ fp # None
        /\ history[j] # None => history[j].fp = fp /\ history[j].state = "failed"
        /\ history[j] = None /\ archive[j] # None => archive[j].fp = fp /\ archive[j].state = "failed"
        /\ Continuous /\ ~DeepRetryable(j) => history[j] = None /\ archive[j] = None
    BY NoneAssumption DEF Fresh, Previous, Retriable
  <1>3. j \notin undecided
    BY <1>2 DEF JobInv, UndecidedInv, StateIn, Unsafe, States, Terminal
  <1>4. callbacks[j] = 0
    <2>1. callbacks[j] \in Nat
      BY DEF TypeOK
    <2>2. ~(callbacks[j] > 0)
      BY <1>2 DEF JobInv, SentInv, Shows, Sent
    <2> QED
      BY <2>1, <2>2
  <1>5. BoughtOnce(j) => calls[j] = 0
    <2>1. calls[j] \in Nat
      BY DEF TypeOK
    <2>2. Continuous /\ ~DeepRetryable(j) => ~(calls[j] > 0)
      BY <1>2 DEF JobInv, Remembered, Previous
    <2>3. OneUse(j) => ~(calls[j] > 0)
      BY NoneAssumption DEF JobInv, PaidInv, OneUse, Spend
    <2> QED
      BY <2>1, <2>2, <2>3 DEF BoughtOnce
  <1>6. OneUse(j) => permit' = j
    BY DEF Spend, OneUse
  <1> USE <1>1, <1>2, <1>3, <1>4
  <1>12. SameInput(j)'
    BY DEF JobInv, SameInput, Agrees, Remembered, Previous
  <1>13. Remembered(j)'
    BY DEF JobInv, Remembered, Previous
  <1>14. StageInv(j)'
    BY DEF StageInv, StateIn
  <1>15. UndecidedInv(j)'
    BY DEF UndecidedInv
  <1>16. SentInv(j)'
    BY DEF SentInv
  <1>17. DeliveredInv(j)'
    BY DEF JobInv, DeliveredInv, StateIn
  <1>18. OnceInv(j)'
    BY DEF JobInv, OnceInv, StateIn, Terminal, Continuous
  <1>19. PaidInv(j)'
    BY <1>5, <1>6 DEF PaidInv, OneUse, BoughtOnce, Continuous
  <1>20. FaultInv(j)'
    BY DEF JobInv, FaultInv
  <1> QED
    BY <1>12, <1>13, <1>14, <1>15, <1>16, <1>17, <1>18, <1>19, <1>20 DEF JobInv

\* A job that is not pending is nowhere.
LEMMA NotPending ==
  ASSUME IInv, Identity, NEW j \in Jobs, pend[j] = None
  PROVE  j \notin Queued /\ Stage[j] = {} /\ \A c \in BusyNow : JobOf(c) # j
  <1>1. queue \in Seq(Requests) /\ lane \in Seq(Requests)
    BY DEF IInv, TypeOK
  <1>2. j \notin Queued
    <2>1. \A s \in {queue, lane} : \A i \in 1..Len(s) : s[i] \in Requests /\ pend[s[i][1]] = s[i][2]
      BY <1>1 DEF Identity, Placed, Owned
    <2>2. \A q \in Requests : q[2] # None
      BY NoneAssumption DEF Requests
    <2> QED
      BY <2>1, <2>2 DEF Queued, JobsIn
  <1>3. \A c \in BusyNow : JobOf(c) # j
    BY BusyFacts DEF BusyNow
  <1>4. {c \in BusyNow : JobOf(c) = j} = {}
    BY <1>3
  <1>5. Stage[j] = {}
    BY <1>2, <1>4 DEF Stage
  <1> QED
    BY <1>2, <1>3, <1>5

LEMMA AdmitIdentity ==
  ASSUME IInv, Identity, NEW q \in inflight, Admit(q)
  PROVE  Identity'
  <1>1. PICK j \in Jobs : j = q[1]
    BY DEF IInv, TypeOK, Requests
  <1>2. q \in Requests /\ q[2] \in Fps /\ q[2] # None
    BY NoneAssumption DEF IInv, TypeOK, Requests
  <1>3. /\ Fresh(j, q[2]) /\ Spend(j) /\ Conflicts = {} /\ Archive(DueJobs) /\ Up
        /\ queue' = Append(queue, q) /\ pend' = [pend EXCEPT ![j] = q[2]]
        /\ UNCHANGED <<mode, proc, lane, cons, faults, calls, inputs, undecided, callbacks>>
    BY <1>1 DEF Admit, Reaches, ghosts, Up
  <1>4. pend[j] = None
    BY <1>3 DEF Fresh
  <1>5. j \notin Queued /\ Stage[j] = {} /\ \A c \in BusyNow : JobOf(c) # j
    BY <1>4, NotPending
  <1>6. queue \in Seq(Requests) /\ lane \in Seq(Requests) /\ pend \in [Jobs -> Fps \cup {None}]
    BY DEF IInv, TypeOK
  <1>7. /\ JobsIn(queue') = JobsIn(queue) \cup {j} /\ Distinct(queue')
    BY <1>1, <1>2, <1>3, <1>5, <1>6, AppendJobs DEF Identity, Placed, Queued
  <1>8. \A k \in Jobs : pend'[k] = IF k = j THEN q[2] ELSE pend[k]
    BY <1>3, <1>6
  <1>9. Queued' = Queued \cup {j}
    BY <1>3, <1>7 DEF Queued
  <1>10. /\ BusyNow' = BusyNow
         /\ \A c \in BusyNow : JobOf(c)' = JobOf(c) /\ cons'[c] = cons[c] /\ JobOf(c) \in Jobs
    BY <1>3, BusyFacts DEF BusyNow, JobOf
  <1>11. \A k \in Jobs : Stage'[k] = IF k = j THEN {"starting"} ELSE Stage[k]
    <2> SUFFICES ASSUME NEW k \in Jobs
                 PROVE  Stage'[k] = IF k = j THEN {"starting"} ELSE Stage[k]
      OBVIOUS
    <2>1. {d \in BusyNow' : JobOf(d)' = k} = {d \in BusyNow : JobOf(d) = k}
      BY <1>10
    <2>2. {cons'[d].pc : d \in {e \in BusyNow' : JobOf(e)' = k}}
            = {cons[d].pc : d \in {e \in BusyNow : JobOf(e) = k}}
      BY <2>1, <1>10
    <2>3. CASE k = j
      <3>1. {d \in BusyNow : JobOf(d) = k} = {}
        BY <2>3, <1>5
      <3> QED
        BY <2>2, <2>3, <3>1, <1>9 DEF Stage
    <2>4. CASE k # j
      BY <2>2, <2>4, <1>9 DEF Stage
    <2> QED
      BY <2>3, <2>4
  <1>12. Placed'
    <2>1. Distinct(queue') /\ Distinct(lane') /\ JobsIn(queue') \cap JobsIn(lane') = {}
      BY <1>3, <1>5, <1>7 DEF Identity, Placed, Queued
    <2>2. Owned(queue)'
      <3> SUFFICES ASSUME NEW i \in 1..Len(queue') PROVE pend'[queue'[i][1]] = queue'[i][2]
        BY DEF Owned
      <3>1. CASE i = Len(queue')
        <4>1. queue'[i] = q
          BY <3>1, <1>2, <1>3, <1>6
        <4> QED
          BY <4>1, <1>1, <1>8
      <3>2. CASE i # Len(queue')
        <4>1. i \in 1..Len(queue) /\ queue'[i] = queue[i] /\ queue[i] \in Requests
          BY <3>2, <1>2, <1>3, <1>6
        <4>2. queue[i][1] \in Jobs /\ queue[i][1] # j
          BY <4>1, <1>5 DEF Queued, JobsIn, Requests
        <4> QED
          BY <4>1, <4>2, <1>8 DEF Identity, Placed, Owned
      <3> QED
        BY <3>1, <3>2
    <2>3. Owned(lane)'
      <3> SUFFICES ASSUME NEW i \in 1..Len(lane) PROVE pend'[lane[i][1]] = lane[i][2]
        BY <1>3 DEF Owned
      <3>1. lane[i] \in Requests
        BY <1>6
      <3>2. lane[i][1] \in Jobs /\ lane[i][1] # j
        BY <3>1, <1>5 DEF Queued, JobsIn, Requests
      <3> QED
        BY <3>2, <1>8 DEF Identity, Placed, Owned
    <2>4. ASSUME NEW d \in BusyNow'
          PROVE  /\ pend'[JobOf(d)'] = cons'[d].job[2] /\ JobOf(d)' \notin Queued'
                 /\ \A e \in BusyNow' : JobOf(e)' = JobOf(d)' => e = d
      <3>1. /\ d \in BusyNow /\ JobOf(d)' = JobOf(d) /\ cons'[d] = cons[d]
            /\ JobOf(d) \in Jobs /\ JobOf(d) # j
        BY <1>5, <1>10
      <3>2. /\ pend[JobOf(d)] = cons[d].job[2] /\ JobOf(d) \notin Queued
            /\ \A e \in BusyNow : JobOf(e) = JobOf(d) => e = d
        BY <3>1 DEF Identity, Placed
      <3> QED
        BY <3>1, <3>2, <1>8, <1>9, <1>10
    <2> QED
      BY <2>1, <2>2, <2>3, <2>4 DEF Placed
  <1>13. DownInv' /\ Up'
    BY <1>3 DEF DownInv, Up
  <1>14. ASSUME NEW k \in Jobs PROVE JobInv(k)'
    <2>1. CASE k = j
      <3>1. JobInv(j) /\ pend'[j] = q[2] /\ Stage'[j] = {"starting"} /\ TypeOK
        BY <1>8, <1>11 DEF Identity, IInv
      <3> QED
        BY <2>1, <3>1, <1>2, <1>3, <1>5, <1>13, AdmitJob
    <2>2. CASE k # j
      <3>1. JobInv(k) /\ pend'[k] = pend[k] /\ Stage'[k] = Stage[k] /\ TypeOK
        BY <2>2, <1>8, <1>11 DEF Identity, IInv
      <3>2. permit' = permit \/ permit = None
        BY <1>3 DEF Spend
      <3>3. DueJobs \in SUBSET (DueJobs \ Conflicts)
        BY <1>3
      <3> QED
        BY <3>1, <3>2, <3>3, <1>3, <1>13, ArchiveJob
    <2> QED
      BY <2>1, <2>2
  <1> QED
    BY <1>12, <1>13, <1>14 DEF Identity

LEMMA RefusedIdentity ==
  ASSUME IInv, Identity, NEW q \in inflight, AdmitRefused(q) \/ AdmitWedged(q)
  PROVE  Identity'
  <1>1. PICK S \in SUBSET (DueJobs \ Conflicts) : Archive(S)
    <2>1. CASE AdmitRefused(q)
      BY <2>1 DEF AdmitRefused
    <2>2. CASE AdmitWedged(q)
      BY <2>2 DEF AdmitWedged
    <2> QED
      BY <2>1, <2>2
  <1>2. permit' = permit \/ permit = None
    BY DEF AdmitRefused, AdmitWedged, guards, Spend
  <1>3. /\ UNCHANGED <<queue, lane, cons, pend>> /\ Up /\ Up'
        /\ mode' = mode /\ faults' = faults
        /\ calls' = calls /\ inputs' = inputs /\ undecided' = undecided /\ callbacks' = callbacks
    BY DEF AdmitRefused, AdmitWedged, Reaches, ghosts, Up
  <1>4. Placed' /\ Stage' = Stage
    BY <1>3, SamePlaces
  <1>5. DownInv'
    BY <1>3 DEF DownInv
  <1>6. ASSUME NEW k \in Jobs PROVE JobInv(k)'
    <2>1. JobInv(k) /\ pend'[k] = pend[k] /\ Stage'[k] = Stage[k] /\ TypeOK
      BY <1>3, <1>4 DEF Identity, IInv
    <2> QED
      BY <2>1, <1>1, <1>2, <1>3, ArchiveJob
  <1> QED
    BY <1>4, <1>5, <1>6 DEF Identity

-------------------------------------------------------------------------------
(* The end of the process and its restart.                                     *)

\* What one job keeps when the process ends.
LEMMA EndJob ==
  ASSUME NEW k \in Jobs, JobInv(k), Up, ~Up', mode' = mode, permit' = permit, faults' = faults,
         calls' = calls, inputs' = inputs, undecided' = undecided, callbacks' = callbacks,
         history'[k] = None, pend'[k] = None, Stage'[k] = {},
         \/ journal'[k] = journal[k]
         \/ /\ journal'[k] # None /\ journal'[k].state = "callback_uncertain"
            /\ pend[k] # None /\ journal'[k].fp = pend[k],
         \/ archive'[k] = archive[k]
         \/ /\ archive'[k] = history[k] /\ journal'[k] = journal[k] /\ journal[k] = history[k]
            /\ StateIn(history, k) \in Terminal /\ archive[k] \in {None, history[k]}
  PROVE  JobInv(k)'
  <1>1. ~Ahead(k)'
    BY DEF Ahead
  <1>2. \/ journal'[k] = journal[k]
        \/ /\ journal'[k] # None /\ journal'[k].state = "callback_uncertain"
           /\ pend[k] # None /\ journal'[k].fp = pend[k]
    OBVIOUS
  <1>3. \/ archive'[k] = archive[k]
        \/ /\ archive'[k] = history[k] /\ journal'[k] = journal[k] /\ journal[k] = history[k]
           /\ history[k] # None
           /\ history[k].state \in Terminal /\ archive[k] \in {None, history[k]}
    BY DEF StateIn, Terminal
  <1> USE <1>2, <1>3
  <1>12. SameInput(k)'
    BY DEF JobInv, SameInput, Agrees
  <1>13. Remembered(k)'
    BY DEF JobInv, Remembered
  <1>14. StageInv(k)'
    BY DEF StageInv
  <1>15. UndecidedInv(k)'
    BY <1>1 DEF JobInv, UndecidedInv, StateIn, Unsafe, States, Terminal
  <1>16. SentInv(k)'
    BY DEF JobInv, SentInv, Shows, Sent
  <1>17. DeliveredInv(k)'
    BY DEF JobInv, DeliveredInv, StateIn
  <1>18. OnceInv(k)'
    BY DEF JobInv, OnceInv, StateIn, Terminal, Continuous
  <1>19. PaidInv(k)'
    BY <1>1 DEF JobInv, PaidInv, OneUse, BoughtOnce, Continuous
  <1>20. FaultInv(k)'
    BY DEF FaultInv
  <1> QED
    BY <1>12, <1>13, <1>14, <1>15, <1>16, <1>17, <1>18, <1>19, <1>20 DEF JobInv

LEMMA ForgetPlaces ==
  ASSUME Forget
  PROVE  /\ Placed' /\ DownInv' /\ ~Up'
         /\ \A k \in Jobs : Stage'[k] = {} /\ history'[k] = None /\ pend'[k] = None
  <1>1. /\ queue' = <<>> /\ lane' = <<>> /\ cons' = [c \in Consumers |-> Idle]
        /\ history' = NoJobs /\ pend' = NoJobs /\ proc' = "down"
    BY DEF Forget
  <1>2. Idle.pc \notin Busy
    BY DEF Idle, Busy
  <1>3. BusyNow' = {}
    BY <1>1, <1>2 DEF BusyNow
  <1>4. JobsIn(<<>>) = {}
    BY DEF JobsIn
  <1>5. Queued' = {}
    BY <1>1, <1>4 DEF Queued
  <1>6. Placed'
    BY <1>1, <1>3, <1>4 DEF Placed, Distinct, Owned
  <1>7. \A k \in Jobs : Stage'[k] = {}
    BY <1>3, <1>5 DEF Stage
  <1>8. DownInv' /\ ~Up'
    BY <1>1, <1>3 DEF DownInv, Up
  <1> QED
    BY <1>1, <1>6, <1>7, <1>8 DEF NoJobs

LEMMA StopIdentity ==
  ASSUME IInv, Identity, Stop
  PROVE  Identity'
  <1>1. Forget /\ Up /\ mode' = mode /\ permit' = permit /\ faults' = faults /\ archive' = archive
        /\ calls' = calls /\ inputs' = inputs /\ undecided' = undecided /\ callbacks' = callbacks
    BY DEF Stop, guards, ghosts, Up
  <1>2. \A q \in Sending : q \in Requests /\ pend[q[1]] = q[2] /\ pend[q[1]] # None
    <2> SUFFICES ASSUME NEW c \in Consumers, cons[c].pc \in {"sending", "posted"}
                 PROVE  LET q == cons[c].job
                        IN  q \in Requests /\ pend[q[1]] = q[2] /\ pend[q[1]] # None
      BY DEF Sending
    <2>1. cons[c].pc \in Busy
      BY DEF Busy, Phases
    <2> QED
      BY <2>1, BusyFacts
  <1>3. ASSUME NEW k \in Jobs PROVE JobInv(k)'
    <2>1. \/ journal'[k] = journal[k]
          \/ /\ journal'[k] # None /\ journal'[k].state = "callback_uncertain"
             /\ pend[k] # None /\ journal'[k].fp = pend[k]
      <3>1. CASE \E q \in Sending : q[1] = k
        <4>1. PICK q \in Sending : q[1] = k /\ q = CHOOSE r \in Sending : r[1] = k
          BY <3>1
        <4>2. journal'[k] = Record(q, "callback_uncertain")
          BY <3>1, <4>1 DEF Stop
        <4>3. Record(q, "callback_uncertain") # None
          BY <4>1, <1>2, RecordType DEF IInv, States
        <4>4. journal'[k].fp = q[2] /\ journal'[k].state = "callback_uncertain"
          BY <4>2 DEF Record
        <4> QED
          BY <4>1, <4>2, <4>3, <4>4, <1>2
      <3>2. CASE ~\E q \in Sending : q[1] = k
        BY <3>2 DEF Stop
      <3> QED
        BY <3>1, <3>2
    <2>2. Stage'[k] = {} /\ history'[k] = None /\ pend'[k] = None /\ ~Up'
      BY <1>1, ForgetPlaces
    <2>3. JobInv(k) /\ archive'[k] = archive[k]
      BY <1>1 DEF Identity
    <2> QED
      BY <1>1, <2>1, <2>2, <2>3, EndJob
  <1> QED
    BY <1>1, <1>3, ForgetPlaces DEF Identity

LEMMA CrashIdentity ==
  ASSUME IInv, Identity, Crash \/ CrashInArchive
  PROVE  Identity'
  <1>1. Forget /\ Up /\ mode' = mode /\ permit' = permit /\ faults' = faults /\ journal' = journal
        /\ calls' = calls /\ inputs' = inputs /\ undecided' = undecided /\ callbacks' = callbacks
    BY DEF Crash, CrashInArchive, disk, guards, ghosts, Up
  <1>2. ASSUME NEW k \in Jobs PROVE JobInv(k)'
    <2>1. \/ archive'[k] = archive[k]
          \/ /\ archive'[k] = history[k] /\ journal'[k] = journal[k] /\ journal[k] = history[k]
             /\ StateIn(history, k) \in Terminal /\ archive[k] \in {None, history[k]}
      <3>1. CASE Crash
        BY <3>1 DEF Crash, disk
      <3>2. CASE CrashInArchive
        <4>1. PICK j \in DueJobs \ Conflicts : archive' = [archive EXCEPT ![j] = history[j]]
          BY <3>2 DEF CrashInArchive
        <4> QED
          BY <1>1, <4>1 DEF DueJobs, Due, Conflicts, Tombstoned, IInv, TypeOK
      <3> QED
        BY <3>1, <3>2
    <2>2. Stage'[k] = {} /\ history'[k] = None /\ pend'[k] = None /\ ~Up'
      BY <1>1, ForgetPlaces
    <2>3. JobInv(k) /\ journal'[k] = journal[k]
      BY <1>1 DEF Identity
    <2> QED
      BY <1>1, <2>1, <2>2, <2>3, EndJob
  <1> QED
    BY <1>1, <1>2, ForgetPlaces DEF Identity

LEMMA BootIdentity ==
  ASSUME IInv, Identity, Boot
  PROVE  Identity'
  <1> DEFINE due == {j \in old : StateIn(journal, j) \in Terminal}
  <1>1. /\ ~Up /\ Up'
        /\ \A j \in due : archive[j] \in {None, journal[j]}
        /\ archive' = [j \in Jobs |-> IF j \in due THEN journal[j] ELSE archive[j]]
        /\ journal' = [j \in Jobs |-> IF j \in due THEN None ELSE journal[j]]
        /\ history' = [j \in Jobs |-> IF j \in due THEN None ELSE journal[j]]
        /\ UNCHANGED <<mode, permit, pend, queue, lane, cons, faults, calls, inputs, undecided,
                       callbacks>>
    BY DEF Boot, guards, ghosts, Up
  <1>2. \A j \in due : journal[j] # None /\ journal[j].state \in Terminal
    BY DEF StateIn, Terminal
  <1> HIDE DEF due
  <1>3. Placed' /\ Stage' = Stage
    BY <1>1, SamePlaces
  <1>4. DownInv'
    BY <1>1 DEF DownInv
  <1>5. ASSUME NEW k \in Jobs PROVE JobInv(k)'
    <2>1. JobInv(k) /\ history[k] = None /\ pend[k] = None /\ Stage[k] = {}
      BY <1>1, NotPending DEF Identity, DownInv, NoJobs
    <2>2. \/ /\ journal'[k] = None /\ history'[k] = None /\ archive'[k] = journal[k]
             /\ journal[k] # None /\ journal[k].state \in Terminal
             /\ archive[k] \in {None, journal[k]}
          \/ journal'[k] = journal[k] /\ history'[k] = journal[k] /\ archive'[k] = archive[k]
      BY <1>1, <1>2
    <2>3. pend'[k] = None /\ Stage'[k] = {} /\ ~Ahead(k)' /\ mode' = mode /\ permit' = permit
          /\ calls' = calls /\ inputs' = inputs /\ undecided' = undecided
          /\ callbacks' = callbacks
      BY <1>1, <1>3, <2>1 DEF Ahead
    <2>4. calls[k] > 0 => journal[k] # None \/ archive[k] # None
      BY DEF IInv, ExecutedHasGuard
    <2> USE <2>1, <2>2, <2>3
    <2>12. SameInput(k)'
      BY DEF JobInv, SameInput, Agrees
    <2>13. Remembered(k)'
      BY <2>4 DEF JobInv, Remembered, Previous
    <2>14. StageInv(k)'
      BY DEF StageInv
    <2>15. UndecidedInv(k)'
      BY DEF JobInv, UndecidedInv, StateIn, Unsafe
    <2>16. SentInv(k)'
      BY DEF JobInv, SentInv, Shows
    <2>17. DeliveredInv(k)'
      BY DEF JobInv, DeliveredInv, StateIn
    <2>18. OnceInv(k)'
      BY DEF JobInv, OnceInv, StateIn, Terminal, Continuous
    <2>19. PaidInv(k)'
      BY DEF JobInv, PaidInv, OneUse, BoughtOnce, Continuous
    <2>20. FaultInv(k)'
      BY DEF FaultInv
    <2> QED
      BY <2>12, <2>13, <2>14, <2>15, <2>16, <2>17, <2>18, <2>19, <2>20 DEF JobInv
  <1> QED
    BY <1>3, <1>4, <1>5 DEF Identity

LEMMA QuietSteps ==
  ASSUME IInv, Identity,
         \/ \E j \in Jobs, fp \in Fps : Request(j, fp)
         \/ \E q \in inflight : Dismiss(q)
         \/ \E j \in Jobs : Age(j) \/ ExpireReservation(j)
         \/ Drain \/ Maintain \/ UNCHANGED vars
  PROVE  Identity'
  <1> USE DEF SameRecords, disk, guards, memory, ghosts
  <1>1. ASSUME NEW j \in Jobs, NEW fp \in Fps, Request(j, fp) PROVE Identity'
    BY <1>1, QuietStep DEF Request, Up
  <1>2. ASSUME NEW q \in inflight, Dismiss(q) PROVE Identity'
    BY <1>2, QuietStep DEF Dismiss, Up
  <1>3. ASSUME NEW j \in Jobs, Age(j) \/ ExpireReservation(j) PROVE Identity'
    BY <1>3, QuietStep DEF Age, ExpireReservation, Up
  <1>4. CASE Drain \/ Maintain
    BY <1>4, QuietStep DEF Drain, Maintain, Up
  <1>5. CASE UNCHANGED vars
    BY <1>5, QuietStep DEF vars, Up
  <1> QED
    BY <1>1, <1>2, <1>3, <1>4, <1>5

-------------------------------------------------------------------------------
(* The theorems.                                                               *)
LEMMA InitIdentity == Init => Identity
  <1> SUFFICES ASSUME Init PROVE Identity
    OBVIOUS
  <1>1. BusyNow = {}
    BY DEF Init, BusyNow, Idle, Busy
  <1>2. JobsIn(<<>>) = {}
    BY DEF JobsIn
  <1>3. Queued = {}
    BY <1>2 DEF Init, Queued
  <1>4. Placed
    BY <1>1, <1>2 DEF Init, Placed, Distinct, Owned
  <1>5. DownInv
    BY <1>1 DEF Init, DownInv
  <1>6. ASSUME NEW k \in Jobs PROVE JobInv(k)
    <2>1. Stage[k] = {} /\ ~Ahead(k)
      BY <1>1, <1>3 DEF Stage, Ahead
    <2>2. /\ journal[k] = None /\ history[k] = None /\ archive[k] = None /\ pend[k] = None
          /\ calls[k] = 0 /\ callbacks[k] = 0 /\ inputs[k] = {} /\ k \notin undecided
          /\ ~Up
      BY DEF Init, NoJobs, Up
    <2>3. SameInput(k) /\ Remembered(k) /\ UndecidedInv(k) /\ SentInv(k) /\ FaultInv(k)
      BY <2>2 DEF SameInput, Agrees, Remembered, UndecidedInv, SentInv, FaultInv
    <2>4. StageInv(k) /\ DeliveredInv(k) /\ OnceInv(k) /\ PaidInv(k)
      BY <2>1, <2>2 DEF StageInv, DeliveredInv, OnceInv, PaidInv, StateIn, Terminal
    <2> QED
      BY <2>3, <2>4 DEF JobInv
  <1> QED
    BY <1>4, <1>5, <1>6 DEF Identity

LEMMA StepIdentity == IInv /\ Identity /\ [Next]_vars => Identity'
  <1> SUFFICES ASSUME IInv, Identity, [Next]_vars PROVE Identity'
    OBVIOUS
  <1>1. ASSUME NEW c \in Consumers, Work(c) PROVE Identity'
    BY <1>1, TakeIdentity, LaneTakeIdentity, StartIdentity, InferIdentity, FailIdentity,
       CompleteIdentity, BeginCallbackIdentity, PostIdentity, PostUncertainIdentity,
       HandlerIdentity DEF Work
  <1>2. ASSUME NEW q \in inflight, Admit(q) \/ AdmitRefused(q) \/ AdmitWedged(q)
        PROVE  Identity'
    BY <1>2, AdmitIdentity, RefusedIdentity
  <1>3. CASE Boot \/ Stop \/ Crash \/ CrashInArchive
    BY <1>3, BootIdentity, StopIdentity, CrashIdentity
  <1> QED
    BY <1>1, <1>2, <1>3, QuietSteps DEF Next

\* Journal, memory, tombstone and place of every job agree with all that ever
\* happened to it.
THEOREM IdentityInvariance == Spec => [](IInv /\ Identity)
  BY Invariance, InitIdentity, StepIdentity, PTL DEF Spec

\* All the requests executed under one identity carried the same input.
THEOREM OneInputPerIdentityHolds == Spec => []OneInputPerIdentity
  <1>1. Identity => OneInputPerIdentity
    <2> SUFFICES ASSUME Identity, NEW j \in Jobs PROVE Cardinality(inputs[j]) <= 1
      BY DEF OneInputPerIdentity
    <2>1. inputs[j] = {} \/ \E fp : inputs[j] = {fp}
      <3>1. \A fp, other \in inputs[j] : other = fp
        BY DEF Identity, JobInv, SameInput
      <3>2. ASSUME NEW fp \in inputs[j] PROVE inputs[j] = {fp}
        BY <3>1
      <3> QED
        BY <3>2
    <2>2. Cardinality(inputs[j]) = 0 \/ Cardinality(inputs[j]) = 1
      BY <2>1, FS_EmptySet, FS_Singleton
    <2> QED
      BY <2>2
  <1> QED
    BY <1>1, IdentityInvariance, PTL

\* The controller gets at most one callback for an identity, over all its
\* admissions, restarts and error answers.
THEOREM CallbackAtMostOnceHolds == Spec => []CallbackAtMostOnce
  <1>1. IInv /\ Identity => CallbackAtMostOnce
    <2> SUFFICES ASSUME IInv, Identity, NEW j \in Jobs PROVE callbacks[j] <= 1
      BY DEF CallbackAtMostOnce
    <2>1. callbacks[j] \in Nat /\ SentInv(j)
      BY DEF IInv, TypeOK, Identity, JobInv
    <2> QED
      BY <2>1 DEF SentInv
  <1> QED
    BY <1>1, IdentityInvariance, PTL

\* A durable outcome tells whether the controller was called.
THEOREM OutcomeTellsCallbackHolds == Spec => []OutcomeTellsCallback
  <1>1. IInv /\ Identity => OutcomeTellsCallback
    <2> SUFFICES ASSUME IInv, Identity, NEW j \in Jobs, Outcome(j) # None
                 PROVE  /\ Outcome(j).state = "failed" => callbacks[j] = 0
                        /\ CALLBACKS /\ Outcome(j).state = "completed" => callbacks[j] = 1
      BY DEF OutcomeTellsCallback
    <2>1. callbacks[j] \in Nat /\ SentInv(j) /\ DeliveredInv(j)
      BY DEF IInv, TypeOK, Identity, JobInv
    <2>2. Outcome(j).state = "failed" => callbacks[j] = 0
      BY <2>1 DEF SentInv, Shows, Sent, Outcome
    <2>3. CALLBACKS /\ Outcome(j).state = "completed" => callbacks[j] = 1
      BY <2>1 DEF DeliveredInv, StateIn, Outcome
    <2> QED
      BY <2>2, <2>3
  <1> QED
    BY <1>1, IdentityInvariance, PTL

\* In continuous mode an identity buys one model request, deep tasks aside; a
\* one-use permit buys one in all.
THEOREM PaidAtMostOnceHolds == Spec => []PaidAtMostOnce
  <1>1. IInv /\ Identity => PaidAtMostOnce
    <2> SUFFICES ASSUME IInv, Identity PROVE PaidAtMostOnce
      OBVIOUS
    <2>1. \A j \in Jobs : calls[j] \in Nat /\ PaidInv(j)
      BY DEF IInv, TypeOK, Identity, JobInv
    <2>2. Continuous => \A j \in Jobs : ~DeepRetryable(j) => calls[j] <= 1
      BY <2>1 DEF PaidInv, BoughtOnce
    <2>3. ASSUME mode = "one_use"
          PROVE  Cardinality(Paid) <= 1 /\ \A j \in Paid : calls[j] = 1
      <3>1. \A j \in Paid : j \in Jobs /\ OneUse(j) /\ calls[j] > 0
        BY <2>3 DEF Paid, OneUse
      <3>2. \A j \in Paid : j = permit /\ calls[j] = 1
        BY <2>1, <3>1 DEF PaidInv, BoughtOnce
      <3>3. Paid = {} \/ Paid = {permit}
        BY <3>2
      <3>4. Cardinality(Paid) = 0 \/ Cardinality(Paid) = 1
        BY <3>3, FS_EmptySet, FS_Singleton
      <3> QED
        BY <3>2, <3>4
    <2> QED
      BY <2>2, <2>3 DEF PaidAtMostOnce
  <1> QED
    BY <1>1, IdentityInvariance, PTL

\* In continuous mode no record of an identity that runs only once stops the
\* rollover, whatever crash split the link of its tombstone from its unlink.
THEOREM RolloverNeverStuckHolds == Spec => []RolloverNeverStuck
  <1>1. Identity => RolloverNeverStuck
    <2> SUFFICES ASSUME Identity, Continuous, NEW j \in Jobs, Wedging(j), ~DeepRetryable(j)
                 PROVE  FALSE
      BY DEF RolloverNeverStuck
    <2>1. StateIn(history, j) \in Terminal /\ ~(journal[j] = history[j] /\ Tombstoned(j))
      BY DEF Wedging, Conflicts, DueJobs, Due
    <2>2. history[j] # None
      BY <2>1 DEF StateIn, Terminal
    <2>3. OnceInv(j)
      BY DEF Identity, JobInv
    <2> QED
      BY <2>1, <2>2, <2>3 DEF OnceInv, Tombstoned
  <1> QED
    BY <1>1, IdentityInvariance, PTL

\* Only Infer sends a model request.
LEMMA OnlyInferCalls ==
  ASSUME [Next]_vars
  PROVE  calls' = calls \/ \E c \in Consumers : Infer(c)
  <1>1. ASSUME NEW c \in Consumers, Work(c) PROVE calls' = calls \/ Infer(c)
    BY <1>1 DEF Work, Take, LaneTake, Start, Fail, CompleteLocally, BeginCallback, Post,
       PostAccepted, PostUncertain, HandleUnsafe, HandleFailed, HandleOnDemand, Decided, ghosts
  <1>2. ASSUME NEW q \in inflight,
               Dismiss(q) \/ Admit(q) \/ AdmitRefused(q) \/ AdmitWedged(q)
        PROVE  calls' = calls
    BY <1>2 DEF Dismiss, Admit, AdmitRefused, AdmitWedged, ghosts
  <1>3. ASSUME NEW j \in Jobs, (\E fp \in Fps : Request(j, fp)) \/ Age(j) \/ ExpireReservation(j)
        PROVE  calls' = calls
    BY <1>3 DEF Request, Age, ExpireReservation, ghosts
  <1>4. CASE Boot \/ Drain \/ Stop \/ Crash \/ CrashInArchive \/ Maintain \/ UNCHANGED vars
    BY <1>4 DEF Boot, Drain, Stop, Crash, CrashInArchive, Maintain, vars, ghosts
  <1> QED
    BY <1>1, <1>2, <1>3, <1>4 DEF Next

\* A model request whose outcome is on no disk is never sent a second time.
THEOREM NoReplayUndecidedHolds == Spec => NoReplayUndecided
  <1>1. IInv /\ Identity /\ [Next]_vars
          => [\A j \in Jobs : calls'[j] # calls[j] => j \notin undecided]_vars
    <2> SUFFICES ASSUME IInv, Identity, [Next]_vars, NEW j \in Jobs, calls'[j] # calls[j]
                 PROVE  j \notin undecided
      OBVIOUS
    <2>1. PICK c \in Consumers : Infer(c)
      BY OnlyInferCalls
    <2>2. cons[c].pc = "executing" /\ cons[c].pc \in Busy
      BY <2>1 DEF Infer, Busy, Phases
    <2>3. j = JobOf(c)
      BY <2>1 DEF Infer, IInv, TypeOK
    <2>4. JobInv(j) /\ Ahead(j)
      BY <2>2, <2>3, BusyFacts DEF Ahead
    <2> QED
      BY <2>4 DEF JobInv, UndecidedInv
  <1> QED
    BY <1>1, IdentityInvariance, PTL DEF Spec, NoReplayUndecided

-------------------------------------------------------------------------------
(* The ledger.                                                                 *)

\* The jobs of the ledger, and those that will need an entry in it.
Accepted == Known(history) \cup Known(pend)
LedgerInv ==
    /\ IsFiniteSet(Known(journal)) /\ IsFiniteSet(Accepted)
    /\ LedgerBound

LEMMA LedgerStep ==
  ASSUME LedgerInv, Identity', IsFiniteSet(Known(journal)'), IsFiniteSet(Accepted'),
         Cardinality(Accepted') <= MAX_JOBS,
         ~Up' => Known(journal)' \subseteq Known(journal) /\ (faults' = 0 => faults = 0)
  PROVE  LedgerInv'
  <1>1. ASSUME faults' = 0 PROVE Cardinality(Known(journal)') <= MAX_JOBS
    <2>1. CASE Up'
      <3>1. Known(journal)' \subseteq Accepted'
        BY <1>1, <2>1 DEF Identity, JobInv, FaultInv, Known, Accepted
      <3>2. /\ Cardinality(Known(journal)') \in Nat /\ Cardinality(Accepted') \in Nat
            /\ Cardinality(Known(journal)') <= Cardinality(Accepted')
        BY <3>1, FS_Subset, FS_CardinalityType
      <3> QED
        BY <3>2, BoundsAssumption
    <2>2. CASE ~Up'
      <3>1. Known(journal)' \subseteq Known(journal) /\ Cardinality(Known(journal)) <= MAX_JOBS
        BY <1>1, <2>2 DEF LedgerInv, LedgerBound
      <3>2. /\ Cardinality(Known(journal)') \in Nat /\ Cardinality(Known(journal)) \in Nat
            /\ Cardinality(Known(journal)') <= Cardinality(Known(journal))
        BY <3>1, FS_Subset, FS_CardinalityType DEF LedgerInv
      <3> QED
        BY <3>1, <3>2, BoundsAssumption
    <2> QED
      BY <2>1, <2>2
  <1> QED
    BY <1>1 DEF LedgerInv, LedgerBound, Accepted

\* A step that accepts no job.
LEMMA LedgerKept ==
  ASSUME LedgerInv, Identity', NEW j,
         \A k \in Jobs : history'[k] # None => history[k] # None \/ pend[k] # None,
         \A k \in Jobs : pend'[k] # None => pend[k] # None,
         \A k \in Jobs : k # j /\ journal'[k] # None => journal[k] # None,
         ~Up' => /\ \A k \in Jobs : journal'[k] # None => journal[k] # None
                 /\ faults' = 0 => faults = 0
  PROVE  LedgerInv'
  <1>1. Accepted' \subseteq Accepted
    BY DEF Accepted, Known
  <1>2. /\ IsFiniteSet(Accepted') /\ Cardinality(Accepted') \in Nat
        /\ Cardinality(Accepted) \in Nat /\ Cardinality(Accepted') <= Cardinality(Accepted)
    BY <1>1, FS_Subset, FS_CardinalityType DEF LedgerInv
  <1>3. Cardinality(Accepted') <= MAX_JOBS
    BY <1>2, BoundsAssumption DEF LedgerInv, LedgerBound, Accepted
  <1>4. IsFiniteSet(Known(journal) \cup {j})
    BY FS_AddElement DEF LedgerInv
  <1>5. Known(journal)' \subseteq Known(journal) \cup {j}
    BY DEF Known
  <1>6. IsFiniteSet(Known(journal)')
    BY <1>4, <1>5, FS_Subset
  <1>7. ~Up' => Known(journal)' \subseteq Known(journal) /\ (faults' = 0 => faults = 0)
    BY DEF Known
  <1> QED
    BY <1>2, <1>3, <1>6, <1>7, LedgerStep

LEMMA WorkLedger ==
  ASSUME IInv, Identity, LedgerInv, Identity', NEW c \in Consumers, Work(c)
  PROVE  LedgerInv'
  <1>1. CASE cons[c].pc \notin Busy
    <2>1. journal' = journal /\ history' = history /\ pend' = pend /\ faults' = faults
      BY <1>1 DEF Work, Take, LaneTake, Start, Infer, Fail, CompleteLocally, BeginCallback, Post,
         PostAccepted, PostUncertain, HandleUnsafe, HandleFailed, HandleOnDemand, NothingSent,
         disk, Busy, Phases
    <2> QED
      BY <2>1, LedgerKept
  <1>2. CASE cons[c].pc \in Busy
    <2>1. PICK j \in Jobs : j = JobOf(c)
      BY <1>2, BusyFacts
    <2>2. /\ Up /\ pend[j] # None /\ cons[c].job \in Requests /\ j = cons[c].job[1]
      BY <1>2, <2>1, BusyFacts
    <2>3. cons[c].pc # "idle" /\ cons[c].pc # "lane"
      BY <1>2 DEF Busy
    <2>4. proc' = proc /\ Up'
      BY <2>2, <2>3 DEF Work, Take, LaneTake, Start, Infer, Fail, CompleteLocally, BeginCallback,
         Post, PostAccepted, PostUncertain, HandleUnsafe, HandleFailed, HandleOnDemand, runVars, Up
    <2>5. pend' = pend \/ pend' = [pend EXCEPT ![j] = None]
      BY <2>1, <2>3 DEF Work, Take, LaneTake, Start, Infer, Fail, CompleteLocally, Complete,
         BeginCallback, Post, PostAccepted, PostUncertain, HandleUnsafe, HandleFailed,
         HandleOnDemand, Finish
    <2>6. \/ journal' = journal /\ history' = history
          \/ \E s \in States : Recorded(cons[c].job, s) \/ RecordRaised(cons[c].job, s)
      BY <2>3 DEF Work, Take, LaneTake, Start, Infer, Fail, CompleteLocally, Complete,
         BeginCallback, Post, PostAccepted, PostUncertain, HandleUnsafe, HandleFailed,
         HandleOnDemand, States
    <2>7. \A k \in Jobs : k # j => journal'[k] = journal[k] /\ history'[k] = history[k]
      BY <2>2, <2>6, RecordedJob, RaisedJob DEF IInv
    <2>8. \A k \in Jobs : history'[k] # None => history[k] # None \/ pend[k] # None
      BY <2>2, <2>7
    <2>9. \A k \in Jobs : pend'[k] # None => pend[k] # None
      BY <2>5 DEF IInv, TypeOK
    <2>10. \A k \in Jobs : k # j /\ journal'[k] # None => journal[k] # None
      BY <2>7
    <2> QED
      BY <2>4, <2>8, <2>9, <2>10, LedgerKept
  <1> QED
    BY <1>1, <1>2

LEMMA AdmitLedger ==
  ASSUME IInv, Identity, LedgerInv, Identity', NEW q \in inflight, Admit(q)
  PROVE  LedgerInv'
  <1>1. PICK j \in Jobs : j = q[1]
    BY DEF IInv, TypeOK, Requests
  <1>2. /\ Archive(DueJobs) /\ HasRoom(j) /\ pend' = [pend EXCEPT ![j] = q[2]]
        /\ Up' /\ q[2] # None
    BY <1>1, NoneAssumption DEF Admit, Up, IInv, TypeOK, Requests
  <1>3. /\ \A k \in Jobs : history'[k] # None => history[k] # None
        /\ \A k \in Jobs : journal'[k] # None => journal[k] # None
    BY <1>2 DEF Archive
  <1> DEFINE kept == Known(history)' \cup Known(pend)
  <1>4. Accepted' = kept \cup {j}
    BY <1>2 DEF Accepted, Known, IInv, TypeOK
  <1>5. kept \subseteq Accepted
    BY <1>3 DEF Accepted, Known
  <1>6. /\ IsFiniteSet(kept) /\ Cardinality(kept) \in Nat
        /\ Cardinality(Accepted) \in Nat /\ Cardinality(kept) <= Cardinality(Accepted)
    BY <1>5, FS_Subset, FS_CardinalityType DEF LedgerInv
  <1>7. Cardinality(Accepted) <= MAX_JOBS
    BY DEF LedgerInv, LedgerBound, Accepted
  <1>8. j \in kept \/ Cardinality(kept) < MAX_JOBS
    <2>1. CASE history'[j] # None
      BY <2>1 DEF Known
    <2>2. CASE Cardinality(Known(history') \cup Known(pend)) < MAX_JOBS
      <3>1. Known(history') = Known(history)'
        BY DEF Known
      <3> QED
        BY <2>2, <3>1
    <2> QED
      BY <1>2, <2>1, <2>2 DEF HasRoom
  <1> HIDE DEF kept
  <1>9. /\ IsFiniteSet(kept \cup {j})
        /\ Cardinality(kept \cup {j}) = IF j \in kept THEN Cardinality(kept)
                                        ELSE Cardinality(kept) + 1
    BY <1>6, FS_AddElement, Zenon
  <1>10. Cardinality(kept \cup {j}) <= MAX_JOBS
    BY <1>6, <1>7, <1>8, <1>9, BoundsAssumption
  <1>11. IsFiniteSet(Known(journal)')
    <2>1. Known(journal)' \subseteq Known(journal)
      BY <1>3 DEF Known
    <2> QED
      BY <2>1, FS_Subset DEF LedgerInv
  <1> QED
    BY <1>2, <1>4, <1>9, <1>10, <1>11, LedgerStep

LEMMA BootLedger ==
  ASSUME IInv, Identity, LedgerInv, Identity', Boot
  PROVE  LedgerInv'
  <1>1. /\ Up' /\ pend' = NoJobs
        /\ \A k \in Jobs : journal'[k] # None => journal[k] # None
        /\ \A k \in Jobs : history'[k] # None => journal[k] # None
        /\ Cardinality(Known(journal)) <= MAX_JOBS
    BY DEF Boot, Up, Identity, DownInv
  <1>2. Known(journal)' \subseteq Known(journal) /\ Accepted' \subseteq Known(journal)
    BY <1>1 DEF Known, Accepted, NoJobs
  <1>3. /\ IsFiniteSet(Known(journal)') /\ IsFiniteSet(Accepted')
        /\ Cardinality(Accepted') \in Nat /\ Cardinality(Known(journal)) \in Nat
        /\ Cardinality(Accepted') <= Cardinality(Known(journal))
    BY <1>2, FS_Subset, FS_CardinalityType DEF LedgerInv
  <1>4. Cardinality(Accepted') <= MAX_JOBS
    BY <1>1, <1>3, BoundsAssumption
  <1> QED
    BY <1>1, <1>3, <1>4, LedgerStep

\* The end of the process adds no file: a callback on its way has its record.
LEMMA EndLedger ==
  ASSUME IInv, Identity, LedgerInv, Identity', Stop \/ Crash \/ CrashInArchive
  PROVE  LedgerInv'
  <1>1. faults' = faults /\ Forget
    BY DEF Stop, Crash, CrashInArchive
  <1>2. \A k \in Jobs : history'[k] = None /\ pend'[k] = None
    BY <1>1, ForgetPlaces
  <1>3. ASSUME NEW k \in Jobs, journal'[k] # None PROVE journal[k] # None
    <2>1. CASE Crash \/ CrashInArchive
      BY <1>3, <2>1 DEF Crash, CrashInArchive, disk
    <2>2. CASE Stop /\ ~\E q \in Sending : q[1] = k
      BY <1>3, <2>2 DEF Stop
    <2>3. CASE \E q \in Sending : q[1] = k
      <3>1. PICK c \in Consumers : cons[c].pc \in {"sending", "posted"} /\ cons[c].job[1] = k
        BY <2>3 DEF Sending
      <3>2. cons[c].pc \in Busy
        BY <3>1 DEF Busy, Phases
      <3>3. JobInv(k) /\ Stage[k] = {cons[c].pc}
        BY <3>1, <3>2, BusyFacts DEF JobOf
      <3> QED
        BY <3>1, <3>3 DEF JobInv, StageInv, Agreed, StateIn
    <2> QED
      BY <2>1, <2>2, <2>3
  <1> QED
    BY <1>1, <1>2, <1>3, LedgerKept

LEMMA OtherLedger ==
  ASSUME LedgerInv, Identity',
         \/ \E j \in Jobs : (\E fp \in Fps : Request(j, fp)) \/ Age(j) \/ ExpireReservation(j)
         \/ \E q \in inflight : Dismiss(q) \/ AdmitRefused(q) \/ AdmitWedged(q)
         \/ Drain \/ Maintain \/ UNCHANGED vars
  PROVE  LedgerInv'
  <1>1. pend' = pend /\ faults' = faults
    BY DEF Request, Age, ExpireReservation, Dismiss, AdmitRefused, AdmitWedged, Drain, Maintain,
       vars, memory
  <1>2. \/ journal' = journal /\ history' = history
        \/ \E S \in SUBSET Jobs : Archive(S)
    <2>1. DueJobs \in SUBSET Jobs
      BY DEF DueJobs
    <2> QED
      BY <2>1 DEF Request, Age, ExpireReservation, Dismiss, AdmitRefused, AdmitWedged, Drain,
         Maintain, vars, memory, disk
  <1>3. \A k \in Jobs : /\ journal'[k] # None => journal[k] # None
                        /\ history'[k] # None => history[k] # None
    BY <1>2 DEF Archive
  <1> QED
    BY <1>1, <1>3, LedgerKept

LEMMA InitLedger == Init => LedgerInv
  <1> SUFFICES ASSUME Init PROVE LedgerInv
    OBVIOUS
  <1>1. Known(journal) = {} /\ Accepted = {}
    BY DEF Init, NoJobs, Known, Accepted
  <1>2. IsFiniteSet({}) /\ Cardinality({}) = 0
    BY FS_EmptySet
  <1> QED
    BY <1>1, <1>2, BoundsAssumption DEF LedgerInv, LedgerBound, Accepted

LEMMA StepLedger == IInv /\ Identity /\ LedgerInv /\ [Next]_vars => LedgerInv'
  <1> SUFFICES ASSUME IInv, Identity, LedgerInv, [Next]_vars PROVE LedgerInv'
    OBVIOUS
  <1>1. Identity'
    BY StepIdentity
  <1> QED
    BY <1>1, WorkLedger, AdmitLedger, BootLedger, EndLedger, OtherLedger DEF Next

\* Accepted jobs never need more entries than the ledger has, and as long as no
\* write has failed a restart can load the journal.
THEOREM LedgerBoundHolds == Spec => []LedgerBound
  <1>1. Spec => []LedgerInv
    BY IdentityInvariance, InitLedger, StepLedger, PTL DEF Spec
  <1>2. LedgerInv => LedgerBound
    BY DEF LedgerInv
  <1> QED
    BY <1>1, <1>2, PTL
-------------------------------------------------------------------------------
(* How far DueRecordsLeave is from holding.  It fails when a job that may run  *)
(* again is accepted although it has a tombstone, or is given one while it     *)
(* waits: what its next run records differs from the tombstone.  As long as    *)
(* that does not happen, and no write has failed, every due record leaves, in  *)
(* every mode and for every operation.                                         *)

\* No accepted job has a tombstone, or gets one.
AcceptedUnarchived == \A j \in Jobs : pend[j] # None => archive[j] = None

\* A tombstone is all there is of a job, or its record is the same still.
TombstoneInv ==
    \A j \in Jobs : archive[j] # None =>
        journal[j] \in {None, archive[j]} /\ history[j] \in {None, archive[j]}

\* A step of a consumer writes at most the record of the job it runs.
LEMMA WorkWrites ==
  ASSUME IInv, Identity, NEW c \in Consumers, Work(c), NEW k \in Jobs, pend[k] = None
  PROVE  journal'[k] = journal[k] /\ history'[k] = history[k] /\ archive'[k] = archive[k]
  <1>1. archive' = archive
    BY DEF Work, Take, LaneTake, Start, Infer, Fail, CompleteLocally, BeginCallback, Post,
       PostAccepted, PostUncertain, HandleUnsafe, HandleFailed, HandleOnDemand, runVars, disk
  <1>2. CASE cons[c].pc \notin Busy
    <2>1. journal' = journal /\ history' = history
      BY <1>2 DEF Work, Take, LaneTake, Start, Infer, Fail, CompleteLocally, BeginCallback, Post,
         PostAccepted, PostUncertain, HandleUnsafe, HandleFailed, HandleOnDemand, NothingSent,
         disk, Busy, Phases
    <2> QED
      BY <1>1, <2>1
  <1>3. CASE cons[c].pc \in Busy
    <2>1. cons[c].job \in Requests /\ k # cons[c].job[1]
      BY <1>3, BusyFacts
    <2>2. cons[c].pc # "idle" /\ cons[c].pc # "lane"
      BY <1>3 DEF Busy
    <2>3. \/ journal' = journal /\ history' = history
          \/ \E s \in States : Recorded(cons[c].job, s) \/ RecordRaised(cons[c].job, s)
      BY <2>2 DEF Work, Take, LaneTake, Start, Infer, Fail, CompleteLocally, Complete,
         BeginCallback, Post, PostAccepted, PostUncertain, HandleUnsafe, HandleFailed,
         HandleOnDemand, States
    <2> QED
      BY <1>1, <2>1, <2>3, RecordedJob, RaisedJob DEF IInv
  <1> QED
    BY <1>2, <1>3

\* The end of the process writes at most the records of accepted jobs.
LEMMA EndWrites ==
  ASSUME IInv, Identity, Stop \/ Crash, NEW k \in Jobs, pend[k] = None
  PROVE  journal'[k] = journal[k] /\ history'[k] = None /\ archive'[k] = archive[k]
  <1>1. history'[k] = None /\ archive'[k] = archive[k]
    BY DEF Stop, Crash, Forget, NoJobs, disk
  <1>2. ASSUME NEW q \in Sending PROVE q[1] # k
    <2>1. PICK c \in Consumers : cons[c].pc \in {"sending", "posted"} /\ q = cons[c].job
      BY DEF Sending
    <2>2. cons[c].pc \in Busy
      BY <2>1 DEF Busy, Phases
    <2> QED
      BY <2>1, <2>2, BusyFacts
  <1>3. journal'[k] = journal[k]
    BY <1>2 DEF Stop, Crash, disk
  <1> QED
    BY <1>1, <1>3

LEMMA StepTombstone ==
  ASSUME IInv, Identity, TombstoneInv, AcceptedUnarchived, [Next]_vars
  PROVE  TombstoneInv'
  <1> DEFINE Told(k) == archive[k] # None =>
                 journal[k] \in {None, archive[k]} /\ history[k] \in {None, archive[k]}
  <1> SUFFICES ASSUME NEW k \in Jobs PROVE Told(k)'
    BY DEF TombstoneInv
  <1>1. Told(k) /\ (pend[k] # None => archive[k] = None)
    BY DEF TombstoneInv, AcceptedUnarchived
  <1>2. ASSUME NEW c \in Consumers, Work(c) PROVE Told(k)'
    <2>1. CASE pend[k] = None
      BY <1>1, <1>2, <2>1, WorkWrites
    <2>2. CASE pend[k] # None
      <3>1. archive' = archive
        BY <1>2 DEF Work, Take, LaneTake, Start, Infer, Fail, CompleteLocally, BeginCallback, Post,
           PostAccepted, PostUncertain, HandleUnsafe, HandleFailed, HandleOnDemand, runVars, disk
      <3> QED
        BY <1>1, <2>2, <3>1
    <2> QED
      BY <2>1, <2>2
  <1>3. ASSUME NEW S \in SUBSET (DueJobs \ Conflicts), Archive(S) PROVE Told(k)'
    BY <1>1, <1>3 DEF Archive
  <1>4. ASSUME NEW q \in inflight, Dismiss(q) \/ Admit(q) \/ AdmitRefused(q) \/ AdmitWedged(q)
        PROVE  Told(k)'
    <2>1. CASE Dismiss(q)
      BY <1>1, <2>1 DEF Dismiss, disk
    <2>2. CASE Admit(q) \/ AdmitRefused(q)
      <3>1. Archive(DueJobs) /\ Conflicts = {}
        BY <2>2 DEF Admit, AdmitRefused
      <3>2. DueJobs \in SUBSET (DueJobs \ Conflicts)
        BY <3>1
      <3> QED
        BY <1>3, <3>1, <3>2
    <2>3. CASE AdmitWedged(q)
      BY <1>3, <2>3 DEF AdmitWedged
    <2> QED
      BY <1>4, <2>1, <2>2, <2>3
  <1>5. ASSUME NEW j \in Jobs, (\E fp \in Fps : Request(j, fp)) \/ Age(j) \/ ExpireReservation(j)
        PROVE  Told(k)'
    BY <1>1, <1>5 DEF Request, Age, ExpireReservation, disk, memory
  <1>6. CASE Boot
    <2> DEFINE due == {j \in old : StateIn(journal, j) \in Terminal}
    <2>1. /\ archive'[k] = IF k \in due THEN journal[k] ELSE archive[k]
          /\ journal'[k] = IF k \in due THEN None ELSE journal[k]
          /\ history'[k] = IF k \in due THEN None ELSE journal[k]
      BY <1>6 DEF Boot
    <2> HIDE DEF due
    <2> QED
      BY <1>1, <2>1
  <1>7. CASE Stop \/ Crash
    <2>1. CASE pend[k] = None
      BY <1>1, <1>7, <2>1, EndWrites
    <2>2. CASE pend[k] # None
      <3>1. archive' = archive
        BY <1>7 DEF Stop, Crash, disk
      <3> QED
        BY <1>1, <2>2, <3>1
    <2> QED
      BY <2>1, <2>2
  <1>8. CASE CrashInArchive
    <2>1. PICK j \in DueJobs \ Conflicts : archive' = [archive EXCEPT ![j] = history[j]]
      BY <1>8 DEF CrashInArchive
    <2>2. /\ archive'[k] = archive[k] \/ archive'[k] = journal[k]
          /\ journal'[k] = journal[k] /\ history'[k] = None
      BY <1>8, <2>1 DEF CrashInArchive, Forget, NoJobs, DueJobs, Conflicts, IInv, TypeOK
    <2> QED
      BY <1>1, <2>2
  <1>9. CASE Drain \/ Maintain \/ UNCHANGED vars
    BY <1>1, <1>9 DEF Drain, Maintain, vars, disk, memory
  <1> QED
    BY <1>2, <1>4, <1>5, <1>6, <1>7, <1>8, <1>9 DEF Next

\* "Every other completed record leaves after a day ... otherwise the ledger
\* fills and all admission stops" (worker.py rollover_due), as long as no
\* accepted job has a tombstone and no journal write has failed.
THEOREM DueRecordsLeaveUnarchived ==
  Spec /\ []AcceptedUnarchived => [](faults = 0 => DueRecordsLeave)
  <1>1. Init => TombstoneInv
    BY DEF Init, NoJobs, TombstoneInv
  <1>2. IInv /\ Identity /\ TombstoneInv => (faults = 0 => DueRecordsLeave)
    <2> SUFFICES ASSUME Identity, TombstoneInv, faults = 0, NEW j \in Jobs, Wedging(j)
                 PROVE  FALSE
      BY DEF DueRecordsLeave
    <2>1. StateIn(history, j) \in Terminal /\ ~(journal[j] = history[j] /\ Tombstoned(j))
      BY DEF Wedging, Conflicts, DueJobs, Due
    <2>2. history[j] # None
      BY <2>1 DEF StateIn, Terminal
    <2>3. Up
      BY <2>2 DEF Identity, DownInv, NoJobs
    <2>4. journal[j] = history[j]
      BY <2>3 DEF Identity, JobInv, FaultInv
    <2> QED
      BY <2>1, <2>2, <2>4 DEF TombstoneInv, Tombstoned
  <1> QED
    BY <1>1, <1>2, StepTombstone, IdentityInvariance, PTL DEF Spec
===============================================================================

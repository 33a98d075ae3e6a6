---------------------------- MODULE ScheduleProofs ----------------------------
(***************************************************************************)
(* Time is cut into intervals that are counted once, an acquisition has    *)
(* one job which one occurrence follows, a page is continued once, and an  *)
(* occurrence reads its provider within the budget: for any number of      *)
(* schedules, of any intervals, and of occurrences, failures, commands and *)
(* ends of the process.                                                    *)
(***************************************************************************)
EXTENDS Schedules, FiniteSetTheorems, SequenceTheorems, TLAPS

OccurrenceStatus == {"pending", "retry_wait", "waiting_auth", "blocked", "linked"} \cup Settled
AcquisitionStatus == {"none", "collected", "partial", "retry_wait", "waiting_auth", "failed", "collecting"}
Occurrence ==
    [schedule : Scheduled, for : Nat, at : Nat, missed : Nat, acquisition : AcquisitionId,
     continues : AcquisitionId \cup {0}, job : Nat, status : OccurrenceStatus, wait : Nat, attempts : Nat]
Acquisition == [status : AcquisitionStatus, parent : AcquisitionId \cup {0}, more : BOOLEAN, wait : Nat, job : Nat]
Admission == [acquisition : AcquisitionId, state : {"open", "available", "stopped"}]
WriteToCome == {"check", "read", "queue", "note", "link"}

ScheduleTypes ==
    /\ clock \in Nat /\ dueAt \in [Scheduled -> Nat]
    /\ occurrences \in Seq(Occurrence) /\ Len(occurrences) <= OccurrenceBound
    /\ acquired \in [AcquisitionId -> Acquisition]
    /\ admitted \in Seq(Admission)
    /\ reads \in [Reserved -> Nat]
    /\ step \in [at : {"none"} \cup WriteToCome, of : Nat, reads : AcquisitionId \cup {0}]

\* An acquisition has one job, which it and the occurrence that is linked to it name.
JobsInv ==
    /\ \A i, k \in DOMAIN admitted : admitted[i].acquisition = admitted[k].acquisition => i = k
    /\ \A a \in AcquisitionId : acquired[a].job # 0 => acquired[a].job \in JobsOf(a)
    /\ \A o \in DOMAIN occurrences :
          occurrences[o].job # 0 => occurrences[o].job \in JobsOf(occurrences[o].acquisition)
    /\ \A o, p \in DOMAIN occurrences :
          o # p /\ occurrences[o].job # 0 => occurrences[o].job # occurrences[p].job

\* Acquisition a is the one reserved for occurrence o, or continues the page o goes on from.
Owned(o, a) == a = o \/ (occurrences[o].continues # 0 /\ acquired[a].parent = occurrences[o].continues)

\* Occurrence r is the last one of its schedule before o.
Precedes(r, o) ==
    /\ r < o /\ occurrences[r].schedule = occurrences[o].schedule
    /\ \A q \in DOMAIN occurrences : r < q /\ q < o => occurrences[q].schedule # occurrences[o].schedule

\* An occurrence has an acquisition of its own.
OwnInv == \A o \in DOMAIN occurrences : Owned(o, occurrences[o].acquisition)

\* A page is continued by one acquisition.
ParentInv ==
    /\ \A a, b \in AcquisitionId : a # b /\ acquired[a].parent # 0 => acquired[a].parent # acquired[b].parent
    /\ \A a \in Reserved : acquired[a].parent # 0 =>
          a \in DOMAIN occurrences /\ acquired[a].parent = occurrences[a].continues

\* A page is continued by the occurrence that follows the one that left it.
PriorInv ==
    \A o \in DOMAIN occurrences : occurrences[o].continues # 0 =>
        /\ occurrences[o].schedule \notin JiraSchedule
        /\ \E r \in DOMAIN occurrences :
              Precedes(r, o) /\ occurrences[r].job # 0 /\ occurrences[r].acquisition = occurrences[o].continues

\* What is collected is the last occurrence of its schedule, which has no job yet.
WriteInv ==
    IF step.at = "none" THEN step = Resting
    ELSE /\ step.of \in DOMAIN occurrences
         /\ occurrences[step.of].job = 0 /\ occurrences[step.of].status \notin Settled
         /\ \A p \in DOMAIN occurrences :
               p > step.of => occurrences[p].schedule # occurrences[step.of].schedule
         /\ step.reads \in AcquisitionId /\ Owned(step.of, step.reads)
         /\ step.at \in {"note", "link"} => JobsOf(step.reads) # {}

\* The occurrences of a schedule cut time without a gap: each ends where the next begins, and
\* the last one where the next is due.
GridInv ==
    \A s \in Scheduled : \A o \in OfSchedule(s) :
        LET end == occurrences[o].for + (1 + occurrences[o].missed) * Interval[s]
        IN  /\ occurrences[o].for <= occurrences[o].at /\ occurrences[o].at < end
            /\ \/ (\A p \in OfSchedule(s) : p <= o) /\ dueAt[s] = end
               \/ \E p \in OfSchedule(s) :
                     p > o /\ (\A q \in OfSchedule(s) : q > o => p <= q) /\ occurrences[p].for = end

\* Each schedule has a last occurrence, and those before it are settled.
OrderInv ==
    /\ \A s \in Scheduled : OfSchedule(s) # {} => \E m \in OfSchedule(s) : \A o \in OfSchedule(s) : o <= m
    /\ \A o, p \in DOMAIN occurrences :
          o < p /\ occurrences[o].schedule = occurrences[p].schedule => occurrences[o].status \in Settled

\* Each read was paid for by an attempt within the budget.
BudgetInv ==
    \A o \in Reserved :
        /\ o \notin DOMAIN occurrences => reads[o] = 0
        /\ o \in DOMAIN occurrences =>
              /\ reads[o] <= occurrences[o].attempts /\ occurrences[o].attempts <= CollectionBudget
              /\ step.at = "read" /\ step.of = o => reads[o] < occurrences[o].attempts

ScheduleInv ==
    ScheduleTypes /\ JobsInv /\ OwnInv /\ ParentInv /\ PriorInv /\ WriteInv /\ GridInv /\ OrderInv /\ BudgetInv

\* What putting an element in a sequence, or at its end, leaves of it.
LEMMA PutIn ==
    ASSUME NEW S, NEW q \in Seq(S), NEW i \in DOMAIN q, NEW x \in S
    PROVE  /\ [q EXCEPT ![i] = x] \in Seq(S) /\ Len([q EXCEPT ![i] = x]) = Len(q)
           /\ DOMAIN [q EXCEPT ![i] = x] = DOMAIN q
           /\ \A k \in DOMAIN q : [q EXCEPT ![i] = x][k] = IF k = i THEN x ELSE q[k]
BY ExceptSeq, LenProperties

LEMMA Added ==
    ASSUME NEW S, NEW q \in Seq(S), NEW x \in S
    PROVE  /\ Append(q, x) \in Seq(S) /\ Len(Append(q, x)) = Len(q) + 1
           /\ DOMAIN Append(q, x) = DOMAIN q \cup {Len(q) + 1} /\ Len(q) \in Nat /\ DOMAIN q = 1..Len(q)
           /\ \A k \in DOMAIN q : Append(q, x)[k] = q[k]
           /\ Append(q, x)[Len(q) + 1] = x
BY AppendProperties, LenProperties

\* The greatest and the least element of a set are what Max and Min return.
LEMMA GreatestIs ==
    ASSUME NEW S \in SUBSET Nat, NEW m \in S, \A k \in S : k <= m
    PROVE  Max(S) = m
<1>1. \A x \in S : (\A y \in S : x >= y) => x = m
  OBVIOUS
<1>2. \A y \in S : m >= y
  OBVIOUS
<1> QED BY <1>1, <1>2 DEF Max

LEMMA LeastIs ==
    ASSUME NEW S \in SUBSET Nat, NEW m \in S, \A k \in S : m <= k
    PROVE  Min(S) = m
<1>1. \A x \in S : (\A y \in S : x <= y) => x = m
  OBVIOUS
<1>2. \A y \in S : m <= y
  OBVIOUS
<1> QED BY <1>1, <1>2 DEF Min

\* The next point of a grid lies beyond any point that is reached.
LEMMA Interleaved ==
    ASSUME NEW x \in Nat, NEW n \in Nat \ {0}
    PROVE  x \div n \in Nat /\ x < (x \div n + 1) * n
BY Z3

\* What most steps leave of the table: which intervals the occurrences stand for, what is
\* linked and what is settled.
TableKept ==
    /\ Len(occurrences') = Len(occurrences) /\ dueAt' = dueAt
    /\ \A o \in DOMAIN occurrences :
          /\ occurrences'[o].schedule = occurrences[o].schedule
          /\ occurrences'[o].for = occurrences[o].for /\ occurrences'[o].at = occurrences[o].at
          /\ occurrences'[o].missed = occurrences[o].missed
          /\ occurrences'[o].continues = occurrences[o].continues
          /\ occurrences[o].job # 0 => /\ occurrences'[o].job = occurrences[o].job
                                       /\ occurrences'[o].acquisition = occurrences[o].acquisition
          /\ occurrences[o].status \in Settled => occurrences'[o].status \in Settled

ParentsStay == \A a \in AcquisitionId : acquired[a].parent # 0 => acquired'[a].parent = acquired[a].parent

\* The numbers of occurrences, acquisitions and jobs.
LEMMA Numbers ==
    ASSUME ScheduleTypes
    PROVE  /\ DOMAIN occurrences = 1..Len(occurrences) /\ Len(occurrences) \in Nat
           /\ DOMAIN occurrences \subseteq Reserved /\ DOMAIN occurrences \subseteq Nat
           /\ Reserved \subseteq AcquisitionId /\ AcquisitionId \subseteq Nat \ {0} /\ ByPerson \in AcquisitionId
           /\ ByPerson \notin Reserved
           /\ DOMAIN admitted = 1..Len(admitted) /\ Len(admitted) \in Nat
           /\ \A s \in Scheduled : OfSchedule(s) \subseteq Nat /\ OfSchedule(s) \subseteq DOMAIN occurrences
           /\ \A a : JobsOf(a) \subseteq Nat \ {0} /\ JobsOf(a) \subseteq DOMAIN admitted
           /\ \A o \in DOMAIN occurrences : occurrences[o] \in Occurrence
           /\ \A j \in DOMAIN admitted : admitted[j] \in Admission
<1>1. OccurrenceBound \in Nat
  BY ScheduleAssumption
<1>2. /\ DOMAIN occurrences = 1..Len(occurrences) /\ Len(occurrences) \in Nat
      /\ DOMAIN admitted = 1..Len(admitted) /\ Len(admitted) \in Nat
      /\ \A o \in DOMAIN occurrences : occurrences[o] \in Occurrence
      /\ \A j \in DOMAIN admitted : admitted[j] \in Admission
      /\ Len(occurrences) <= OccurrenceBound
  BY LenProperties, ElementOfSeq DEF ScheduleTypes
<1>3. /\ \A s \in Scheduled : OfSchedule(s) \subseteq DOMAIN occurrences
      /\ \A a : JobsOf(a) \subseteq DOMAIN admitted
  BY DEF OfSchedule, JobsOf
<1>4. /\ DOMAIN occurrences \subseteq Reserved /\ DOMAIN occurrences \subseteq Nat
      /\ DOMAIN admitted \subseteq Nat \ {0}
  BY <1>1, <1>2 DEF Reserved
<1>5. Reserved \subseteq AcquisitionId /\ AcquisitionId \subseteq Nat \ {0} /\ ByPerson \in AcquisitionId /\ ByPerson \notin Reserved
  BY <1>1 DEF Reserved, AcquisitionId, ByPerson
<1> QED BY <1>2, <1>3, <1>4, <1>5

\* A table that is kept keeps its grid and its order.
LEMMA GridStays ==
    ASSUME ScheduleTypes, ScheduleTypes', GridInv, OrderInv, PriorInv, TableKept
    PROVE  GridInv' /\ OrderInv' /\ PriorInv'
<1>1. DOMAIN occurrences' = DOMAIN occurrences /\ DOMAIN occurrences \subseteq Nat
  BY Numbers, LenProperties DEF TableKept, ScheduleTypes
<1>2. \A s \in Scheduled : OfSchedule(s)' = OfSchedule(s)
  BY <1>1 DEF TableKept, OfSchedule
<1>3. GridInv'
  <2> SUFFICES ASSUME NEW s \in Scheduled, NEW o \in OfSchedule(s)
               PROVE  LET end == occurrences[o].for + (1 + occurrences[o].missed) * Interval[s]
                      IN  /\ occurrences'[o].for <= occurrences'[o].at /\ occurrences'[o].at < end
                          /\ \/ (\A p \in OfSchedule(s) : p <= o) /\ dueAt'[s] = end
                             \/ \E p \in OfSchedule(s) :
                                   p > o /\ (\A q \in OfSchedule(s) : q > o => p <= q) /\ occurrences'[p].for = end
    BY <1>2 DEF GridInv, TableKept, OfSchedule
  <2> DEFINE end == occurrences[o].for + (1 + occurrences[o].missed) * Interval[s]
  <2>1. /\ occurrences[o].for <= occurrences[o].at /\ occurrences[o].at < end
        /\ \/ (\A p \in OfSchedule(s) : p <= o) /\ dueAt[s] = end
           \/ \E p \in OfSchedule(s) :
                 p > o /\ (\A q \in OfSchedule(s) : q > o => p <= q) /\ occurrences[p].for = end
    BY DEF GridInv
  <2> HIDE DEF end
  <2>2. \A p \in OfSchedule(s) : occurrences'[p].for = occurrences[p].for /\ occurrences'[p].at = occurrences[p].at
    BY DEF TableKept, OfSchedule
  <2> QED BY <2>1, <2>2 DEF TableKept, end
<1>4. OrderInv'
  BY <1>1, <1>2 DEF OrderInv, TableKept
<1>5. PriorInv'
  <2>1. \A r, o \in DOMAIN occurrences : Precedes(r, o) => Precedes(r, o)'
    BY <1>1 DEF Precedes, TableKept
  <2> SUFFICES ASSUME NEW o \in DOMAIN occurrences, occurrences[o].continues # 0
               PROVE  /\ occurrences[o].schedule \notin JiraSchedule
                      /\ \E r \in DOMAIN occurrences : /\ Precedes(r, o)' /\ occurrences'[r].job # 0
                                                       /\ occurrences'[r].acquisition = occurrences[o].continues
    BY <1>1 DEF PriorInv, TableKept
  <2>2. PICK r \in DOMAIN occurrences : /\ Precedes(r, o) /\ occurrences[r].job # 0
                                        /\ occurrences[r].acquisition = occurrences[o].continues
    BY DEF PriorInv
  <2>3. occurrences'[r].job = occurrences[r].job /\ occurrences'[r].acquisition = occurrences[r].acquisition
    BY <2>2 DEF TableKept
  <2> QED BY <2>1, <2>2, <2>3 DEF PriorInv
<1> QED BY <1>3, <1>4, <1>5

\* No acquisition is that of two occurrences.
LEMMA OneOwner ==
    ASSUME ScheduleTypes, JobsInv, ParentInv, PriorInv,
           NEW o \in DOMAIN occurrences, NEW p \in DOMAIN occurrences, NEW a, Owned(o, a), Owned(p, a)
    PROVE  o = p
<1>1. ASSUME occurrences[o].continues # 0, occurrences[p].continues = occurrences[o].continues
      PROVE  o = p
  <2>1. PICK r \in DOMAIN occurrences : /\ Precedes(r, o) /\ occurrences[r].job # 0
                                        /\ occurrences[r].acquisition = occurrences[o].continues
    BY <1>1 DEF PriorInv
  <2>2. PICK t \in DOMAIN occurrences : /\ Precedes(t, p) /\ occurrences[t].job # 0
                                        /\ occurrences[t].acquisition = occurrences[p].continues
    BY <1>1 DEF PriorInv
  <2>3. occurrences[r].job \in JobsOf(occurrences[r].acquisition) /\ occurrences[t].job \in JobsOf(occurrences[r].acquisition)
    BY <1>1, <2>1, <2>2 DEF JobsInv
  <2>4. occurrences[r].job = occurrences[t].job
    BY <2>3 DEF JobsInv, JobsOf
  <2>5. r = t
    BY <2>1, <2>4 DEF JobsInv
  <2> QED BY <2>1, <2>2, <2>5, Numbers DEF Precedes
<1>2. ASSUME a = o, acquired[a].parent = occurrences[p].continues, occurrences[p].continues # 0
      PROVE  o = p
  BY <1>1, <1>2, Numbers DEF ParentInv
<1>3. ASSUME a = p, acquired[a].parent = occurrences[o].continues, occurrences[o].continues # 0
      PROVE  o = p
  BY <1>1, <1>3, Numbers DEF ParentInv
<1> QED BY <1>1, <1>2, <1>3 DEF Owned

\* The acquisitions of the table stay those of their occurrences.
LEMMA OwnStays ==
    ASSUME ScheduleTypes, ScheduleTypes', OwnInv, TableKept, ParentsStay,
           \A o \in DOMAIN occurrences : \/ occurrences'[o].acquisition = occurrences[o].acquisition
                                         \/ Owned(o, occurrences'[o].acquisition)
    PROVE  /\ OwnInv'
           /\ \A o \in DOMAIN occurrences, a \in AcquisitionId : Owned(o, a) => Owned(o, a)'
<1>1. DOMAIN occurrences' = DOMAIN occurrences
  BY Numbers, LenProperties DEF TableKept, ScheduleTypes
<1>2. \A o \in DOMAIN occurrences, a \in AcquisitionId : Owned(o, a) => Owned(o, a)'
  <2> SUFFICES ASSUME NEW o \in DOMAIN occurrences, NEW a \in AcquisitionId, Owned(o, a)
               PROVE  Owned(o, a)'
    OBVIOUS
  <2>1. occurrences'[o].continues = occurrences[o].continues
    BY DEF TableKept
  <2>2. acquired[a].parent # 0 => acquired'[a].parent = acquired[a].parent
    BY DEF ParentsStay
  <2> QED BY <2>1, <2>2 DEF Owned
<1>3. \A o \in DOMAIN occurrences : occurrences'[o].acquisition \in AcquisitionId
  <2>1. \A o \in DOMAIN occurrences' : occurrences'[o] \in Occurrence
    BY ElementOfSeq, LenProperties DEF ScheduleTypes
  <2> QED BY <1>1, <2>1 DEF Occurrence
<1>4. \A o \in DOMAIN occurrences : Owned(o, occurrences'[o].acquisition)
  BY DEF OwnInv
<1>5. \A o \in DOMAIN occurrences : Owned(o, occurrences[o].acquisition)'
  <2> SUFFICES ASSUME NEW o \in DOMAIN occurrences PROVE Owned(o, occurrences[o].acquisition)'
    OBVIOUS
  <2>1. PICK x : x = occurrences'[o].acquisition
    OBVIOUS
  <2>2. Owned(o, x)'
    BY <1>2, <1>3, <1>4, <2>1
  <2> QED BY <2>1, <2>2 DEF Owned
<1> QED BY <1>1, <1>2, <1>5 DEF OwnInv

\* Pages stay with the acquisitions that continue them.
LEMMA ParentsKept ==
    ASSUME ScheduleTypes, ScheduleTypes', ParentInv, TableKept,
           \A a \in AcquisitionId : acquired'[a].parent = acquired[a].parent
    PROVE  ParentInv' /\ ParentsStay
<1>1. DOMAIN occurrences' = DOMAIN occurrences
  BY Numbers, LenProperties DEF TableKept, ScheduleTypes
<1> QED BY <1>1, Numbers DEF ParentInv, TableKept, ParentsStay

\* Jobs are added for acquisitions without one, and no occurrence is linked.
JobsGrow ==
    /\ DOMAIN admitted \subseteq DOMAIN admitted'
    /\ \A j \in DOMAIN admitted : admitted'[j].acquisition = admitted[j].acquisition
    /\ \A j, k \in DOMAIN admitted' : admitted'[j].acquisition = admitted'[k].acquisition => j = k

\* Jobs stay with their acquisitions and occurrences.
LEMMA JobsStay ==
    ASSUME ScheduleTypes, ScheduleTypes', JobsInv, TableKept, JobsGrow,
           \A o \in DOMAIN occurrences : occurrences'[o].job = occurrences[o].job,
           \A a \in AcquisitionId : \/ acquired'[a].job = acquired[a].job
                                    \/ acquired'[a].job \in JobsOf(a)'
    PROVE  JobsInv' /\ \A a : JobsOf(a) \subseteq JobsOf(a)'
<1>1. DOMAIN occurrences' = DOMAIN occurrences
  BY Numbers, LenProperties DEF TableKept, ScheduleTypes
<1>2. \A a : JobsOf(a) \subseteq JobsOf(a)'
  BY DEF JobsOf, JobsGrow
<1>3. \A a \in AcquisitionId : acquired'[a].job # 0 => acquired'[a].job \in JobsOf(a)'
  BY <1>2 DEF JobsInv
<1>4. ASSUME NEW o \in DOMAIN occurrences, occurrences'[o].job # 0
      PROVE  occurrences'[o].job \in JobsOf(occurrences[o].acquisition)'
  <2>1. occurrences[o].job # 0 /\ occurrences[o].job = occurrences'[o].job /\ occurrences'[o].acquisition = occurrences[o].acquisition
    BY <1>4 DEF TableKept
  <2>2. occurrences[o].job \in DOMAIN admitted /\ admitted[occurrences[o].job].acquisition = occurrences[o].acquisition
    BY <2>1 DEF JobsInv, JobsOf
  <2> QED BY <2>1, <2>2 DEF JobsOf, JobsGrow
<1>5. \A o, p \in DOMAIN occurrences :
         o # p /\ occurrences'[o].job # 0 => occurrences'[o].job # occurrences'[p].job
  BY DEF JobsInv
<1> QED BY <1>1, <1>2, <1>3, <1>4, <1>5 DEF JobsInv, JobsGrow

LEMMA ScheduleStarts == ScheduleInit => ScheduleInv
<1> SUFFICES ASSUME ScheduleInit PROVE ScheduleInv
  OBVIOUS
<1>1. occurrences = <<>> /\ admitted = <<>> /\ DOMAIN occurrences = {} /\ DOMAIN admitted = {} /\ Len(occurrences) = 0
  BY EmptySeq DEF ScheduleInit
<1>2. OccurrenceBound \in Nat /\ Reserved \subseteq AcquisitionId /\ AcquisitionId \subseteq Nat \ {0}
  BY ScheduleAssumption DEF Reserved, AcquisitionId, ByPerson
<1>3. \A s : OfSchedule(s) = {} /\ JobsOf(s) = {}
  BY <1>1 DEF OfSchedule, JobsOf
<1>4. Unread \in Acquisition
  BY DEF Unread, Acquisition, AcquisitionStatus
<1>5. ScheduleTypes
  BY <1>1, <1>2, <1>4, ScheduleAssumption, EmptySeq DEF ScheduleInit, ScheduleTypes, Resting
<1>6. JobsInv /\ OwnInv /\ PriorInv /\ GridInv /\ OrderInv
  BY <1>1, <1>3 DEF ScheduleInit, JobsInv, OwnInv, PriorInv, GridInv, OrderInv, Unread
<1>7. ParentInv
  BY <1>2 DEF ScheduleInit, ParentInv, Unread
<1>8. WriteInv /\ BudgetInv
  BY <1>1 DEF ScheduleInit, WriteInv, BudgetInv, Resting
<1> QED BY <1>5, <1>6, <1>7, <1>8 DEF ScheduleInv

\* Time passes, a person turns a schedule off or on, or pauses the queue.
LEMMA ScheduleStutterInv ==
    ASSUME ScheduleInv, UNCHANGED <<dueAt, occurrences, acquired, admitted, step, reads>>, clock' \in Nat
    PROVE  ScheduleInv'
<1>1. UNCHANGED dueAt /\ UNCHANGED occurrences /\ UNCHANGED acquired /\ UNCHANGED admitted /\ UNCHANGED step /\ UNCHANGED reads
  OBVIOUS
<1>2. ScheduleTypes' /\ OwnInv' /\ ParentInv'
  BY <1>1 DEF ScheduleInv, ScheduleTypes, OwnInv, Owned, ParentInv
<1>3. JobsInv' /\ PriorInv'
  BY <1>1 DEF ScheduleInv, JobsInv, JobsOf, PriorInv, Precedes
<1>4. WriteInv' /\ BudgetInv'
  BY <1>1 DEF ScheduleInv, WriteInv, Owned, JobsOf, BudgetInv
<1>5. GridInv' /\ OrderInv'
  BY <1>1 DEF ScheduleInv, GridInv, OrderInv, OfSchedule
<1> QED BY <1>2, <1>3, <1>4, <1>5 DEF ScheduleInv

\* The state of a job changes.
LEMMA JobStateInv ==
    ASSUME ScheduleInv, NEW j \in DOMAIN admitted, NEW state \in {"open", "available", "stopped"},
           admitted' = [admitted EXCEPT ![j].state = state],
           UNCHANGED <<clock, dueAt, occurrences, acquired, step, reads>>
    PROVE  ScheduleInv'
<1>1. UNCHANGED clock /\ UNCHANGED dueAt /\ UNCHANGED occurrences /\ UNCHANGED acquired /\ UNCHANGED step /\ UNCHANGED reads
  OBVIOUS
<1>2. admitted[j] \in Admission /\ admitted \in Seq(Admission)
  BY Numbers DEF ScheduleInv, ScheduleTypes
<1>3. PICK x : x = [admitted[j] EXCEPT !.state = state]
  OBVIOUS
<1>4. x \in Admission /\ x.acquisition = admitted[j].acquisition /\ admitted' = [admitted EXCEPT ![j] = x]
  BY <1>2, <1>3 DEF Admission
<1>5. /\ admitted' \in Seq(Admission) /\ DOMAIN admitted' = DOMAIN admitted
      /\ \A k \in DOMAIN admitted : admitted'[k].acquisition = admitted[k].acquisition
  BY <1>2, <1>4, PutIn
<1>6. \A a : JobsOf(a)' = JobsOf(a)
  BY <1>5 DEF JobsOf
<1>7. ScheduleTypes' /\ OwnInv' /\ ParentInv'
  BY <1>1, <1>5 DEF ScheduleInv, ScheduleTypes, OwnInv, Owned, ParentInv
<1>8. JobsInv'
  <2>1. \A o \in DOMAIN occurrences : occurrences[o].job # 0 => occurrences[o].job \in JobsOf(occurrences[o].acquisition)'
    BY <1>1, <1>6 DEF ScheduleInv, JobsInv
  <2>2. \A a \in AcquisitionId : acquired[a].job # 0 => acquired[a].job \in JobsOf(a)'
    BY <1>6 DEF ScheduleInv, JobsInv
  <2>3. \A i, k \in DOMAIN admitted' : admitted'[i].acquisition = admitted'[k].acquisition => i = k
    BY <1>5 DEF ScheduleInv, JobsInv
  <2> QED BY <1>1, <2>1, <2>2, <2>3 DEF ScheduleInv, JobsInv, JobsOf
<1>9. PriorInv' /\ BudgetInv'
  BY <1>1 DEF ScheduleInv, PriorInv, Precedes, BudgetInv
<1>10. WriteInv'
  <2>1. JobsOf(step.reads)' = JobsOf(step.reads)
    BY <1>1, <1>6 DEF JobsOf
  <2> QED BY <1>1, <2>1 DEF ScheduleInv, WriteInv, Owned
<1>11. GridInv' /\ OrderInv'
  BY <1>1 DEF ScheduleInv, GridInv, OrderInv, OfSchedule
<1> QED BY <1>7, <1>8, <1>9, <1>10, <1>11 DEF ScheduleInv

\* The status of occurrences changes, of none that is settled.
LEMMA StatusesInv ==
    ASSUME ScheduleInv, TableKept, occurrences' \in Seq(Occurrence), step = Resting,
           \A o \in DOMAIN occurrences : /\ occurrences'[o].job = occurrences[o].job
                                         /\ occurrences'[o].acquisition = occurrences[o].acquisition
                                         /\ occurrences'[o].attempts = occurrences[o].attempts,
           UNCHANGED <<clock, acquired, admitted, step, reads>>
    PROVE  ScheduleInv'
<1>1. UNCHANGED clock /\ UNCHANGED acquired /\ UNCHANGED admitted /\ UNCHANGED step /\ UNCHANGED reads /\ dueAt' = dueAt
  BY DEF TableKept
<1>2. ScheduleTypes /\ ScheduleTypes' /\ DOMAIN occurrences' = DOMAIN occurrences
  BY <1>1, LenProperties DEF ScheduleInv, ScheduleTypes, TableKept
<1>3. GridInv' /\ OrderInv' /\ PriorInv'
  BY <1>2, GridStays DEF ScheduleInv
<1>4. ParentInv' /\ ParentsStay
  BY <1>1, <1>2, ParentsKept DEF ScheduleInv
<1>5. OwnInv'
  BY <1>2, <1>4, OwnStays DEF ScheduleInv
<1>6. JobsInv'
  <2>1. JobsGrow
    BY <1>1 DEF JobsGrow, ScheduleInv, JobsInv
  <2> QED BY <1>1, <1>2, <2>1, JobsStay DEF ScheduleInv
<1>7. WriteInv' /\ BudgetInv'
  BY <1>1, <1>2 DEF ScheduleInv, WriteInv, Resting, BudgetInv
<1> QED BY <1>2, <1>3, <1>4, <1>5, <1>6, <1>7 DEF ScheduleInv

\* The parts of the invariant that are about the table, the acquisitions and the jobs.
TablesInv == JobsInv /\ OwnInv /\ ParentInv /\ PriorInv /\ GridInv /\ OrderInv

LEMMA TablesGrow ==
    ASSUME ScheduleTypes, ScheduleTypes', TablesInv, TableKept, JobsGrow, ParentInv', ParentsStay,
           \A o \in DOMAIN occurrences :
              /\ occurrences'[o].job = occurrences[o].job
              /\ \/ occurrences'[o].acquisition = occurrences[o].acquisition
                 \/ Owned(o, occurrences'[o].acquisition),
           \A a \in AcquisitionId : acquired'[a].job = acquired[a].job \/ acquired'[a].job \in JobsOf(a)'
    PROVE  /\ TablesInv' /\ DOMAIN occurrences' = DOMAIN occurrences
           /\ \A o \in DOMAIN occurrences, a \in AcquisitionId : Owned(o, a) => Owned(o, a)'
           /\ \A a : JobsOf(a) \subseteq JobsOf(a)'
<1>1. DOMAIN occurrences' = DOMAIN occurrences
  BY Numbers, LenProperties DEF TableKept, ScheduleTypes
<1>2. GridInv' /\ OrderInv' /\ PriorInv'
  BY GridStays DEF TablesInv
<1>3. OwnInv' /\ \A o \in DOMAIN occurrences, a \in AcquisitionId : Owned(o, a) => Owned(o, a)'
  BY OwnStays DEF TablesInv
<1>4. JobsInv' /\ \A a : JobsOf(a) \subseteq JobsOf(a)'
  BY JobsStay DEF TablesInv
<1> QED BY <1>1, <1>2, <1>3, <1>4 DEF TablesInv

LEMMA TablesStay ==
    ASSUME ScheduleTypes, ScheduleTypes', TablesInv, TableKept, JobsGrow,
           \A o \in DOMAIN occurrences :
              /\ occurrences'[o].job = occurrences[o].job
              /\ \/ occurrences'[o].acquisition = occurrences[o].acquisition
                 \/ Owned(o, occurrences'[o].acquisition),
           \A a \in AcquisitionId :
              /\ acquired'[a].parent = acquired[a].parent
              /\ acquired'[a].job = acquired[a].job \/ acquired'[a].job \in JobsOf(a)'
    PROVE  /\ TablesInv' /\ DOMAIN occurrences' = DOMAIN occurrences
           /\ \A o \in DOMAIN occurrences, a \in AcquisitionId : Owned(o, a) => Owned(o, a)'
           /\ \A a : JobsOf(a) \subseteq JobsOf(a)'
<1>1. ParentInv' /\ ParentsStay
  BY ParentsKept DEF TablesInv
<1> QED BY <1>1, TablesGrow

LEMMA NoJobAdded == ASSUME JobsInv, admitted' = admitted PROVE JobsGrow
BY DEF JobsGrow, JobsInv

\* What is known of the occurrence that is collected.
LEMMA CurrentFacts ==
    ASSUME ScheduleInv, step.at # "none"
    PROVE  /\ step.of \in DOMAIN occurrences /\ step.of \in Reserved /\ step.of \in Nat /\ step.of # 0
           /\ Current \in Occurrence /\ Current = occurrences[step.of]
           /\ Current.job = 0 /\ Current.status \notin Settled
           /\ step.reads \in AcquisitionId /\ Owned(step.of, step.reads)
           /\ \A p \in DOMAIN occurrences : p > step.of => occurrences[p].schedule # Current.schedule
           /\ step.at \in WriteToCome
           /\ step = [at |-> step.at, of |-> step.of, reads |-> step.reads]
BY Numbers DEF ScheduleInv, WriteInv, Current, ScheduleTypes

\* The record of the occurrence that is collected is replaced.
LEMMA Rewritten ==
    ASSUME ScheduleInv, step.at # "none", NEW x \in Occurrence,
           x.schedule = Current.schedule, x.for = Current.for, x.at = Current.at,
           x.missed = Current.missed, x.continues = Current.continues,
           x.acquisition \in {Current.acquisition, step.reads},
           occurrences' = [occurrences EXCEPT ![step.of] = x], dueAt' = dueAt
    PROVE  /\ occurrences' \in Seq(Occurrence) /\ Len(occurrences') = Len(occurrences) /\ TableKept
           /\ DOMAIN occurrences' = DOMAIN occurrences /\ occurrences'[step.of] = x
           /\ \A o \in DOMAIN occurrences : o # step.of => occurrences'[o] = occurrences[o]
           /\ \A o \in DOMAIN occurrences :
                 /\ x.job = 0 => occurrences'[o].job = occurrences[o].job
                 /\ \/ occurrences'[o].acquisition = occurrences[o].acquisition
                    \/ Owned(o, occurrences'[o].acquisition)
<1>1. /\ step.of \in DOMAIN occurrences /\ occurrences \in Seq(Occurrence)
      /\ Current = occurrences[step.of] /\ Current.job = 0 /\ Current.status \notin Settled
      /\ Owned(step.of, step.reads)
  BY CurrentFacts DEF ScheduleInv, ScheduleTypes
<1>2. /\ occurrences' \in Seq(Occurrence) /\ Len(occurrences') = Len(occurrences)
      /\ DOMAIN occurrences' = DOMAIN occurrences
      /\ \A o \in DOMAIN occurrences : occurrences'[o] = IF o = step.of THEN x ELSE occurrences[o]
  BY <1>1, PutIn
<1>3. occurrences'[step.of] = x /\ \A o \in DOMAIN occurrences : o # step.of => occurrences'[o] = occurrences[o]
  BY <1>1, <1>2
<1>4. TableKept
  <2> SUFFICES ASSUME NEW o \in DOMAIN occurrences
               PROVE  /\ occurrences'[o].schedule = occurrences[o].schedule
                      /\ occurrences'[o].for = occurrences[o].for /\ occurrences'[o].at = occurrences[o].at
                      /\ occurrences'[o].missed = occurrences[o].missed
                      /\ occurrences'[o].continues = occurrences[o].continues
                      /\ occurrences[o].job # 0 => /\ occurrences'[o].job = occurrences[o].job
                                                   /\ occurrences'[o].acquisition = occurrences[o].acquisition
                      /\ occurrences[o].status \in Settled => occurrences'[o].status \in Settled
    BY <1>2 DEF TableKept
  <2>1. CASE o = step.of
    BY <1>1, <1>3, <2>1
  <2>2. CASE o # step.of
    BY <1>3, <2>2
  <2> QED BY <2>1, <2>2
<1>5. ASSUME NEW o \in DOMAIN occurrences
      PROVE  /\ x.job = 0 => occurrences'[o].job = occurrences[o].job
             /\ \/ occurrences'[o].acquisition = occurrences[o].acquisition
                \/ Owned(o, occurrences'[o].acquisition)
  <2>1. CASE o = step.of
    <3>1. x.acquisition = Current.acquisition \/ Owned(o, x.acquisition)
      BY <1>1, <2>1
    <3> QED BY <1>1, <1>3, <2>1, <3>1
  <2>2. CASE o # step.of
    BY <1>3, <2>2
  <2> QED BY <2>1, <2>2
<1> QED BY <1>2, <1>3, <1>4, <1>5

\* The occurrence is saved and the step is over.
LEMMA SavedFacts ==
    ASSUME ScheduleInv, step.at # "none", NEW x \in Occurrence, Saves(x),
           x.schedule = Current.schedule, x.for = Current.for, x.at = Current.at,
           x.missed = Current.missed, x.continues = Current.continues,
           x.attempts = Current.attempts, dueAt' = dueAt
    PROVE  /\ occurrences' \in Seq(Occurrence) /\ Len(occurrences') = Len(occurrences) /\ TableKept
           /\ DOMAIN occurrences' = DOMAIN occurrences /\ step' = Resting
           /\ occurrences'[step.of].job = x.job /\ occurrences'[step.of].acquisition = step.reads
           /\ \A o \in DOMAIN occurrences :
                 /\ occurrences'[o].attempts = occurrences[o].attempts
                 /\ o # step.of => occurrences'[o] = occurrences[o]
                 /\ x.job = 0 => occurrences'[o].job = occurrences[o].job
                 /\ \/ occurrences'[o].acquisition = occurrences[o].acquisition
                    \/ Owned(o, occurrences'[o].acquisition)
<1>1. step' = Resting
  BY DEF Saves
<1>2. PICK y : y = [x EXCEPT !.acquisition = step.reads]
  OBVIOUS
<1>3. /\ y \in Occurrence /\ y.acquisition = step.reads /\ y.schedule = x.schedule /\ y.for = x.for
      /\ y.at = x.at /\ y.missed = x.missed /\ y.continues = x.continues /\ y.job = x.job
      /\ y.attempts = x.attempts
  BY <1>2, CurrentFacts DEF Occurrence
<1>4. occurrences' = [occurrences EXCEPT ![step.of] = y]
  BY <1>2 DEF Saves
<1>5. /\ occurrences' \in Seq(Occurrence) /\ Len(occurrences') = Len(occurrences) /\ TableKept
      /\ DOMAIN occurrences' = DOMAIN occurrences /\ occurrences'[step.of] = y
      /\ \A o \in DOMAIN occurrences : o # step.of => occurrences'[o] = occurrences[o]
      /\ \A o \in DOMAIN occurrences :
            /\ y.job = 0 => occurrences'[o].job = occurrences[o].job
            /\ \/ occurrences'[o].acquisition = occurrences[o].acquisition
               \/ Owned(o, occurrences'[o].acquisition)
  BY <1>3, <1>4, Rewritten
<1>6. \A o \in DOMAIN occurrences : occurrences'[o].attempts = occurrences[o].attempts
  BY <1>3, <1>5, CurrentFacts
<1> QED BY <1>1, <1>3, <1>5, <1>6

LEMMA SavedInv ==
    ASSUME ScheduleInv, step.at # "none", NEW x \in Occurrence, Saves(x),
           x.schedule = Current.schedule, x.for = Current.for, x.at = Current.at,
           x.missed = Current.missed, x.continues = Current.continues, x.job = 0,
           x.attempts = Current.attempts,
           UNCHANGED <<clock, dueAt, acquired, admitted, reads>>
    PROVE  ScheduleInv'
<1>1. UNCHANGED clock /\ UNCHANGED dueAt /\ UNCHANGED acquired /\ UNCHANGED admitted /\ UNCHANGED reads
  OBVIOUS
<1>2. ScheduleTypes /\ TablesInv
  BY DEF ScheduleInv, TablesInv
<1>3. /\ occurrences' \in Seq(Occurrence) /\ Len(occurrences') = Len(occurrences) /\ TableKept
      /\ DOMAIN occurrences' = DOMAIN occurrences /\ step' = Resting
      /\ \A o \in DOMAIN occurrences :
            /\ occurrences'[o].attempts = occurrences[o].attempts
            /\ occurrences'[o].job = occurrences[o].job
            /\ \/ occurrences'[o].acquisition = occurrences[o].acquisition
               \/ Owned(o, occurrences'[o].acquisition)
  BY <1>1, SavedFacts
<1>4. ScheduleTypes'
  BY <1>1, <1>2, <1>3 DEF ScheduleTypes, Resting
<1>5. TablesInv'
  BY <1>1, <1>2, <1>3, <1>4, TablesStay, NoJobAdded DEF TablesInv
<1>6. WriteInv' /\ BudgetInv'
  BY <1>1, <1>3 DEF ScheduleInv, WriteInv, BudgetInv, Resting
<1> QED BY <1>4, <1>5, <1>6 DEF ScheduleInv, TablesInv

\* The collection goes on to its next write.
LEMMA GoesOnInv ==
    ASSUME ScheduleInv, step.at # "none", NEW to \in WriteToCome \ {"read"}, Goes(to), ScheduleTypes', TablesInv',
           DOMAIN occurrences' = DOMAIN occurrences, \A o \in DOMAIN occurrences : occurrences'[o] = occurrences[o],
           \A o \in DOMAIN occurrences, a \in AcquisitionId : Owned(o, a) => Owned(o, a)',
           to \in {"note", "link"} => \E j \in DOMAIN admitted' : admitted'[j].acquisition = step.reads,
           reads' = reads
    PROVE  ScheduleInv'
<1>1. step'.at = to /\ step'.of = step.of /\ step'.reads = step.reads /\ to # "none"
  BY CurrentFacts DEF Goes, WriteToCome
<1>2. to \in {"note", "link"} => JobsOf(step.reads)' # {}
  BY <1>1 DEF JobsOf
<1>3. WriteInv'
  <2>1. /\ step.of \in DOMAIN occurrences' /\ occurrences'[step.of].job = 0
        /\ occurrences'[step.of].status \notin Settled
        /\ \A p \in DOMAIN occurrences' : p > step.of => occurrences'[p].schedule # occurrences'[step.of].schedule
    BY CurrentFacts
  <2>2. Owned(step.of, step.reads)'
    <3>1. PICK o \in DOMAIN occurrences, a \in AcquisitionId : o = step.of /\ a = step.reads /\ Owned(o, a)
      BY CurrentFacts
    <3>2. Owned(o, a)'
      BY <3>1
    <3> QED BY <1>1, <3>1, <3>2 DEF Owned
  <2>3. \A p \in DOMAIN occurrences' : p > step'.of => occurrences'[p].schedule # occurrences'[step'.of].schedule
    BY <1>1, <2>1
  <2>4. step'.reads \in AcquisitionId
    BY <1>1, CurrentFacts
  <2> QED BY <1>1, <1>2, <2>1, <2>2, <2>3, <2>4 DEF WriteInv
<1>4. BudgetInv'
  <2>1. step'.at # "read"
    BY <1>1
  <2> QED BY <2>1 DEF ScheduleInv, BudgetInv
<1> QED BY <1>3, <1>4 DEF ScheduleInv, TablesInv

\* The parts of the invariant when nothing but the step, the reads and the clock may change.
LEMMA OnlyStepInv ==
    ASSUME ScheduleInv, UNCHANGED <<dueAt, occurrences, acquired, admitted>>
    PROVE  TablesInv'
<1>1. UNCHANGED dueAt /\ UNCHANGED occurrences /\ UNCHANGED acquired /\ UNCHANGED admitted
  OBVIOUS
<1>2. JobsInv' /\ OwnInv' /\ ParentInv' /\ PriorInv'
  BY <1>1 DEF ScheduleInv, JobsInv, JobsOf, OwnInv, Owned, ParentInv, PriorInv, Precedes
<1>3. GridInv' /\ OrderInv'
  BY <1>1 DEF ScheduleInv, GridInv, OrderInv, OfSchedule
<1> QED BY <1>2, <1>3 DEF TablesInv

LEMMA CheckCollectionInv == ASSUME ScheduleInv, CheckCollection PROVE ScheduleInv'
<1>1. /\ step.at = "check" /\ step.at # "none" /\ step.at \notin {"note", "link"}
      /\ UNCHANGED clock /\ UNCHANGED dueAt /\ UNCHANGED acquired /\ UNCHANGED admitted /\ UNCHANGED reads
  BY DEF CheckCollection
<1>2. ScheduleTypes /\ TablesInv
  BY DEF ScheduleInv, TablesInv
<1>3. CASE Goes("queue") /\ UNCHANGED occurrences
  <2>1. ScheduleTypes'
    BY <1>1, <1>2, <1>3, CurrentFacts DEF Goes, ScheduleTypes, WriteToCome
  <2>2. TablesInv'
    BY <1>1, <1>3, OnlyStepInv
  <2>3. \A o \in DOMAIN occurrences, a \in AcquisitionId : Owned(o, a) => Owned(o, a)'
    BY <1>1, <1>3 DEF Owned
  <2> QED BY <1>1, <1>3, <2>1, <2>2, <2>3, GoesOnInv DEF WriteToCome
<1>4. ASSUME NEW status \in {"waiting_auth", "blocked"}, Saves([Current EXCEPT !.status = status])
      PROVE  ScheduleInv'
  <2>1. PICK x : x = [Current EXCEPT !.status = status]
    OBVIOUS
  <2>2. /\ x \in Occurrence /\ x.schedule = Current.schedule /\ x.for = Current.for /\ x.at = Current.at
        /\ x.missed = Current.missed /\ x.continues = Current.continues /\ x.job = 0
        /\ x.attempts = Current.attempts
    BY <1>1, <2>1, CurrentFacts DEF Occurrence, OccurrenceStatus
  <2>3. Saves(x)
    BY <1>4, <2>1
  <2> QED BY <1>1, <2>2, <2>3, SavedInv
<1>5. CASE /\ Current.attempts < CollectionBudget /\ Goes("read")
           /\ occurrences' = [occurrences EXCEPT ![step.of].attempts = @ + 1]
  <2>1. PICK x : x = [Current EXCEPT !.attempts = Current.attempts + 1]
    OBVIOUS
  <2>2. /\ x \in Occurrence /\ x.schedule = Current.schedule /\ x.for = Current.for /\ x.at = Current.at
        /\ x.missed = Current.missed /\ x.continues = Current.continues /\ x.job = 0
        /\ x.attempts = Current.attempts + 1 /\ x.acquisition = Current.acquisition
        /\ x.status = Current.status /\ Current.attempts \in Nat
    BY <1>1, <2>1, CurrentFacts DEF Occurrence
  <2>3. occurrences' = [occurrences EXCEPT ![step.of] = x]
    BY <1>1, <1>5, <2>1, CurrentFacts
  <2>4. /\ occurrences' \in Seq(Occurrence) /\ Len(occurrences') = Len(occurrences) /\ TableKept
        /\ DOMAIN occurrences' = DOMAIN occurrences /\ occurrences'[step.of] = x
        /\ \A o \in DOMAIN occurrences : o # step.of => occurrences'[o] = occurrences[o]
        /\ \A o \in DOMAIN occurrences :
              /\ occurrences'[o].job = occurrences[o].job
              /\ \/ occurrences'[o].acquisition = occurrences[o].acquisition
                 \/ Owned(o, occurrences'[o].acquisition)
    BY <1>1, <2>2, <2>3, Rewritten
  <2>5. step'.at = "read" /\ step'.of = step.of /\ step'.reads = step.reads
    BY <1>1, <1>5, CurrentFacts DEF Goes
  <2>6. ScheduleTypes'
    BY <1>1, <1>2, <1>5, <2>4, CurrentFacts DEF Goes, ScheduleTypes, WriteToCome
  <2>7. /\ TablesInv'
        /\ \A o \in DOMAIN occurrences, a \in AcquisitionId : Owned(o, a) => Owned(o, a)'
    BY <1>1, <1>2, <2>4, <2>6, TablesStay, NoJobAdded DEF TablesInv
  <2>8. WriteInv'
    <3>1. /\ step.of \in DOMAIN occurrences' /\ occurrences'[step.of].job = 0
          /\ occurrences'[step.of].status \notin Settled
          /\ \A p \in DOMAIN occurrences' : p > step.of => occurrences'[p].schedule # occurrences'[step.of].schedule
      <4>1. x.status \notin Settled /\ x.schedule = occurrences[step.of].schedule
        BY <1>1, <2>2, CurrentFacts
      <4>2. \A p \in DOMAIN occurrences : p > step.of => p # step.of /\ occurrences[p].schedule # x.schedule
        BY <1>1, <2>2, CurrentFacts, Numbers, <1>2
      <4> QED BY <1>1, <2>2, <2>4, <4>1, <4>2, CurrentFacts
    <3>2. PICK o \in DOMAIN occurrences, a \in AcquisitionId : o = step.of /\ a = step.reads /\ Owned(o, a)
      BY <1>1, CurrentFacts
    <3>3. Owned(o, a)'
      BY <2>7, <3>2
    <3>4. Owned(step.of, step.reads)'
      BY <2>5, <3>2, <3>3 DEF Owned
    <3>5. \A p \in DOMAIN occurrences' : p > step'.of => occurrences'[p].schedule # occurrences'[step'.of].schedule
      BY <2>5, <3>1
    <3> QED BY <1>1, <2>5, <3>1, <3>4, <3>5, CurrentFacts DEF WriteInv
  <2>9. BudgetInv'
    <3> SUFFICES ASSUME NEW o \in DOMAIN occurrences, o \in Reserved
                 PROVE  /\ reads[o] <= occurrences'[o].attempts /\ occurrences'[o].attempts <= CollectionBudget
                        /\ step'.of = o => reads[o] < occurrences'[o].attempts
      BY <1>1, <2>4, <2>5 DEF BudgetInv, ScheduleInv
    <3>1. /\ reads[o] <= occurrences[o].attempts /\ occurrences[o].attempts <= CollectionBudget
          /\ reads[o] \in Nat /\ CollectionBudget \in Nat
      BY <1>2, ScheduleAssumption DEF BudgetInv, ScheduleInv, ScheduleTypes
    <3>2. CASE o = step.of
      BY <1>1, <1>5, <2>2, <2>4, <3>1, <3>2, CurrentFacts
    <3>3. CASE o # step.of
      BY <2>4, <2>5, <3>1, <3>3
    <3> QED BY <3>2, <3>3
  <2> QED BY <2>6, <2>7, <2>8, <2>9 DEF ScheduleInv, TablesInv
<1> QED BY <1>3, <1>4, <1>5 DEF CheckCollection

\* A job is added for an acquisition without one.
LEMMA AdmitsFacts ==
    ASSUME ScheduleInv, NEW a \in AcquisitionId, Admits(a)
    PROVE  /\ admitted' \in Seq(Admission) /\ JobsGrow
           /\ \E j \in DOMAIN admitted' : admitted'[j].acquisition = a
           /\ JobsOf(a) = {} => Len(admitted') = Len(admitted) + 1 /\ JobsOf(a)' = {Len(admitted) + 1}
           /\ JobsOf(a) # {} => admitted' = admitted
<1>1. ScheduleTypes /\ JobsInv /\ admitted \in Seq(Admission)
  BY DEF ScheduleInv, ScheduleTypes
<1>2. CASE JobsOf(a) # {}
  BY <1>1, <1>2, NoJobAdded DEF Admits, JobsOf
<1>3. CASE JobsOf(a) = {}
  <2>1. PICK x : x = [acquisition |-> a, state |-> "open"]
    OBVIOUS
  <2>2. x \in Admission /\ x.acquisition = a /\ admitted' = Append(admitted, x)
    BY <1>3, <2>1 DEF Admission, Admits
  <2>3. /\ admitted' \in Seq(Admission) /\ Len(admitted') = Len(admitted) + 1
        /\ DOMAIN admitted' = DOMAIN admitted \cup {Len(admitted) + 1} /\ Len(admitted) \in Nat
        /\ DOMAIN admitted = 1..Len(admitted)
        /\ \A k \in DOMAIN admitted : admitted'[k] = admitted[k]
        /\ admitted'[Len(admitted) + 1] = x
    BY <1>1, <2>2, Added
  <2>4. \A k \in DOMAIN admitted : admitted[k].acquisition # a
    BY <1>3 DEF JobsOf
  <2>5. JobsGrow
    BY <1>1, <2>2, <2>3, <2>4 DEF JobsGrow, JobsInv
  <2>6. JobsOf(a)' = {Len(admitted) + 1}
    BY <2>2, <2>3, <2>4 DEF JobsOf
  <2> QED BY <1>3, <2>2, <2>3, <2>5, <2>6
<1> QED BY <1>2, <1>3

LEMMA SameTable ==
    ASSUME occurrences' = occurrences, dueAt' = dueAt
    PROVE  TableKept
BY DEF TableKept

\* A write fails, and the occurrence is blocked.
LEMMA BlockedInv ==
    ASSUME ScheduleInv, step.at # "none", Saves([Current EXCEPT !.status = "blocked"]),
           UNCHANGED <<clock, dueAt, acquired, admitted, reads>>
    PROVE  ScheduleInv'
<1>1. PICK x : x = [Current EXCEPT !.status = "blocked"]
  OBVIOUS
<1>2. /\ x \in Occurrence /\ x.schedule = Current.schedule /\ x.for = Current.for /\ x.at = Current.at
      /\ x.missed = Current.missed /\ x.continues = Current.continues /\ x.job = 0
      /\ x.attempts = Current.attempts
  BY <1>1, CurrentFacts DEF Occurrence, OccurrenceStatus
<1>3. Saves(x)
  BY <1>1
<1> QED BY <1>2, <1>3, SavedInv

LEMMA SubmitInv == ASSUME ScheduleInv, Submit PROVE ScheduleInv'
<1>1. /\ step.at = "queue" /\ step.at # "none"
      /\ UNCHANGED clock /\ UNCHANGED dueAt /\ UNCHANGED acquired /\ UNCHANGED reads
  BY DEF Submit
<1>2. ScheduleTypes /\ TablesInv
  BY DEF ScheduleInv, TablesInv
<1>3. CASE Admits(step.reads) /\ Goes("note") /\ UNCHANGED occurrences
  <2>1. /\ admitted' \in Seq(Admission) /\ JobsGrow
        /\ \E j \in DOMAIN admitted' : admitted'[j].acquisition = step.reads
    BY <1>1, <1>3, AdmitsFacts, CurrentFacts
  <2>2. ScheduleTypes'
    BY <1>1, <1>2, <1>3, <2>1, CurrentFacts DEF Goes, ScheduleTypes, WriteToCome
  <2>3. /\ TablesInv'
        /\ \A o \in DOMAIN occurrences, a \in AcquisitionId : Owned(o, a) => Owned(o, a)'
    BY <1>1, <1>2, <1>3, <2>1, <2>2, TablesStay, SameTable
  <2> QED BY <1>1, <1>3, <2>1, <2>2, <2>3, GoesOnInv DEF WriteToCome
<1>4. CASE Saves([Current EXCEPT !.status = "blocked"]) /\ UNCHANGED admitted
  BY <1>1, <1>4, BlockedInv
<1> QED BY <1>3, <1>4 DEF Submit

\* The job of an acquisition, if there is one.
LEMMA TheJob ==
    ASSUME ScheduleInv, NEW a, JobsOf(a) # {}
    PROVE  Min(JobsOf(a)) \in JobsOf(a) /\ JobsOf(a) \subseteq DOMAIN admitted /\ Min(JobsOf(a)) \in Nat \ {0}
<1>1. PICK j \in JobsOf(a) : TRUE
  OBVIOUS
<1>2. \A k \in JobsOf(a) : j = k
  BY DEF ScheduleInv, JobsInv, JobsOf
<1>3. JobsOf(a) \subseteq Nat \ {0} /\ JobsOf(a) \subseteq DOMAIN admitted
  BY Numbers DEF ScheduleInv
<1>4. \A k \in JobsOf(a) : j <= k
  BY <1>2, <1>3
<1>5. Min(JobsOf(a)) = j
  BY <1>3, <1>4, LeastIs
<1> QED BY <1>1, <1>3, <1>5

\* The identity of a job is noted in its acquisition.
LEMMA NotedFacts ==
    ASSUME ScheduleTypes, NEW a \in AcquisitionId, NEW j \in Nat,
           acquired' = [acquired EXCEPT ![a].job = j]
    PROVE  /\ acquired' \in [AcquisitionId -> Acquisition] /\ acquired'[a].job = j
           /\ \A b \in AcquisitionId : /\ acquired'[b].parent = acquired[b].parent
                                       /\ b # a => acquired'[b].job = acquired[b].job
<1>1. PICK x : x = [acquired[a] EXCEPT !.job = j]
  OBVIOUS
<1>2. acquired[a] \in Acquisition /\ acquired \in [AcquisitionId -> Acquisition]
  BY DEF ScheduleTypes
<1>3. x \in Acquisition /\ x.job = j /\ x.parent = acquired[a].parent
  BY <1>1, <1>2 DEF Acquisition
<1>4. acquired' = [acquired EXCEPT ![a] = x]
  BY <1>1
<1> QED BY <1>2, <1>3, <1>4

LEMMA NoteJobInv == ASSUME ScheduleInv, NoteJob PROVE ScheduleInv'
<1>1. /\ step.at = "note" /\ step.at # "none"
      /\ UNCHANGED clock /\ UNCHANGED dueAt /\ UNCHANGED admitted /\ UNCHANGED reads
  BY DEF NoteJob
<1>2. ScheduleTypes /\ TablesInv /\ JobsInv
  BY DEF ScheduleInv, TablesInv
<1>3. CASE acquired' = [acquired EXCEPT ![step.reads].job = Min(JobsOf(step.reads))] /\ Goes("link") /\ UNCHANGED occurrences
  <2>1. PICK a \in AcquisitionId : a = step.reads
    BY <1>1, CurrentFacts
  <2>2. JobsOf(a) # {}
    BY <1>1, <2>1 DEF ScheduleInv, WriteInv
  <2>3. PICK j \in Nat \ {0} : j = Min(JobsOf(a)) /\ j \in JobsOf(a)
    BY <2>2, TheJob
  <2>4. /\ acquired' \in [AcquisitionId -> Acquisition] /\ acquired'[a].job = j
        /\ \A b \in AcquisitionId : /\ acquired'[b].parent = acquired[b].parent
                                    /\ b # a => acquired'[b].job = acquired[b].job
    BY <1>2, <1>3, <2>1, <2>3, NotedFacts
  <2>5. ScheduleTypes'
    BY <1>1, <1>2, <1>3, <2>4, CurrentFacts DEF Goes, ScheduleTypes, WriteToCome
  <2>6. \A b \in AcquisitionId : acquired'[b].job = acquired[b].job \/ acquired'[b].job \in JobsOf(b)'
    BY <1>1, <2>3, <2>4 DEF JobsOf
  <2>7. JobsGrow
    BY <1>1, <1>2, NoJobAdded
  <2>8. /\ TablesInv'
        /\ \A o \in DOMAIN occurrences, b \in AcquisitionId : Owned(o, b) => Owned(o, b)'
    BY <1>1, <1>2, <1>3, <2>4, <2>5, <2>6, <2>7, TablesStay, SameTable
  <2>9. \E k \in DOMAIN admitted' : admitted'[k].acquisition = step.reads
    BY <1>1, <2>1, <2>3 DEF JobsOf
  <2> QED BY <1>1, <1>3, <2>5, <2>8, <2>9, GoesOnInv DEF WriteToCome
<1>4. CASE Saves([Current EXCEPT !.status = "blocked"]) /\ UNCHANGED acquired
  BY <1>1, <1>4, BlockedInv
<1> QED BY <1>3, <1>4 DEF NoteJob

LEMMA CollectionEndsInv == ASSUME ScheduleInv, CollectionEnds PROVE ScheduleInv'
<1>1. /\ UNCHANGED clock /\ UNCHANGED dueAt /\ UNCHANGED acquired /\ UNCHANGED admitted /\ UNCHANGED reads
      /\ UNCHANGED occurrences /\ step' = Resting
  BY DEF CollectionEnds
<1>2. ScheduleTypes'
  BY <1>1 DEF ScheduleInv, ScheduleTypes, Resting
<1>3. TablesInv'
  BY <1>1, OnlyStepInv
<1>4. WriteInv' /\ BudgetInv'
  BY <1>1 DEF ScheduleInv, WriteInv, BudgetInv, Resting
<1> QED BY <1>2, <1>3, <1>4 DEF ScheduleInv, TablesInv

LEMMA TickInv == ASSUME ScheduleInv, Tick PROVE ScheduleInv'
<1>1. clock' \in Nat
  BY DEF ScheduleInv, ScheduleTypes, Tick
<1> QED BY <1>1, ScheduleStutterInv DEF Tick

LEMMA EnableScheduleInv == ASSUME ScheduleInv, EnableSchedule PROVE ScheduleInv'
<1>1. clock' \in Nat
  BY DEF ScheduleInv, ScheduleTypes, EnableSchedule
<1> QED BY <1>1, ScheduleStutterInv DEF EnableSchedule

LEMMA SetPausedInv == ASSUME ScheduleInv, SetPaused PROVE ScheduleInv'
<1>1. clock' \in Nat
  BY DEF ScheduleInv, ScheduleTypes, SetPaused
<1> QED BY <1>1, ScheduleStutterInv DEF SetPaused

LEMMA JobEndsInv == ASSUME ScheduleInv, JobEnds PROVE ScheduleInv'
<1>1. UNCHANGED <<clock, dueAt, occurrences, acquired, step, reads>>
  BY DEF JobEnds
<1>2. PICK j \in DOMAIN admitted : \/ admitted' = [admitted EXCEPT ![j].state = "available"]
                                   \/ admitted' = [admitted EXCEPT ![j].state = "stopped"]
  BY DEF JobEnds
<1>3. CASE admitted' = [admitted EXCEPT ![j].state = "available"]
  BY <1>1, <1>3, JobStateInv
<1>4. CASE admitted' = [admitted EXCEPT ![j].state = "stopped"]
  BY <1>1, <1>4, JobStateInv
<1> QED BY <1>2, <1>3, <1>4

LEMMA JobByHandInv == ASSUME ScheduleInv, JobByHand PROVE ScheduleInv'
<1>1. UNCHANGED <<clock, dueAt, occurrences, acquired, step, reads>>
  BY DEF JobByHand, ByHand, NoCollection
<1>2. PICK j \in DOMAIN admitted : \/ admitted' = [admitted EXCEPT ![j].state = "open"]
                                   \/ admitted' = [admitted EXCEPT ![j].state = "stopped"]
  BY DEF JobByHand
<1>3. CASE admitted' = [admitted EXCEPT ![j].state = "open"]
  BY <1>1, <1>3, JobStateInv
<1>4. CASE admitted' = [admitted EXCEPT ![j].state = "stopped"]
  BY <1>1, <1>4, JobStateInv
<1> QED BY <1>2, <1>3, <1>4

\* One occurrence that is not settled gets another status.
LEMMA OneStatusInv ==
    ASSUME ScheduleInv, step = Resting, NEW o \in DOMAIN occurrences, occurrences[o].status \notin Settled,
           NEW status \in OccurrenceStatus, occurrences' = [occurrences EXCEPT ![o].status = status],
           UNCHANGED <<clock, dueAt, acquired, admitted, step, reads>>
    PROVE  ScheduleInv'
<1>1. UNCHANGED clock /\ UNCHANGED dueAt /\ UNCHANGED acquired /\ UNCHANGED admitted /\ UNCHANGED step /\ UNCHANGED reads
  OBVIOUS
<1>2. occurrences[o] \in Occurrence /\ occurrences \in Seq(Occurrence)
  BY Numbers DEF ScheduleInv, ScheduleTypes
<1>3. PICK x : x = [occurrences[o] EXCEPT !.status = status]
  OBVIOUS
<1>4. /\ x \in Occurrence /\ x.schedule = occurrences[o].schedule /\ x.for = occurrences[o].for
      /\ x.at = occurrences[o].at /\ x.missed = occurrences[o].missed
      /\ x.continues = occurrences[o].continues /\ x.job = occurrences[o].job
      /\ x.acquisition = occurrences[o].acquisition /\ x.attempts = occurrences[o].attempts
      /\ occurrences' = [occurrences EXCEPT ![o] = x]
  BY <1>2, <1>3 DEF Occurrence
<1>5. /\ occurrences' \in Seq(Occurrence) /\ Len(occurrences') = Len(occurrences)
      /\ DOMAIN occurrences' = DOMAIN occurrences
      /\ \A p \in DOMAIN occurrences : occurrences'[p] = IF p = o THEN x ELSE occurrences[p]
  BY <1>2, <1>4, PutIn
<1>6. TableKept
  BY <1>1, <1>4, <1>5 DEF TableKept
<1>7. \A p \in DOMAIN occurrences : /\ occurrences'[p].job = occurrences[p].job
                                    /\ occurrences'[p].acquisition = occurrences[p].acquisition
                                    /\ occurrences'[p].attempts = occurrences[p].attempts
  BY <1>4, <1>5
<1> QED BY <1>1, <1>5, <1>6, <1>7, StatusesInv

LEMMA RetryInv == ASSUME ScheduleInv, Retry PROVE ScheduleInv'
<1>1. /\ step = Resting /\ UNCHANGED clock /\ UNCHANGED dueAt /\ UNCHANGED acquired /\ UNCHANGED admitted
      /\ UNCHANGED step /\ UNCHANGED reads
  BY DEF Retry, ByHand, NoCollection
<1>2. PICK o \in DOMAIN occurrences :
         /\ occurrences[o].status \in {"blocked", "waiting_auth", "retry_wait"}
         /\ occurrences' = [occurrences EXCEPT ![o].status = "pending"]
  BY DEF Retry
<1>3. occurrences[o].status \notin Settled
  BY <1>2 DEF Settled
<1> QED BY <1>1, <1>2, <1>3, OneStatusInv DEF OccurrenceStatus

LEMMA AcknowledgeInv == ASSUME ScheduleInv, Acknowledge PROVE ScheduleInv'
<1>1. /\ step = Resting /\ UNCHANGED clock /\ UNCHANGED dueAt /\ UNCHANGED acquired /\ UNCHANGED admitted
      /\ UNCHANGED step /\ UNCHANGED reads
  BY DEF Acknowledge, ByHand, NoCollection
<1>2. PICK o \in DOMAIN occurrences :
         /\ occurrences[o].status \notin Settled
         /\ occurrences' = [occurrences EXCEPT ![o].status = "skipped"]
  BY DEF Acknowledge
<1> QED BY <1>1, <1>2, OneStatusInv DEF OccurrenceStatus, Settled

\* An occurrence that follows its job keeps all but its status, which stays settled.
LEMMA FollowingFacts ==
    ASSUME NEW o \in Occurrence
    PROVE  /\ Following(o) \in Occurrence
           /\ Following(o).schedule = o.schedule /\ Following(o).for = o.for /\ Following(o).at = o.at
           /\ Following(o).missed = o.missed /\ Following(o).continues = o.continues
           /\ Following(o).job = o.job /\ Following(o).acquisition = o.acquisition
           /\ Following(o).attempts = o.attempts /\ Following(o).wait = o.wait
           /\ o.status \in Settled => Following(o).status = o.status
           /\ o.job = 0 => Following(o) = o
<1>1. CASE o.job = 0 \/ o.status \in Settled
  BY <1>1 DEF Following
<1>2. CASE ~(o.job = 0 \/ o.status \in Settled)
  <2>1. PICK status \in {"done", "linked", "blocked"} : Following(o) = [o EXCEPT !.status = status]
    BY <1>2 DEF Following
  <2>2. "done" \in OccurrenceStatus /\ "linked" \in OccurrenceStatus /\ "blocked" \in OccurrenceStatus
    BY DEF OccurrenceStatus, Settled
  <2> QED BY <1>2, <2>1, <2>2 DEF Occurrence
<1> QED BY <1>1, <1>2

\* What following does to the table.
LEMMA FollowedFacts ==
    ASSUME ScheduleTypes, NEW s \in Nat
    PROVE  /\ Followed(s) \in Seq(Occurrence) /\ Len(Followed(s)) = Len(occurrences)
           /\ DOMAIN Followed(s) = DOMAIN occurrences
           /\ \A o \in DOMAIN occurrences :
                 /\ occurrences[o].schedule <= s /\ scheduleOn[occurrences[o].schedule] /\ o = Newest(occurrences[o].schedule) =>
                       Followed(s)[o] = Following(occurrences[o])
                 /\ Followed(s)[o] = occurrences[o] \/ Followed(s)[o] = Following(occurrences[o])
<1>1. DOMAIN occurrences = 1..Len(occurrences) /\ Len(occurrences) \in Nat /\ \A o \in DOMAIN occurrences : occurrences[o] \in Occurrence
  BY Numbers
<1>2. DOMAIN Followed(s) = 1..Len(occurrences)
  BY <1>1 DEF Followed
<1>3. \A o \in DOMAIN occurrences :
         /\ occurrences[o].schedule <= s /\ scheduleOn[occurrences[o].schedule] /\ o = Newest(occurrences[o].schedule) =>
               Followed(s)[o] = Following(occurrences[o])
         /\ Followed(s)[o] = occurrences[o] \/ Followed(s)[o] = Following(occurrences[o])
  BY DEF Followed
<1>4. Followed(s) \in [1..Len(occurrences) -> Occurrence]
  <2>1. \A o \in 1..Len(occurrences) : Followed(s)[o] \in Occurrence
    BY <1>1, <1>3, FollowingFacts
  <2>2. Followed(s) = [o \in 1..Len(occurrences) |-> Followed(s)[o]]
    BY <1>1 DEF Followed
  <2> QED BY <2>1, <2>2
<1>5. Followed(s) \in Seq(Occurrence)
  BY <1>1, <1>4, SeqDef
<1>6. Len(Followed(s)) = Len(occurrences)
  BY <1>1, <1>2, <1>5, LenProperties
<1> QED BY <1>1, <1>2, <1>3, <1>5, <1>6

\* What following leaves of each occurrence.
LEMMA FollowedKeeps ==
    ASSUME ScheduleTypes, NEW s \in Nat, NEW o \in DOMAIN occurrences
    PROVE  LET f == Followed(s)[o]
           IN  /\ f.schedule = occurrences[o].schedule /\ f.for = occurrences[o].for
               /\ f.at = occurrences[o].at /\ f.missed = occurrences[o].missed
               /\ f.continues = occurrences[o].continues /\ f.job = occurrences[o].job
               /\ f.acquisition = occurrences[o].acquisition /\ f.attempts = occurrences[o].attempts
               /\ occurrences[o].status \in Settled => f.status \in Settled
               /\ occurrences[o].job = 0 => f = occurrences[o]
<1>1. occurrences[o] \in Occurrence
  BY Numbers
<1>2. CASE Followed(s)[o] = occurrences[o]
  BY <1>2
<1>3. CASE Followed(s)[o] = Following(occurrences[o])
  BY <1>1, <1>3, FollowingFacts
<1> QED BY <1>2, <1>3, FollowedFacts

LEMMA FollowInv == ASSUME ScheduleInv, Follow PROVE ScheduleInv'
<1>1. /\ step = Resting /\ UNCHANGED clock /\ UNCHANGED dueAt /\ UNCHANGED acquired /\ UNCHANGED admitted
      /\ UNCHANGED step /\ UNCHANGED reads /\ occurrences' = Followed(ScheduleCount)
  BY DEF Follow, NoCollection
<1>2. ScheduleTypes /\ ScheduleCount \in Nat
  BY ScheduleAssumption DEF ScheduleInv
<1>3. occurrences' \in Seq(Occurrence) /\ Len(occurrences') = Len(occurrences)
  BY <1>1, <1>2, FollowedFacts
<1>4. TableKept
  BY <1>1, <1>2, <1>3, FollowedKeeps DEF TableKept
<1>5. \A o \in DOMAIN occurrences : /\ occurrences'[o].job = occurrences[o].job
                                    /\ occurrences'[o].acquisition = occurrences[o].acquisition
                                    /\ occurrences'[o].attempts = occurrences[o].attempts
  BY <1>1, <1>2, FollowedKeeps
<1> QED BY <1>1, <1>3, <1>4, <1>5, StatusesInv

\* The last occurrence of a schedule.
LEMMA NewestIs ==
    ASSUME ScheduleInv, NEW s \in Scheduled, OfSchedule(s) # {}
    PROVE  /\ Newest(s) \in OfSchedule(s) /\ Newest(s) \in DOMAIN occurrences
           /\ occurrences[Newest(s)].schedule = s
           /\ \A o \in OfSchedule(s) : o <= Newest(s)
<1>1. PICK m \in OfSchedule(s) : \A o \in OfSchedule(s) : o <= m
  BY DEF ScheduleInv, OrderInv
<1>2. OfSchedule(s) \in SUBSET Nat
  BY Numbers DEF ScheduleInv
<1>3. Newest(s) = m
  BY <1>1, <1>2, GreatestIs DEF Newest
<1> QED BY <1>1, <1>3 DEF OfSchedule

\* The last occurrence is collected again.
LEMMA RecollectsInv ==
    ASSUME ScheduleInv, NEW s \in Scheduled, Recollects(s), occurrences' = Followed(s),
           step' = [at |-> "check", of |-> Newest(s), reads |-> occurrences[Newest(s)].acquisition],
           UNCHANGED <<clock, dueAt, acquired, admitted, reads>>
    PROVE  ScheduleInv'
<1>1. UNCHANGED clock /\ UNCHANGED dueAt /\ UNCHANGED acquired /\ UNCHANGED admitted /\ UNCHANGED reads
  OBVIOUS
<1>2. ScheduleTypes /\ TablesInv /\ s \in Nat
  BY ScheduleAssumption DEF ScheduleInv, TablesInv, Scheduled
<1>3. PICK m \in DOMAIN occurrences :
         /\ m = Newest(s) /\ occurrences[m].schedule = s /\ \A o \in OfSchedule(s) : o <= m
  BY NewestIs DEF Recollects, Unsettled
<1>4. occurrences[m] \in Occurrence /\ m \in Nat /\ occurrences[m].acquisition \in AcquisitionId
  BY <1>2, <1>3, Numbers DEF Occurrence
<1>5. occurrences[m].job = 0 /\ occurrences[m].status \notin Settled
  <2>1. LastOf(s) = Following(occurrences[m])
    BY <1>3 DEF LastOf
  <2>2. LastOf(s).job = 0 /\ LastOf(s).status \in {"pending", "retry_wait"}
    BY DEF Recollects
  <2> QED BY <1>4, <2>1, <2>2, FollowingFacts DEF Settled
<1>6. /\ occurrences' \in Seq(Occurrence) /\ Len(occurrences') = Len(occurrences)
      /\ DOMAIN occurrences' = DOMAIN occurrences
      /\ \A o \in DOMAIN occurrences :
            /\ occurrences'[o].schedule = occurrences[o].schedule /\ occurrences'[o].job = occurrences[o].job
            /\ occurrences'[o].acquisition = occurrences[o].acquisition
            /\ occurrences'[o].attempts = occurrences[o].attempts
            /\ occurrences[o].job = 0 => occurrences'[o] = occurrences[o]
  BY <1>2, FollowedFacts, FollowedKeeps
<1>7. TableKept
  BY <1>1, <1>2, <1>6, FollowedKeeps DEF TableKept
<1>8. step'.at = "check" /\ step'.of = m /\ step'.reads = occurrences[m].acquisition
  BY <1>3
<1>9. ScheduleTypes'
  BY <1>1, <1>2, <1>3, <1>4, <1>6 DEF ScheduleTypes, WriteToCome
<1>10. /\ TablesInv'
       /\ \A o \in DOMAIN occurrences, a \in AcquisitionId : Owned(o, a) => Owned(o, a)'
  BY <1>1, <1>2, <1>6, <1>7, <1>9, TablesStay, NoJobAdded DEF TablesInv
<1>11. WriteInv'
  <2>1. PICK a \in AcquisitionId : a = occurrences[m].acquisition /\ Owned(m, a)
    BY <1>2, <1>4 DEF TablesInv, OwnInv
  <2>2. Owned(m, a)'
    BY <1>10, <2>1
  <2>3. Owned(step.of, step.reads)'
    BY <1>8, <2>1, <2>2 DEF Owned
  <2>4. \A p \in DOMAIN occurrences' : p > m => occurrences'[p].schedule # s
    <3> SUFFICES ASSUME NEW p \in DOMAIN occurrences, p > m PROVE occurrences[p].schedule # s
      BY <1>6
    <3>1. p \in Nat
      BY <1>2, Numbers
    <3> QED BY <1>3, <1>4, <3>1 DEF OfSchedule
  <2>5. occurrences'[m].job = 0 /\ occurrences'[m].status \notin Settled /\ occurrences'[m].schedule = s
    BY <1>3, <1>5, <1>6
  <2> QED BY <1>4, <1>6, <1>8, <2>3, <2>4, <2>5 DEF WriteInv
<1>12. BudgetInv'
  BY <1>1, <1>6, <1>8 DEF ScheduleInv, BudgetInv
<1> QED BY <1>9, <1>10, <1>11, <1>12 DEF ScheduleInv, TablesInv

\* What beginning an occurrence does to the table.
Growth(s) ==
    LET n == Len(occurrences) + 1
    IN  /\ Len(occurrences) \in Nat /\ n <= OccurrenceBound /\ n \in AcquisitionId /\ n \in Reserved
        /\ n \notin DOMAIN occurrences /\ DOMAIN occurrences = 1..Len(occurrences)
        /\ occurrences' \in Seq(Occurrence) /\ Len(occurrences') = n
        /\ DOMAIN occurrences' = DOMAIN occurrences \cup {n} /\ \A o \in DOMAIN occurrences : o \in Nat /\ o < n
        /\ \A o \in DOMAIN occurrences :
              /\ occurrences'[o].schedule = occurrences[o].schedule
              /\ occurrences'[o].for = occurrences[o].for /\ occurrences'[o].at = occurrences[o].at
              /\ occurrences'[o].missed = occurrences[o].missed
              /\ occurrences'[o].continues = occurrences[o].continues
              /\ occurrences'[o].job = occurrences[o].job
              /\ occurrences'[o].acquisition = occurrences[o].acquisition
              /\ occurrences'[o].attempts = occurrences[o].attempts
              /\ occurrences[o].status \in Settled => occurrences'[o].status \in Settled
        /\ occurrences'[n].schedule = s /\ occurrences'[n].for = dueAt[s] /\ occurrences'[n].at = clock
        /\ occurrences'[n].acquisition = n /\ occurrences'[n].continues = Continues(s)
        /\ occurrences'[n].job = 0 /\ occurrences'[n].status = "pending" /\ occurrences'[n].attempts = 0

\* Where the grid goes.
GridGrowth(s) ==
    /\ clock' = clock /\ clock \in Nat /\ dueAt[s] \in Nat /\ dueAt[s] <= clock
    /\ occurrences'[Len(occurrences) + 1].missed \in Nat
    /\ LET end == dueAt[s] + (1 + occurrences'[Len(occurrences) + 1].missed) * Interval[s]
       IN  /\ end \in Nat /\ clock < end
           /\ dueAt' = [dueAt EXCEPT ![s] = end]

\* The page that is left is that of the last occurrence.
LEMMA ContinuesFacts ==
    ASSUME ScheduleInv, NEW s \in Scheduled
    PROVE  /\ Continues(s) \in AcquisitionId \cup {0}
           /\ Continues(s) # 0 =>
                 /\ s \notin JiraSchedule /\ OfSchedule(s) # {}
                 /\ occurrences[Newest(s)].job # 0 /\ occurrences[Newest(s)].acquisition = Continues(s)
<1>1. CASE OfSchedule(s) = {}
  BY <1>1 DEF Continues
<1>2. CASE OfSchedule(s) # {}
  <2>1. occurrences[Newest(s)] \in Occurrence
    BY <1>2, NewestIs, Numbers DEF ScheduleInv
  <2>2. /\ LastOf(s).acquisition = occurrences[Newest(s)].acquisition
        /\ LastOf(s).job = occurrences[Newest(s)].job
        /\ LastOf(s).acquisition \in AcquisitionId
    BY <2>1, FollowingFacts DEF LastOf, Occurrence
  <2> QED BY <1>2, <2>2 DEF Continues
<1> QED BY <1>1, <1>2

LEMMA GrowthHolds ==
    ASSUME ScheduleInv, NEW s \in Scheduled, Begins(s), Len(occurrences) < OccurrenceBound,
           occurrences' = Append(Followed(s), Begun(s)), dueAt' = [dueAt EXCEPT ![s] = NextInterval(s).next],
           clock' = clock
    PROVE  Growth(s) /\ GridGrowth(s)
<1> DEFINE n == Len(occurrences) + 1
           i == (clock - dueAt[s]) \div Interval[s]
<1>1. ScheduleTypes /\ s \in Nat /\ OccurrenceBound \in Nat /\ Interval[s] \in Nat \ {0}
  BY ScheduleAssumption DEF ScheduleInv, Scheduled
<1>2. /\ Len(occurrences) \in Nat /\ DOMAIN occurrences = 1..Len(occurrences) /\ n \in Reserved
      /\ n \in AcquisitionId /\ n <= OccurrenceBound /\ n \notin DOMAIN occurrences
      /\ \A o \in DOMAIN occurrences : o \in Nat /\ o < n
  BY <1>1, Numbers DEF Reserved
<1>3. clock \in Nat /\ dueAt[s] \in Nat /\ dueAt[s] <= clock
  BY <1>1 DEF ScheduleTypes, Begins
<1>4. i \in Nat /\ clock - dueAt[s] < (i + 1) * Interval[s]
  <2>1. PICK x \in Nat, k \in Nat \ {0} : x = clock - dueAt[s] /\ k = Interval[s]
    BY <1>1, <1>3
  <2>2. x \div k \in Nat /\ x < (x \div k + 1) * k
    BY Interleaved
  <2>3. i = x \div k
    BY <2>1
  <2> HIDE DEF i
  <2> QED BY <2>1, <2>2, <2>3
<1>5. NextInterval(s).missed = i /\ NextInterval(s).next = dueAt[s] + (i + 1) * Interval[s]
  <2>1. (i + 1) - 1 = i
    BY <1>4
  <2> QED BY <2>1 DEF NextInterval
<1>6. PICK b : b = Begun(s)
  OBVIOUS
<1>7. /\ b \in Occurrence /\ b.schedule = s /\ b.for = dueAt[s] /\ b.at = clock /\ b.missed = i
      /\ b.acquisition = n /\ b.continues = Continues(s) /\ b.job = 0 /\ b.status = "pending" /\ b.attempts = 0
  <2>1. b = [schedule |-> s, for |-> dueAt[s], at |-> clock, missed |-> i,
             acquisition |-> n, continues |-> Continues(s), job |-> 0,
             status |-> "pending", wait |-> 0, attempts |-> 0]
    BY <1>5, <1>6 DEF Begun
  <2>2. "pending" \in OccurrenceStatus
    BY DEF OccurrenceStatus
  <2> HIDE DEF n, i
  <2> QED BY <1>2, <1>3, <1>4, <2>1, <2>2, ContinuesFacts DEF Occurrence
<1>8. Followed(s) \in Seq(Occurrence) /\ Len(Followed(s)) = Len(occurrences) /\ DOMAIN Followed(s) = DOMAIN occurrences
  BY <1>1, FollowedFacts
<1>9. /\ occurrences' \in Seq(Occurrence) /\ Len(occurrences') = n
      /\ DOMAIN occurrences' = DOMAIN occurrences \cup {n}
      /\ \A o \in DOMAIN occurrences : occurrences'[o] = Followed(s)[o]
      /\ occurrences'[n] = b
  <2>1. occurrences' = Append(Followed(s), b)
    BY <1>6
  <2> QED BY <1>7, <1>8, <2>1, Added
<1>10. Growth(s)
  BY <1>1, <1>2, <1>7, <1>9, FollowedKeeps DEF Growth
<1>11. GridGrowth(s)
  <2> HIDE DEF i
  <2>1. 1 + i = i + 1 /\ (i + 1) * Interval[s] \in Nat
    BY <1>1, <1>4
  <2>2. dueAt[s] + (1 + i) * Interval[s] \in Nat /\ clock < dueAt[s] + (1 + i) * Interval[s]
    <3>1. PICK x \in Nat : x = (i + 1) * Interval[s]
      BY <2>1
    <3>2. PICK c \in Nat, d \in Nat : c = clock /\ d = dueAt[s]
      BY <1>3
    <3>3. c - d < x
      BY <1>4, <3>1, <3>2
    <3>4. d + x \in Nat /\ c < d + x
      BY <3>3
    <3>5. (1 + i) * Interval[s] = x
      BY <2>1, <3>1
    <3>6. /\ dueAt[s] + (1 + i) * Interval[s] = d + x /\ clock = c
      BY <3>2, <3>5, Zenon
    <3> QED BY <3>4, <3>6, Zenon
  <2> QED BY <1>3, <1>4, <1>5, <1>7, <1>9, <2>1, <2>2 DEF GridGrowth
<1> QED BY <1>10, <1>11

LEMMA BegunGrid ==
    ASSUME ScheduleInv, ScheduleTypes', NEW s \in Scheduled, Growth(s), GridGrowth(s)
    PROVE  GridInv'
<1>1. PICK n \in Nat : n = Len(occurrences) + 1
  BY DEF Growth
<1>2. ScheduleTypes /\ GridInv /\ ScheduleAssumption
  BY ScheduleAssumption DEF ScheduleInv
<1>3. /\ DOMAIN occurrences' = DOMAIN occurrences \cup {n}
      /\ \A o \in DOMAIN occurrences : o \in Nat /\ o < n
      /\ \A o \in DOMAIN occurrences :
            /\ occurrences'[o].schedule = occurrences[o].schedule
            /\ occurrences'[o].for = occurrences[o].for /\ occurrences'[o].at = occurrences[o].at
            /\ occurrences'[o].missed = occurrences[o].missed
      /\ occurrences'[n].schedule = s /\ occurrences'[n].for = dueAt[s] /\ occurrences'[n].at = clock
  BY <1>1 DEF Growth
<1>4. \A t \in Scheduled : OfSchedule(t)' = IF t = s THEN OfSchedule(t) \cup {n} ELSE OfSchedule(t)
  BY <1>3 DEF OfSchedule
<1>5. \A t \in Scheduled : t # s => dueAt'[t] = dueAt[t]
  BY <1>2 DEF GridGrowth, ScheduleTypes
<1>6. /\ clock \in Nat /\ dueAt[s] <= clock
      /\ clock < dueAt[s] + (1 + occurrences'[n].missed) * Interval[s]
      /\ dueAt'[s] = dueAt[s] + (1 + occurrences'[n].missed) * Interval[s]
  BY <1>1, <1>2 DEF GridGrowth, ScheduleTypes
<1>7. SUFFICES ASSUME NEW t \in Scheduled, NEW o \in OfSchedule(t)'
               PROVE  LET end == occurrences'[o].for + (1 + occurrences'[o].missed) * Interval[t]
                      IN  /\ occurrences'[o].for <= occurrences'[o].at /\ occurrences'[o].at < end
                          /\ \/ (\A p \in OfSchedule(t)' : p <= o) /\ dueAt'[t] = end
                             \/ \E p \in OfSchedule(t)' :
                                   p > o /\ (\A q \in OfSchedule(t)' : q > o => p <= q) /\ occurrences'[p].for = end
  BY DEF GridInv
<1> DEFINE end == occurrences'[o].for + (1 + occurrences'[o].missed) * Interval[t]
<1>8. CASE o = n
  <2>1. t = s
    BY <1>3, <1>4, <1>8 DEF OfSchedule
  <2>2. \A p \in OfSchedule(t)' : p <= o
    BY <1>3, <1>4, <1>8 DEF OfSchedule
  <2> QED BY <1>3, <1>6, <1>8, <2>1, <2>2
<1>9. CASE o # n
  <2>1. o \in OfSchedule(t) /\ o \in DOMAIN occurrences /\ occurrences[o].schedule = t
    BY <1>4, <1>9 DEF OfSchedule
  <2>2. end = occurrences[o].for + (1 + occurrences[o].missed) * Interval[t]
    BY <1>3, <2>1
  <2> HIDE DEF end
  <2>3. /\ occurrences[o].for <= occurrences[o].at /\ occurrences[o].at < end
        /\ \/ (\A p \in OfSchedule(t) : p <= o) /\ dueAt[t] = end
           \/ \E p \in OfSchedule(t) :
                 p > o /\ (\A q \in OfSchedule(t) : q > o => p <= q) /\ occurrences[p].for = end
    BY <1>2, <2>1, <2>2 DEF GridInv
  <2>4. occurrences'[o].for <= occurrences'[o].at /\ occurrences'[o].at < end
    BY <1>3, <2>1, <2>3
  <2>5. CASE (\A p \in OfSchedule(t) : p <= o) /\ dueAt[t] = end
    <3>1. CASE t # s
      BY <1>4, <1>5, <2>4, <2>5, <3>1 DEF end
    <3>2. CASE t = s
      <4>1. n \in OfSchedule(t)' /\ n > o /\ occurrences'[n].for = end
        BY <1>3, <1>4, <2>1, <2>5, <3>2
      <4>2. \A q \in OfSchedule(t)' : q > o => n <= q
        BY <1>3, <1>4, <2>1, <2>5, <3>2 DEF OfSchedule
      <4> QED BY <2>4, <4>1, <4>2 DEF end
    <3> QED BY <3>1, <3>2
  <2>6. CASE \E p \in OfSchedule(t) :
                p > o /\ (\A q \in OfSchedule(t) : q > o => p <= q) /\ occurrences[p].for = end
    <3>1. PICK p \in OfSchedule(t) :
             p > o /\ (\A q \in OfSchedule(t) : q > o => p <= q) /\ occurrences[p].for = end
      BY <2>6
    <3>2. p \in DOMAIN occurrences /\ p \in Nat /\ p <= n /\ p \in OfSchedule(t)'
      BY <1>3, <1>4, <3>1 DEF OfSchedule
    <3>3. \A q \in OfSchedule(t)' : q > o => p <= q
      BY <1>4, <3>1, <3>2
    <3>4. occurrences'[p].for = end
      BY <1>3, <3>1, <3>2
    <3> QED BY <2>4, <3>1, <3>2, <3>3, <3>4 DEF end
  <2> QED BY <2>3, <2>5, <2>6
<1> QED BY <1>8, <1>9

LEMMA BegunOrder ==
    ASSUME ScheduleInv, ScheduleTypes', NEW s \in Scheduled, Growth(s),
           \A o \in OfSchedule(s) : occurrences'[o].status \in Settled
    PROVE  OrderInv'
<1>1. PICK n \in Nat : n = Len(occurrences) + 1
  BY DEF Growth
<1>2. ScheduleTypes /\ OrderInv
  BY DEF ScheduleInv
<1>3. /\ DOMAIN occurrences' = DOMAIN occurrences \cup {n}
      /\ \A o \in DOMAIN occurrences : o \in Nat /\ o < n
      /\ \A o \in DOMAIN occurrences :
            /\ occurrences'[o].schedule = occurrences[o].schedule
            /\ occurrences[o].status \in Settled => occurrences'[o].status \in Settled
      /\ occurrences'[n].schedule = s
  BY <1>1 DEF Growth
<1>4. \A t \in Scheduled : OfSchedule(t)' = IF t = s THEN OfSchedule(t) \cup {n} ELSE OfSchedule(t)
  BY <1>3 DEF OfSchedule
<1>5. ASSUME NEW t \in Scheduled, OfSchedule(t)' # {}
      PROVE  \E m \in OfSchedule(t)' : \A o \in OfSchedule(t)' : o <= m
  <2>1. CASE t = s
    <3>1. n \in OfSchedule(t)' /\ \A o \in OfSchedule(t)' : o <= n
      BY <1>3, <1>4, <2>1 DEF OfSchedule
    <3> QED BY <3>1
  <2>2. CASE t # s
    BY <1>2, <1>4, <1>5, <2>2 DEF OrderInv
  <2> QED BY <2>1, <2>2
<1>6. ASSUME NEW o \in DOMAIN occurrences', NEW p \in DOMAIN occurrences',
             o < p, occurrences'[o].schedule = occurrences'[p].schedule
      PROVE  occurrences'[o].status \in Settled
  <2>1. o \in DOMAIN occurrences
    BY <1>3, <1>6
  <2>2. CASE p = n
    BY <1>3, <1>6, <2>1, <2>2 DEF OfSchedule
  <2>3. CASE p # n
    BY <1>2, <1>3, <1>6, <2>1, <2>3 DEF OrderInv
  <2> QED BY <2>2, <2>3
<1> QED BY <1>5, <1>6 DEF OrderInv

LEMMA BegunTables ==
    ASSUME ScheduleInv, ScheduleTypes', NEW s \in Scheduled, Growth(s), acquired' = acquired, admitted' = admitted
    PROVE  JobsInv' /\ OwnInv' /\ ParentInv' /\ PriorInv'
<1>1. PICK n \in Nat : n = Len(occurrences) + 1
  BY DEF Growth
<1>2. ScheduleTypes /\ JobsInv /\ OwnInv /\ ParentInv /\ PriorInv
  BY DEF ScheduleInv
<1>3. /\ DOMAIN occurrences' = DOMAIN occurrences \cup {n} /\ n \notin DOMAIN occurrences
      /\ \A o \in DOMAIN occurrences : o \in Nat /\ o < n
      /\ \A o \in DOMAIN occurrences :
            /\ occurrences'[o].schedule = occurrences[o].schedule
            /\ occurrences'[o].continues = occurrences[o].continues
            /\ occurrences'[o].job = occurrences[o].job
            /\ occurrences'[o].acquisition = occurrences[o].acquisition
      /\ occurrences'[n].schedule = s /\ occurrences'[n].acquisition = n /\ occurrences'[n].job = 0
      /\ occurrences'[n].continues = Continues(s)
  BY <1>1 DEF Growth
<1>4. JobsInv'
  <2>1. \A a : JobsOf(a)' = JobsOf(a)
    BY DEF JobsOf
  <2>2. ASSUME NEW o \in DOMAIN occurrences', occurrences'[o].job # 0
        PROVE  /\ occurrences'[o].job \in JobsOf(occurrences'[o].acquisition)
               /\ \A p \in DOMAIN occurrences' : o # p => occurrences'[o].job # occurrences'[p].job
    <3>1. o \in DOMAIN occurrences
      BY <1>3, <2>2
    <3> QED BY <1>2, <1>3, <2>2, <3>1 DEF JobsInv
  <2>3. \A o \in DOMAIN occurrences' : occurrences'[o].job # 0 =>
           occurrences'[o].job \in {j \in DOMAIN admitted' : admitted'[j].acquisition = occurrences'[o].acquisition}
    BY <2>2 DEF JobsOf
  <2>4. \A a \in AcquisitionId : acquired'[a].job # 0 => acquired'[a].job \in JobsOf(a)'
    BY <1>2, <2>1 DEF JobsInv
  <2>5. \A i, k \in DOMAIN admitted' : admitted'[i].acquisition = admitted'[k].acquisition => i = k
    BY <1>2 DEF JobsInv
  <2> QED BY <2>2, <2>3, <2>4, <2>5 DEF JobsInv, JobsOf
<1>5. OwnInv'
  <2>1. ASSUME NEW o \in DOMAIN occurrences'
        PROVE  \/ occurrences'[o].acquisition = o
               \/ /\ occurrences'[o].continues # 0
                  /\ acquired[occurrences'[o].acquisition].parent = occurrences'[o].continues
    <3>1. CASE o = n
      BY <1>3, <3>1
    <3>2. CASE o # n
      BY <1>2, <1>3, <3>2 DEF OwnInv, Owned
    <3> QED BY <3>1, <3>2
  <2> QED BY <2>1 DEF OwnInv, Owned
<1>6. ParentInv'
  <2>1. \A a \in Reserved : acquired[a].parent # 0 =>
           a \in DOMAIN occurrences' /\ acquired[a].parent = occurrences'[a].continues
    BY <1>2, <1>3 DEF ParentInv
  <2>2. \A a, b \in AcquisitionId : a # b /\ acquired[a].parent # 0 => acquired[a].parent # acquired[b].parent
    BY <1>2 DEF ParentInv
  <2> QED BY <2>1, <2>2 DEF ParentInv
<1>7. PriorInv'
  <2>1. SUFFICES ASSUME NEW o \in DOMAIN occurrences', occurrences'[o].continues # 0
                 PROVE  /\ occurrences'[o].schedule \notin JiraSchedule
                        /\ \E r \in DOMAIN occurrences' :
                              /\ Precedes(r, o)' /\ occurrences'[r].job # 0
                              /\ occurrences'[r].acquisition = occurrences'[o].continues
    BY DEF PriorInv
  <2>2. CASE o # n
    <3>1. o \in DOMAIN occurrences /\ o \in Nat /\ o < n /\ occurrences[o].continues # 0
      BY <1>3, <2>1, <2>2
    <3>2. PICK r \in DOMAIN occurrences : /\ Precedes(r, o) /\ occurrences[r].job # 0
                                          /\ occurrences[r].acquisition = occurrences[o].continues
      BY <1>2, <3>1 DEF PriorInv
    <3>3. Precedes(r, o)'
      BY <1>3, <3>1, <3>2 DEF Precedes
    <3> QED BY <1>2, <1>3, <3>1, <3>2, <3>3 DEF PriorInv
  <2>3. CASE o = n
    <3>1. Continues(s) # 0
      BY <1>3, <2>1, <2>3
    <3>2. PICK m \in DOMAIN occurrences :
             /\ occurrences[m].schedule = s /\ \A p \in OfSchedule(s) : p <= m
             /\ occurrences[m].job # 0 /\ occurrences[m].acquisition = Continues(s)
      BY <3>1, ContinuesFacts, NewestIs
    <3>3. \A q \in DOMAIN occurrences' : m < q /\ q < n => occurrences'[q].schedule # s
      <4> SUFFICES ASSUME NEW q \in DOMAIN occurrences, m < q PROVE occurrences[q].schedule # s
        BY <1>3
      <4>1. q \in Nat /\ m \in Nat
        BY <1>3
      <4> QED BY <3>2, <4>1 DEF OfSchedule
    <3>4. Precedes(m, o)'
      BY <1>3, <2>3, <3>2, <3>3 DEF Precedes
    <3> QED BY <1>3, <2>3, <3>1, <3>2, <3>4, ContinuesFacts
  <2> QED BY <2>2, <2>3
<1> QED BY <1>4, <1>5, <1>6, <1>7

\* The next occurrence is begun.
LEMMA BeginsInv ==
    ASSUME ScheduleInv, NEW s \in Scheduled, Begins(s), Len(occurrences) < OccurrenceBound,
           occurrences' = Append(Followed(s), Begun(s)), dueAt' = [dueAt EXCEPT ![s] = NextInterval(s).next],
           step' = [at |-> "check", of |-> Len(occurrences) + 1, reads |-> Len(occurrences) + 1],
           UNCHANGED <<clock, acquired, admitted, reads>>
    PROVE  ScheduleInv'
<1>1. UNCHANGED clock /\ UNCHANGED acquired /\ UNCHANGED admitted /\ UNCHANGED reads
  OBVIOUS
<1>2. Growth(s) /\ GridGrowth(s)
  BY <1>1, GrowthHolds
<1>3. ScheduleTypes /\ s \in Nat
  BY ScheduleAssumption DEF ScheduleInv, Scheduled
<1>4. PICK n \in AcquisitionId : /\ n = Len(occurrences) + 1 /\ n \in Nat /\ n \in Reserved
                                 /\ n <= OccurrenceBound /\ n \notin DOMAIN occurrences
  BY <1>2 DEF Growth
<1>5. step'.at = "check" /\ step'.of = n /\ step'.reads = n
  BY <1>4
<1>6. ScheduleTypes'
  <2>1. occurrences' \in Seq(Occurrence) /\ Len(occurrences') <= OccurrenceBound
    BY <1>2, <1>4 DEF Growth
  <2>2. dueAt' \in [Scheduled -> Nat]
    BY <1>2, <1>3 DEF GridGrowth, ScheduleTypes
  <2>3. step' \in [at : {"none"} \cup WriteToCome, of : Nat, reads : AcquisitionId \cup {0}]
    BY <1>4 DEF WriteToCome
  <2> QED BY <1>1, <1>3, <2>1, <2>2, <2>3 DEF ScheduleTypes
<1>7. JobsInv' /\ OwnInv' /\ ParentInv' /\ PriorInv'
  BY <1>1, <1>2, <1>6, BegunTables
<1>8. GridInv'
  BY <1>2, <1>6, BegunGrid
<1>9. \A o \in OfSchedule(s) : occurrences'[o].status \in Settled
  <2> SUFFICES ASSUME NEW o \in OfSchedule(s) PROVE occurrences'[o].status \in Settled
    OBVIOUS
  <2>1. PICK m \in DOMAIN occurrences : /\ m = Newest(s) /\ occurrences[m].schedule = s
                                        /\ m \in OfSchedule(s) /\ \A p \in OfSchedule(s) : p <= m
    BY NewestIs
  <2>2. o \in DOMAIN occurrences /\ occurrences[o].schedule = s /\ o \in Nat /\ m \in Nat
    BY <1>3, Numbers DEF OfSchedule
  <2>3. CASE o # m
    <3>1. occurrences[o].status \in Settled
      BY <2>1, <2>2, <2>3 DEF ScheduleInv, OrderInv
    <3> QED BY <1>2, <2>2, <3>1 DEF Growth
  <2>4. CASE o = m
    <3>1. LastOf(s) = Following(occurrences[m]) /\ LastOf(s).status \in Settled
      BY <2>1 DEF LastOf, Begins, Unsettled
    <3>2. Followed(s)[m] = Following(occurrences[m])
      BY <1>3, <2>1, FollowedFacts DEF Begins
    <3>3. occurrences'[m] = Followed(s)[m]
      <4>1. Followed(s) \in Seq(Occurrence) /\ DOMAIN Followed(s) = DOMAIN occurrences
        BY <1>3, FollowedFacts
      <4>2. PICK b : b = Begun(s)
        OBVIOUS
      <4>3. \A k \in DOMAIN Followed(s) : Append(Followed(s), b)[k] = Followed(s)[k]
        BY <4>1, SMT
      <4> QED BY <4>1, <4>2, <4>3
    <3> QED BY <2>4, <3>1, <3>2, <3>3
  <2> QED BY <2>3, <2>4
<1>10. OrderInv'
  BY <1>2, <1>6, <1>9, BegunOrder
<1>11. /\ occurrences'[n].job = 0 /\ occurrences'[n].status \notin Settled /\ occurrences'[n].attempts = 0
       /\ n \in DOMAIN occurrences' /\ DOMAIN occurrences' = DOMAIN occurrences \cup {n}
       /\ \A o \in DOMAIN occurrences : o \in Nat /\ o < n /\ occurrences'[o].attempts = occurrences[o].attempts
  BY <1>2, <1>4 DEF Growth, Settled
<1>12. WriteInv'
  <2>1. \A p \in DOMAIN occurrences' : ~(p > n)
    BY <1>4, <1>11
  <2>2. Owned(step.of, step.reads)'
    BY <1>5 DEF Owned
  <2> QED BY <1>4, <1>5, <1>11, <2>1, <2>2 DEF WriteInv
<1>13. BudgetInv'
  <2>1. CollectionBudget \in Nat /\ reads[n] = 0
    BY <1>4, ScheduleAssumption DEF ScheduleInv, BudgetInv
  <2>2. step'.at # "read"
    BY <1>5
  <2> QED BY <1>1, <1>11, <2>1, <2>2 DEF ScheduleInv, BudgetInv
<1> QED BY <1>6, <1>7, <1>8, <1>10, <1>12, <1>13 DEF ScheduleInv

LEMMA StepSchedulesInv == ASSUME ScheduleInv, StepSchedules PROVE ScheduleInv'
<1>1. UNCHANGED <<clock, acquired, admitted, reads>>
  BY DEF StepSchedules
<1>2. PICK s \in Scheduled :
         \/ /\ Recollects(s)
            /\ occurrences' = Followed(s)
            /\ step' = [at |-> "check", of |-> Newest(s), reads |-> occurrences[Newest(s)].acquisition]
            /\ UNCHANGED dueAt
         \/ /\ Begins(s) /\ Len(occurrences) < OccurrenceBound
            /\ occurrences' = Append(Followed(s), Begun(s))
            /\ dueAt' = [dueAt EXCEPT ![s] = NextInterval(s).next]
            /\ step' = [at |-> "check", of |-> Len(occurrences) + 1, reads |-> Len(occurrences) + 1]
  BY DEF StepSchedules
<1> QED BY <1>1, <1>2, RecollectsInv, BeginsInv

LEMMA LinkInv == ASSUME ScheduleInv, Link PROVE ScheduleInv'
<1>1. /\ step.at = "link" /\ step.at # "none"
      /\ UNCHANGED clock /\ UNCHANGED dueAt /\ UNCHANGED acquired /\ UNCHANGED admitted /\ UNCHANGED reads
  BY DEF Link
<1>2. ScheduleTypes /\ JobsInv /\ OwnInv /\ ParentInv /\ PriorInv
  BY DEF ScheduleInv
<1>3. PICK a \in AcquisitionId, w \in DOMAIN occurrences :
         a = step.reads /\ w = step.of /\ Owned(w, a) /\ occurrences[w].job = 0
  BY <1>1, CurrentFacts
<1>4. JobsOf(a) # {}
  BY <1>1, <1>3 DEF ScheduleInv, WriteInv
<1>5. PICK j \in Nat \ {0} : j = Min(JobsOf(a)) /\ j \in JobsOf(a)
  BY <1>4, TheJob
<1>6. PICK x : x = [Current EXCEPT !.job = j, !.status = "linked", !.wait = 0]
  OBVIOUS
<1>7. /\ x \in Occurrence /\ x.schedule = Current.schedule /\ x.for = Current.for /\ x.at = Current.at
      /\ x.missed = Current.missed /\ x.continues = Current.continues /\ x.job = j
      /\ x.attempts = Current.attempts
  <2>1. "linked" \in OccurrenceStatus
    BY DEF OccurrenceStatus
  <2> QED BY <1>1, <1>6, <2>1, CurrentFacts DEF Occurrence
<1>8. Saves(x)
  BY <1>3, <1>5, <1>6 DEF Link
<1>9. /\ occurrences' \in Seq(Occurrence) /\ Len(occurrences') = Len(occurrences) /\ TableKept
      /\ DOMAIN occurrences' = DOMAIN occurrences /\ step' = Resting
      /\ occurrences'[w].job = j /\ occurrences'[w].acquisition = a
      /\ \A o \in DOMAIN occurrences :
            /\ occurrences'[o].attempts = occurrences[o].attempts
            /\ o # w => occurrences'[o] = occurrences[o]
            /\ \/ occurrences'[o].acquisition = occurrences[o].acquisition
               \/ Owned(o, occurrences'[o].acquisition)
  BY <1>1, <1>3, <1>7, <1>8, SavedFacts
<1>10. ScheduleTypes'
  BY <1>1, <1>2, <1>9 DEF ScheduleTypes, Resting
<1>11. ParentInv' /\ ParentsStay
  BY <1>1, <1>2, <1>9, <1>10, ParentsKept
<1>12. GridInv' /\ OrderInv' /\ PriorInv' /\ OwnInv'
  BY <1>2, <1>9, <1>10, <1>11, GridStays, OwnStays DEF ScheduleInv
\* No other occurrence has the job: it would have the acquisition, which has one owner.
<1>13. \A p \in DOMAIN occurrences : p # w => occurrences[p].job # j
  <2> SUFFICES ASSUME NEW p \in DOMAIN occurrences, occurrences[p].job = j PROVE p = w
    OBVIOUS
  <2>1. j \in JobsOf(occurrences[p].acquisition)
    BY <1>2, <1>5 DEF JobsInv
  <2>2. occurrences[p].acquisition = a
    BY <1>5, <2>1 DEF JobsOf
  <2>3. Owned(p, a)
    BY <1>2, <2>2 DEF OwnInv
  <2> QED BY <1>2, <1>3, <2>3, OneOwner
<1>14. JobsInv'
  <2>1. \A i, k \in DOMAIN admitted' : admitted'[i].acquisition = admitted'[k].acquisition => i = k
    BY <1>1, <1>2 DEF JobsInv
  <2>2. \A b \in AcquisitionId : acquired'[b].job # 0 => acquired'[b].job \in JobsOf(b)'
    BY <1>1, <1>2 DEF JobsInv, JobsOf
  <2>3. ASSUME NEW o \in DOMAIN occurrences, occurrences'[o].job # 0
        PROVE  /\ occurrences'[o].job \in JobsOf(occurrences'[o].acquisition)
               /\ \A p \in DOMAIN occurrences : o # p => occurrences'[o].job # occurrences'[p].job
    <3>1. CASE o = w
      BY <1>5, <1>9, <1>13, <3>1
    <3>2. CASE o # w
      <4>1. occurrences'[o] = occurrences[o]
        BY <1>9, <3>2
      <4>2. occurrences[o].job # 0 /\ occurrences[o].job # j
        BY <1>13, <2>3, <3>2, <4>1
      <4>3. occurrences'[o].job \in JobsOf(occurrences'[o].acquisition)
        BY <1>2, <4>1, <4>2 DEF JobsInv
      <4>4. \A p \in DOMAIN occurrences : o # p => occurrences'[o].job # occurrences'[p].job
        BY <1>2, <1>9, <4>1, <4>2 DEF JobsInv
      <4> QED BY <4>3, <4>4
    <3> QED BY <3>1, <3>2
  <2>4. \A o \in DOMAIN occurrences' : occurrences'[o].job # 0 =>
           occurrences'[o].job \in {k \in DOMAIN admitted' : admitted'[k].acquisition = occurrences'[o].acquisition}
    BY <1>1, <1>9, <2>3 DEF JobsOf
  <2> QED BY <1>9, <2>1, <2>2, <2>3, <2>4 DEF JobsInv, JobsOf
<1>15. WriteInv' /\ BudgetInv'
  BY <1>1, <1>9 DEF ScheduleInv, WriteInv, BudgetInv, Resting
<1> QED BY <1>10, <1>11, <1>12, <1>14, <1>15 DEF ScheduleInv

LEMMA QueueByHandInv == ASSUME ScheduleInv, QueueByHand PROVE ScheduleInv'
<1>1. /\ step = Resting /\ UNCHANGED clock /\ UNCHANGED dueAt /\ UNCHANGED occurrences
      /\ UNCHANGED step /\ UNCHANGED reads
  BY DEF QueueByHand, ByHand, NoCollection
<1>2. ScheduleTypes /\ TablesInv
  BY DEF ScheduleInv, TablesInv
<1>3. PICK a \in AcquisitionId :
         /\ Admits(a)
         /\ acquired' = [acquired EXCEPT ![a].job = IF JobsOf(a) = {} THEN Len(admitted) + 1 ELSE Min(JobsOf(a))]
  BY DEF QueueByHand
<1>4. /\ admitted' \in Seq(Admission) /\ JobsGrow
      /\ JobsOf(a) = {} => Len(admitted') = Len(admitted) + 1 /\ JobsOf(a)' = {Len(admitted) + 1}
      /\ JobsOf(a) # {} => admitted' = admitted
  BY <1>3, AdmitsFacts
<1>5. PICK j \in Nat : /\ j = IF JobsOf(a) = {} THEN Len(admitted) + 1 ELSE Min(JobsOf(a))
                       /\ j \in JobsOf(a)'
  <2>1. CASE JobsOf(a) = {}
    BY <1>2, <1>4, <2>1, Numbers
  <2>2. CASE JobsOf(a) # {}
    <3>1. Min(JobsOf(a)) \in JobsOf(a) /\ Min(JobsOf(a)) \in Nat
      BY <2>2, TheJob
    <3>2. JobsOf(a)' = JobsOf(a)
      BY <1>4, <2>2 DEF JobsOf
    <3> QED BY <2>2, <3>1, <3>2
  <2> QED BY <2>1, <2>2
<1>6. /\ acquired' \in [AcquisitionId -> Acquisition] /\ acquired'[a].job = j
      /\ \A b \in AcquisitionId : /\ acquired'[b].parent = acquired[b].parent
                                  /\ b # a => acquired'[b].job = acquired[b].job
  BY <1>2, <1>3, <1>5, NotedFacts
<1>7. ScheduleTypes'
  BY <1>1, <1>2, <1>4, <1>6 DEF ScheduleTypes
<1>8. \A b \in AcquisitionId : acquired'[b].job = acquired[b].job \/ acquired'[b].job \in JobsOf(b)'
  BY <1>5, <1>6
<1>9. TablesInv'
  BY <1>1, <1>2, <1>4, <1>6, <1>7, <1>8, TablesStay, SameTable
<1>10. WriteInv' /\ BudgetInv'
  BY <1>1 DEF ScheduleInv, WriteInv, BudgetInv, Resting
<1> QED BY <1>7, <1>9, <1>10 DEF ScheduleInv, TablesInv

\* A reading leaves an acquisition its job, and its parent if it has one.
LEMMA ReadingFacts ==
    ASSUME ScheduleTypes, NEW a \in AcquisitionId, NEW page \in AcquisitionId \cup {0},
           NEW result \in Reading(a, page).sound \cup Reading(a, page).poor
    PROVE  /\ result.of \in Acquisition /\ result.of.job = acquired[a].job
           /\ result.of.parent = IF acquired[a].parent = 0 THEN page ELSE acquired[a].parent
           /\ result.fine \in BOOLEAN
<1> DEFINE was == [acquired[a] EXCEPT !.parent = IF acquired[a].parent = 0 THEN page ELSE acquired[a].parent, !.wait = 0]
           ok(status, more) == [of |-> [was EXCEPT !.status = status, !.more = more], fine |-> TRUE]
           bad(status, wait) == [of |-> [was EXCEPT !.status = status, !.wait = wait], fine |-> FALSE]
<1>1. acquired[a] \in Acquisition /\ clock + RetryDelay \in Nat
  BY ScheduleAssumption DEF ScheduleTypes
<1>2. /\ was \in Acquisition /\ was.job = acquired[a].job
      /\ was.parent = IF acquired[a].parent = 0 THEN page ELSE acquired[a].parent
  BY <1>1 DEF Acquisition
<1>3. result \in {ok("collected", FALSE), ok("partial", FALSE), ok("partial", TRUE),
                  bad("retry_wait", clock + RetryDelay), bad("waiting_auth", 0), bad("failed", 0),
                  bad("collecting", 0)}
  BY DEF Reading
<1> HIDE DEF was
<1>4. ASSUME NEW status \in AcquisitionStatus, NEW more \in BOOLEAN, result = ok(status, more)
      PROVE  /\ result.of \in Acquisition /\ result.of.job = was.job /\ result.of.parent = was.parent
             /\ result.fine \in BOOLEAN
  BY <1>2, <1>4 DEF Acquisition
<1>5. ASSUME NEW status \in AcquisitionStatus, NEW wait \in Nat, result = bad(status, wait)
      PROVE  /\ result.of \in Acquisition /\ result.of.job = was.job /\ result.of.parent = was.parent
             /\ result.fine \in BOOLEAN
  BY <1>2, <1>5 DEF Acquisition
<1> HIDE DEF ok, bad
<1>6. {"collected", "partial", "retry_wait", "waiting_auth", "failed", "collecting"} \subseteq AcquisitionStatus
  BY DEF AcquisitionStatus
<1>7. \/ \E status \in AcquisitionStatus, more \in BOOLEAN : result = ok(status, more)
      \/ \E status \in AcquisitionStatus, wait \in Nat : result = bad(status, wait)
  BY <1>1, <1>3, <1>6
<1> QED BY <1>2, <1>4, <1>5, <1>7

\* An acquisition that is written over keeps its parent, or gets one that no other has.
LEMMA Replaced ==
    ASSUME ScheduleInv, ScheduleTypes', TableKept, NEW a \in AcquisitionId, NEW x \in Acquisition,
           acquired' = [acquired EXCEPT ![a] = x], x.job = acquired[a].job,
           \/ x.parent = acquired[a].parent
           \/ /\ acquired[a].parent = 0 /\ x.parent # 0 /\ Continuation(x.parent) = {}
              /\ a \in Reserved => a \in DOMAIN occurrences /\ x.parent = occurrences[a].continues
    PROVE  /\ ParentInv' /\ ParentsStay
           /\ \A b \in AcquisitionId : acquired'[b].job = acquired[b].job
<1>1. ScheduleTypes /\ ParentInv /\ DOMAIN occurrences' = DOMAIN occurrences
  BY Numbers, LenProperties DEF TableKept, ScheduleTypes, ScheduleInv
<1>2. \A b \in AcquisitionId : acquired'[b] = IF b = a THEN x ELSE acquired[b]
  BY <1>1 DEF ScheduleTypes
<1>3. \A b \in AcquisitionId : acquired'[b].job = acquired[b].job
  BY <1>2
<1>4. CASE x.parent = acquired[a].parent
  <2>1. \A b \in AcquisitionId : acquired'[b].parent = acquired[b].parent
    BY <1>2, <1>4
  <2> QED BY <1>1, <1>3, <2>1, ParentsKept
<1>5. CASE /\ acquired[a].parent = 0 /\ x.parent # 0 /\ Continuation(x.parent) = {}
           /\ a \in Reserved => a \in DOMAIN occurrences /\ x.parent = occurrences[a].continues
  <2>1. ParentsStay
    BY <1>2, <1>5 DEF ParentsStay
  <2>2. \A b \in AcquisitionId : acquired[b].parent # x.parent
    BY <1>5 DEF Continuation
  <2>3. acquired'[a].parent = x.parent /\ \A b \in AcquisitionId : b # a => acquired'[b].parent = acquired[b].parent
    BY <1>2
  <2>4. \A b, c \in AcquisitionId : b # c /\ acquired'[b].parent # 0 => acquired'[b].parent # acquired'[c].parent
    <3> SUFFICES ASSUME NEW b \in AcquisitionId, NEW c \in AcquisitionId, b # c, acquired'[b].parent # 0,
                        acquired'[b].parent = acquired'[c].parent
                 PROVE  FALSE
      OBVIOUS
    <3>1. CASE b = a
      BY <2>2, <2>3, <3>1
    <3>2. CASE c = a
      BY <2>2, <2>3, <3>2
    <3>3. CASE b # a /\ c # a
      BY <1>1, <2>3, <3>3 DEF ParentInv
    <3> QED BY <3>1, <3>2, <3>3
  <2>5. \A b \in Reserved : acquired'[b].parent # 0 =>
           b \in DOMAIN occurrences' /\ acquired'[b].parent = occurrences'[b].continues
    <3> SUFFICES ASSUME NEW b \in Reserved, acquired'[b].parent # 0
                 PROVE  b \in DOMAIN occurrences /\ acquired'[b].parent = occurrences[b].continues
      BY <1>1 DEF TableKept
    <3>1. b \in AcquisitionId
      BY <1>1, Numbers
    <3>2. CASE b = a
      BY <1>5, <2>3, <3>2
    <3>3. CASE b # a
      BY <1>1, <2>3, <3>1, <3>3 DEF ParentInv
    <3> QED BY <3>2, <3>3
  <2> QED BY <1>3, <2>1, <2>4, <2>5 DEF ParentInv
<1> QED BY <1>4, <1>5

LEMMA CollectByHandInv == ASSUME ScheduleInv, CollectByHand PROVE ScheduleInv'
<1>1. /\ step = Resting /\ UNCHANGED clock /\ UNCHANGED dueAt /\ UNCHANGED occurrences
      /\ UNCHANGED admitted /\ UNCHANGED step /\ UNCHANGED reads
  BY DEF CollectByHand, ByHand, NoCollection
<1>2. ScheduleTypes /\ TablesInv
  BY DEF ScheduleInv, TablesInv
<1>3. PICK a \in AcquisitionId :
         \E page \in IF a = ByPerson /\ acquired[a] = Unread
                     THEN {p \in AcquisitionId : acquired[p].more /\ Continuation(p) = {}}
                     ELSE IF acquired[a] = Unread \/ acquired[a].status \in Available THEN {}
                     ELSE {acquired[a].parent} :
            \E result \in Reading(a, page).sound \cup {r \in Reading(a, page).poor : r.of.status = "failed"} :
               acquired' = [acquired EXCEPT ![a] = result.of]
  BY DEF CollectByHand
<1>4. PICK page \in IF a = ByPerson /\ acquired[a] = Unread
                    THEN {p \in AcquisitionId : acquired[p].more /\ Continuation(p) = {}}
                    ELSE IF acquired[a] = Unread \/ acquired[a].status \in Available THEN {}
                    ELSE {acquired[a].parent} :
         \E result \in Reading(a, page).sound \cup {r \in Reading(a, page).poor : r.of.status = "failed"} :
            acquired' = [acquired EXCEPT ![a] = result.of]
  BY <1>3
<1>5. /\ page \in AcquisitionId \cup {0}
      /\ \/ a = ByPerson /\ acquired[a].parent = 0 /\ page # 0 /\ Continuation(page) = {}
         \/ page = acquired[a].parent
  <2>1. CASE a = ByPerson /\ acquired[a] = Unread
    <3>1. page \in AcquisitionId /\ Continuation(page) = {}
      BY <1>4, <2>1
    <3>2. page # 0
      BY <1>2, <3>1, Numbers
    <3> QED BY <2>1, <3>1, <3>2 DEF Unread
  <2>2. CASE ~(a = ByPerson /\ acquired[a] = Unread)
    <3>1. page = acquired[a].parent
      BY <1>4, <2>2
    <3> QED BY <1>2, <3>1 DEF ScheduleTypes, Acquisition
  <2> QED BY <2>1, <2>2
<1>6. PICK result \in Reading(a, page).sound \cup Reading(a, page).poor :
         acquired' = [acquired EXCEPT ![a] = result.of]
  BY <1>4
<1>7. PICK x \in Acquisition : /\ x = result.of /\ x.job = acquired[a].job
                               /\ x.parent = IF acquired[a].parent = 0 THEN page ELSE acquired[a].parent
  BY <1>2, <1>5, <1>6, ReadingFacts
<1>8. acquired' = [acquired EXCEPT ![a] = x]
  BY <1>6, <1>7
<1>9. ScheduleTypes' /\ TableKept
  BY <1>1, <1>2, <1>8, SameTable DEF ScheduleTypes
<1>10. \/ x.parent = acquired[a].parent
       \/ /\ acquired[a].parent = 0 /\ x.parent # 0 /\ Continuation(x.parent) = {}
          /\ a \in Reserved => a \in DOMAIN occurrences /\ x.parent = occurrences[a].continues
  BY <1>2, <1>5, <1>7, Numbers
<1>11. ParentInv' /\ ParentsStay /\ \A b \in AcquisitionId : acquired'[b].job = acquired[b].job
  BY <1>7, <1>8, <1>9, <1>10, Replaced
<1>12. TablesInv'
  BY <1>1, <1>2, <1>9, <1>11, TablesGrow, NoJobAdded DEF TablesInv
<1>13. WriteInv' /\ BudgetInv'
  BY <1>1 DEF ScheduleInv, WriteInv, BudgetInv, Resting
<1> QED BY <1>9, <1>12, <1>13 DEF ScheduleInv, TablesInv

\* The acquisition that is read belongs to the occurrence, and a parent that it gets is new.
LEMMA TargetFacts ==
    ASSUME ScheduleInv, step.at # "none"
    PROVE  /\ Target \in AcquisitionId /\ Owned(step.of, Target)
           /\ \/ acquired[Target].parent # 0 \/ Current.continues = 0
              \/ /\ acquired[Target].parent = 0 /\ Current.continues # 0 /\ Continuation(Current.continues) = {}
                 /\ Target = step.of
<1>1. ScheduleTypes /\ OwnInv /\ ParentInv /\ PriorInv
  BY DEF ScheduleInv
<1>2. PICK w \in DOMAIN occurrences : /\ w = step.of /\ Current = occurrences[w] /\ Current \in Occurrence
  BY CurrentFacts
<1>3. CASE ~Jira /\ Continuation(Current.continues) # {}
  <2>1. Target = Min(Continuation(Current.continues))
    BY <1>3 DEF Target
  <2>2. PICK a \in Continuation(Current.continues) : TRUE
    BY <1>3
  <2>3. a \in AcquisitionId /\ Current.continues # 0 /\ acquired[a].parent = Current.continues
    BY <2>2 DEF Continuation
  <2>4. \A b \in Continuation(Current.continues) : b = a
    BY <1>1, <2>3 DEF Continuation, ParentInv
  <2>5. Continuation(Current.continues) \in SUBSET Nat /\ \A b \in Continuation(Current.continues) : a <= b
    <3>1. a \in Nat /\ \A b \in Continuation(Current.continues) : b \in Nat
      BY <1>1, Numbers DEF Continuation
    <3>2. a <= a
      BY <3>1
    <3>3. \A b \in Continuation(Current.continues) : a <= b
      BY <2>4, <3>2, Zenon
    <3>4. Continuation(Current.continues) \in SUBSET Nat
      BY <3>1, Zenon
    <3> QED BY <3>3, <3>4
  <2>6. Target = a
    BY <2>1, <2>2, <2>5, LeastIs
  <2> QED BY <1>2, <2>3, <2>6 DEF Owned
<1>4. CASE Jira \/ Continuation(Current.continues) = {}
  <2>1. Target = Current.acquisition
    BY <1>4 DEF Target
  <2>2. Target \in AcquisitionId /\ Owned(w, Target)
    BY <1>1, <1>2, <2>1 DEF OwnInv, Occurrence
  <2>3. CASE Current.continues # 0
    <3>1. ~Jira
      BY <1>1, <1>2, <2>3 DEF PriorInv, Jira
    <3>2. Continuation(Current.continues) = {}
      BY <1>4, <3>1
    <3>3. Target = w
      BY <1>2, <2>2, <2>3, <3>2 DEF Owned, Continuation
    <3> QED BY <1>2, <2>2, <2>3, <3>2, <3>3
  <2> QED BY <1>2, <2>2, <2>3
<1> QED BY <1>3, <1>4

LEMMA ReadProviderInv == ASSUME ScheduleInv, ReadProvider PROVE ScheduleInv'
<1>1. /\ step.at = "read" /\ step.at # "none"
      /\ UNCHANGED clock /\ UNCHANGED dueAt /\ UNCHANGED admitted
      /\ reads' = [reads EXCEPT ![step.of] = @ + 1]
  BY DEF ReadProvider
<1>2. ScheduleTypes /\ TablesInv /\ BudgetInv
  BY DEF ScheduleInv, TablesInv
<1>3. PICK a \in AcquisitionId, w \in DOMAIN occurrences :
         /\ a = Target /\ w = step.of /\ Owned(w, a) /\ w \in Reserved /\ w \in Nat
         /\ Current = occurrences[w] /\ Current \in Occurrence
  BY <1>1, TargetFacts, CurrentFacts
<1> DEFINE kept == [of |-> acquired[a], fine |-> acquired[a].status \in Available]
<1>4. PICK result \in {kept} \cup Reading(a, Current.continues).sound \cup Reading(a, Current.continues).poor :
         /\ acquired' = [acquired EXCEPT ![a] = result.of]
         /\ \/ result.fine /\ step' = [at |-> "queue", of |-> step.of, reads |-> a] /\ UNCHANGED occurrences
            \/ ~result.fine /\ Saves([Current EXCEPT !.status = Failing(result.of.status), !.wait = result.of.wait])
  BY <1>3 DEF ReadProvider
<1>5. PICK x \in Acquisition : /\ x = result.of /\ x.job = acquired[a].job
                               /\ x.parent \in {acquired[a].parent,
                                                IF acquired[a].parent = 0 THEN Current.continues ELSE acquired[a].parent}
  <2>1. CASE result = kept
    BY <1>2, <2>1 DEF ScheduleTypes
  <2>2. CASE result \in Reading(a, Current.continues).sound \cup Reading(a, Current.continues).poor
    <3>1. Current.continues \in AcquisitionId \cup {0}
      BY <1>3 DEF Occurrence
    <3>2. /\ result.of \in Acquisition /\ result.of.job = acquired[a].job
          /\ result.of.parent = IF acquired[a].parent = 0 THEN Current.continues ELSE acquired[a].parent
      BY <1>2, <2>2, <3>1, ReadingFacts
    <3> QED BY <3>2
  <2> QED BY <2>1, <2>2
<1>6. acquired' = [acquired EXCEPT ![a] = x]
  BY <1>4, <1>5
<1>7. \/ x.parent = acquired[a].parent
      \/ /\ acquired[a].parent = 0 /\ x.parent # 0 /\ Continuation(x.parent) = {}
         /\ a \in Reserved => a \in DOMAIN occurrences /\ x.parent = occurrences[a].continues
  <2>1. \/ acquired[a].parent # 0 \/ Current.continues = 0
        \/ /\ acquired[a].parent = 0 /\ Current.continues # 0 /\ Continuation(Current.continues) = {}
           /\ a = w
    BY <1>1, <1>3, TargetFacts
  <2>2. CASE acquired[a].parent # 0 \/ Current.continues = 0
    BY <1>5, <2>2
  <2>3. CASE /\ acquired[a].parent = 0 /\ Current.continues # 0 /\ Continuation(Current.continues) = {}
             /\ a = w
    <3>1. x.parent = acquired[a].parent \/ x.parent = Current.continues
      BY <1>5
    <3> QED BY <1>3, <2>3, <3>1
  <2> QED BY <2>1, <2>2, <2>3
<1>8. acquired' \in [AcquisitionId -> Acquisition]
  BY <1>2, <1>6 DEF ScheduleTypes
\* The read was paid for.
<1>9. /\ reads' \in [Reserved -> Nat] /\ \A o \in Reserved : o # w => reads'[o] = reads[o]
      /\ reads'[w] <= occurrences[w].attempts /\ occurrences[w].attempts <= CollectionBudget
  <2>1. reads[w] \in Nat /\ occurrences[w].attempts \in Nat
    BY <1>2, <1>3 DEF ScheduleTypes, Occurrence
  <2>2. reads[w] < occurrences[w].attempts /\ occurrences[w].attempts <= CollectionBudget
    BY <1>1, <1>2, <1>3 DEF BudgetInv
  <2>3. reads'[w] = reads[w] + 1
    BY <1>1, <1>2, <1>3 DEF ScheduleTypes
  <2>4. reads[w] + 1 <= occurrences[w].attempts
    BY <2>1, <2>2
  <2> QED BY <1>1, <1>2, <1>3, <2>1, <2>2, <2>3, <2>4 DEF ScheduleTypes
<1>10. CASE result.fine /\ step' = [at |-> "queue", of |-> step.of, reads |-> a] /\ UNCHANGED occurrences
  <2>1. step'.at = "queue" /\ step'.of = w /\ step'.reads = a
    BY <1>3, <1>10
  <2>2. TableKept
    BY <1>1, <1>10, SameTable
  <2>3. ScheduleTypes'
    <3>1. step' \in [at : {"none"} \cup WriteToCome, of : Nat, reads : AcquisitionId \cup {0}]
      BY <1>3, <1>10 DEF WriteToCome
    <3> QED BY <1>1, <1>2, <1>8, <1>9, <1>10, <3>1 DEF ScheduleTypes
  <2>4. ParentInv' /\ ParentsStay /\ \A b \in AcquisitionId : acquired'[b].job = acquired[b].job
    BY <1>5, <1>6, <1>7, <2>2, <2>3, Replaced
  <2>5. /\ TablesInv'
        /\ \A o \in DOMAIN occurrences, b \in AcquisitionId : Owned(o, b) => Owned(o, b)'
    BY <1>1, <1>2, <1>10, <2>2, <2>3, <2>4, TablesGrow, NoJobAdded DEF TablesInv
  <2>6. WriteInv'
    <3>1. Owned(w, a)'
      BY <1>3, <2>5
    <3>2. Owned(step.of, step.reads)'
      BY <2>1, <3>1 DEF Owned
    <3>3. /\ w \in DOMAIN occurrences' /\ occurrences'[w].job = 0 /\ occurrences'[w].status \notin Settled
          /\ \A p \in DOMAIN occurrences' : p > w => occurrences'[p].schedule # occurrences'[w].schedule
      BY <1>1, <1>3, <1>10, CurrentFacts
    <3> QED BY <2>1, <3>2, <3>3 DEF WriteInv
  <2>7. BudgetInv'
    <3>1. step'.at # "read"
      BY <2>1
    <3> QED BY <1>2, <1>3, <1>9, <1>10, <3>1 DEF BudgetInv
  <2> QED BY <2>3, <2>5, <2>6, <2>7 DEF ScheduleInv, TablesInv
<1>11. CASE Saves([Current EXCEPT !.status = Failing(result.of.status), !.wait = result.of.wait])
  <2>1. PICK y : y = [Current EXCEPT !.status = Failing(result.of.status), !.wait = result.of.wait]
    OBVIOUS
  <2>2. Failing(result.of.status) \in OccurrenceStatus /\ result.of.wait \in Nat
    BY <1>5 DEF Failing, OccurrenceStatus, Acquisition
  <2>3. /\ y \in Occurrence /\ y.schedule = Current.schedule /\ y.for = Current.for /\ y.at = Current.at
        /\ y.missed = Current.missed /\ y.continues = Current.continues /\ y.job = Current.job
        /\ y.attempts = Current.attempts
    BY <1>3, <2>1, <2>2 DEF Occurrence
  <2>4. y.job = 0 /\ Saves(y)
    BY <1>1, <1>11, <2>1, <2>3, CurrentFacts
  <2>5. /\ occurrences' \in Seq(Occurrence) /\ Len(occurrences') = Len(occurrences) /\ TableKept
        /\ DOMAIN occurrences' = DOMAIN occurrences /\ step' = Resting
        /\ \A o \in DOMAIN occurrences :
              /\ occurrences'[o].attempts = occurrences[o].attempts
              /\ occurrences'[o].job = occurrences[o].job
              /\ \/ occurrences'[o].acquisition = occurrences[o].acquisition
                 \/ Owned(o, occurrences'[o].acquisition)
    BY <1>1, <2>3, <2>4, SavedFacts
  <2>6. ScheduleTypes'
    BY <1>1, <1>2, <1>8, <1>9, <2>5 DEF ScheduleTypes, Resting
  <2>7. ParentInv' /\ ParentsStay /\ \A b \in AcquisitionId : acquired'[b].job = acquired[b].job
    BY <1>5, <1>6, <1>7, <2>5, <2>6, Replaced
  <2>8. TablesInv'
    BY <1>1, <1>2, <2>5, <2>6, <2>7, TablesGrow, NoJobAdded DEF TablesInv
  <2>9. WriteInv'
    BY <2>5 DEF WriteInv, Resting
  <2>10. BudgetInv'
    <3> SUFFICES ASSUME NEW o \in Reserved
                 PROVE  /\ o \notin DOMAIN occurrences => reads'[o] = 0
                        /\ o \in DOMAIN occurrences =>
                              reads'[o] <= occurrences[o].attempts /\ occurrences[o].attempts <= CollectionBudget
      BY <2>5 DEF BudgetInv, Resting
    <3>1. CASE o = w
      BY <1>3, <1>9, <3>1
    <3>2. CASE o # w
      BY <1>2, <1>9, <3>2 DEF BudgetInv
    <3> QED BY <3>1, <3>2
  <2> QED BY <2>6, <2>8, <2>9, <2>10 DEF ScheduleInv, TablesInv
<1> QED BY <1>4, <1>10, <1>11

LEMMA ScheduleStepInv == ASSUME ScheduleInv, ScheduleNext PROVE ScheduleInv'
BY TickInv, JobEndsInv, JobByHandInv, FollowInv, StepSchedulesInv, CheckCollectionInv, ReadProviderInv,
   SubmitInv, NoteJobInv, LinkInv, CollectionEndsInv, EnableScheduleInv, SetPausedInv, RetryInv,
   AcknowledgeInv, CollectByHandInv, QueueByHandInv DEF ScheduleNext

\* The invariant is strong enough.
LEMMA CountedOnce ==
    ASSUME ScheduleInv
    PROVE  EachIntervalOnce
<1>1. ScheduleTypes
  BY DEF ScheduleInv
<1>2. IntervalsAreCounted
  <2> SUFFICES ASSUME NEW s \in Scheduled, NEW o \in OfSchedule(s)
               PROVE  LET end == occurrences[o].for + (1 + occurrences[o].missed) * Interval[s]
                          later == {p \in OfSchedule(s) : p > o}
                      IN  /\ occurrences[o].for <= occurrences[o].at /\ occurrences[o].at < end
                          /\ IF later = {} THEN dueAt[s] = end ELSE occurrences[Min(later)].for = end
    BY DEF IntervalsAreCounted
  <2> DEFINE end == occurrences[o].for + (1 + occurrences[o].missed) * Interval[s]
             later == {p \in OfSchedule(s) : p > o}
  <2>1. /\ occurrences[o].for <= occurrences[o].at /\ occurrences[o].at < end
        /\ \/ (\A p \in OfSchedule(s) : p <= o) /\ dueAt[s] = end
           \/ \E p \in OfSchedule(s) :
                 p > o /\ (\A q \in OfSchedule(s) : q > o => p <= q) /\ occurrences[p].for = end
    BY DEF ScheduleInv, GridInv
  <2> HIDE DEF end
  <2>2. OfSchedule(s) \subseteq Nat /\ o \in Nat
    BY <1>1, Numbers
  <2>3. CASE (\A p \in OfSchedule(s) : p <= o) /\ dueAt[s] = end
    <3>1. later = {}
      BY <2>2, <2>3
    <3> QED BY <2>1, <2>3, <3>1 DEF end
  <2>4. CASE \E p \in OfSchedule(s) :
                p > o /\ (\A q \in OfSchedule(s) : q > o => p <= q) /\ occurrences[p].for = end
    <3>1. PICK p \in OfSchedule(s) :
             p > o /\ (\A q \in OfSchedule(s) : q > o => p <= q) /\ occurrences[p].for = end
      BY <2>4
    <3>2. later \in SUBSET Nat /\ p \in later /\ \A q \in later : p <= q
      BY <2>2, <3>1
    <3>3. Min(later) = p
      BY <3>2, LeastIs
    <3> QED BY <2>1, <3>1, <3>2, <3>3 DEF end
  <2> QED BY <2>1, <2>3, <2>4
<1>3. \A a \in AcquisitionId : Cardinality(JobsOf(a)) <= 1 /\ acquired[a].job \in JobsOf(a) \cup {0}
  <2> SUFFICES ASSUME NEW a \in AcquisitionId PROVE Cardinality(JobsOf(a)) <= 1 /\ acquired[a].job \in JobsOf(a) \cup {0}
    OBVIOUS
  <2>1. acquired[a].job \in JobsOf(a) \cup {0}
    BY DEF ScheduleInv, JobsInv
  <2>2. CASE JobsOf(a) = {}
    BY <2>1, <2>2, FS_EmptySet
  <2>3. CASE JobsOf(a) # {}
    <3>1. PICK j \in JobsOf(a) : TRUE
      BY <2>3
    <3>2. JobsOf(a) = {j}
      BY <3>1 DEF ScheduleInv, JobsInv, JobsOf
    <3>3. Cardinality({j}) = 1
      BY FS_Singleton
    <3> QED BY <2>1, <3>2, <3>3
  <2> QED BY <2>2, <2>3
<1>4. OccurrencesAreDistinct
  <2>1. \A o, p \in DOMAIN occurrences :
           /\ o # p /\ occurrences[o].job # 0 => occurrences[o].job # occurrences[p].job
           /\ o < p /\ occurrences[o].schedule = occurrences[p].schedule => occurrences[o].status \in Settled
    BY DEF ScheduleInv, JobsInv, OrderInv
  <2>2. \A a, b \in AcquisitionId : a # b /\ acquired[a].parent # 0 => acquired[a].parent # acquired[b].parent
    BY DEF ScheduleInv, ParentInv
  <2>3. \A o \in DOMAIN occurrences : reads[o] <= CollectionBudget
    <3> SUFFICES ASSUME NEW o \in DOMAIN occurrences PROVE reads[o] <= CollectionBudget
      OBVIOUS
    <3>1. o \in Reserved /\ occurrences[o] \in Occurrence
      BY <1>1, Numbers
    <3>2. reads[o] \in Nat /\ occurrences[o].attempts \in Nat /\ CollectionBudget \in Nat
      BY <1>1, <3>1, ScheduleAssumption DEF ScheduleTypes, Occurrence
    <3>3. reads[o] <= occurrences[o].attempts /\ occurrences[o].attempts <= CollectionBudget
      BY <3>1 DEF ScheduleInv, BudgetInv
    <3> QED BY <3>2, <3>3
  <2> QED BY <1>3, <2>1, <2>2, <2>3 DEF OccurrencesAreDistinct
<1> QED BY <1>2, <1>4 DEF EachIntervalOnce

LEMMA ScheduleAlways == ASSUME ScheduleInv, [ScheduleNext]_scheduleVars PROVE ScheduleInv'
<1>1. CASE UNCHANGED scheduleVars
  <2>1. UNCHANGED <<dueAt, occurrences, acquired, admitted, step, reads>> /\ UNCHANGED clock
    BY <1>1 DEF scheduleVars
  <2>2. clock' \in Nat
    BY <2>1 DEF ScheduleInv, ScheduleTypes
  <2> QED BY <2>1, <2>2, ScheduleStutterInv
<1> QED BY <1>1, ScheduleStepInv

\* Time is cut into intervals without gap or overlap and each is counted once, an acquisition
\* has one job, and an occurrence reads its provider within the budget, for any schedules,
\* intervals and budget, wherever the process ends (schedule/manager.go).
THEOREM EachIntervalIsCountedOnce == ScheduleSpec => []EachIntervalOnce
<1>1. ScheduleInv /\ [ScheduleNext]_scheduleVars => ScheduleInv'
  BY ScheduleAlways
<1>2. ScheduleInv => EachIntervalOnce
  BY CountedOnce
<1> QED BY <1>1, <1>2, ScheduleStarts, PTL DEF ScheduleSpec

LEMMA ClockStays ==
    ASSUME clock \in 0..ClockBound, [ScheduleNext]_scheduleVars PROVE clock' \in 0..ClockBound
<1>1. CASE clock' = clock
  BY <1>1
<1>2. CASE Tick
  BY <1>2, ScheduleAssumption DEF Tick
<1>3. CASE JobEnds \/ JobByHand \/ Follow \/ StepSchedules \/ CheckCollection \/ ReadProvider
  BY <1>1, <1>3 DEF JobEnds, JobByHand, Follow, StepSchedules, CheckCollection, ReadProvider
<1>4. CASE Submit \/ NoteJob \/ Link \/ CollectionEnds \/ EnableSchedule \/ SetPaused
  BY <1>1, <1>4 DEF Submit, NoteJob, Link, CollectionEnds, EnableSchedule, SetPaused
<1>5. CASE Retry \/ Acknowledge \/ CollectByHand \/ QueueByHand
  BY <1>1, <1>5 DEF Retry, Acknowledge, CollectByHand, QueueByHand
<1>6. CASE UNCHANGED scheduleVars
  BY <1>1, <1>6 DEF scheduleVars
<1> QED BY <1>2, <1>3, <1>4, <1>5, <1>6 DEF ScheduleNext

\* The occurrences, the jobs they name and what is being collected stay well typed.
THEOREM ScheduleTypeCorrect == ScheduleSpec => []ScheduleTypeOK
<1>1. ScheduleInit => ScheduleInv /\ clock \in 0..ClockBound
  BY ScheduleStarts, ScheduleAssumption DEF ScheduleInit
<1>2. (ScheduleInv /\ clock \in 0..ClockBound) /\ [ScheduleNext]_scheduleVars => (ScheduleInv /\ clock \in 0..ClockBound)'
  BY ScheduleAlways, ClockStays
<1>3. ASSUME ScheduleInv, clock \in 0..ClockBound PROVE ScheduleTypeOK
  <2>1. /\ occurrences \in Seq(Occurrence) /\ admitted \in Seq(Admission) /\ Len(occurrences) <= OccurrenceBound
        /\ JobsInv /\ WriteInv
        /\ step \in [at : {"none"} \cup WriteToCome, of : Nat, reads : AcquisitionId \cup {0}]
    BY <1>3 DEF ScheduleInv, ScheduleTypes
  <2>2. /\ DOMAIN occurrences = 1..Len(occurrences) /\ Len(occurrences) \in Nat
        /\ DOMAIN admitted = 1..Len(admitted) /\ Len(admitted) \in Nat
        /\ \A o \in DOMAIN occurrences : occurrences[o] \in Occurrence
    BY <2>1, LenProperties, ElementOfSeq
  <2>3. ASSUME NEW o \in DOMAIN occurrences
        PROVE  /\ occurrences[o].status \in {"pending", "retry_wait", "waiting_auth", "blocked", "linked"} \cup Settled
               /\ occurrences[o].job \in 0..Len(admitted)
    <3>1. occurrences[o] \in Occurrence
      BY <2>2
    <3>2. occurrences[o].job # 0 => occurrences[o].job \in DOMAIN admitted
      BY <2>1 DEF JobsInv, JobsOf
    <3> QED BY <2>2, <3>1, <3>2 DEF Occurrence, OccurrenceStatus
  <2>4. step.of \in 0..Len(occurrences) /\ ((step.at = "none") <=> (step.of = 0))
    <3>1. CASE step.at = "none"
      BY <2>1, <2>2, <3>1 DEF WriteInv, Resting
    <3>2. CASE step.at # "none"
      BY <2>1, <2>2, <3>2 DEF WriteInv
    <3> QED BY <3>1, <3>2
  <2> QED BY <1>3, <2>1, <2>3, <2>4 DEF ScheduleTypeOK
<1> QED BY <1>1, <1>2, <1>3, PTL DEF ScheduleSpec
=============================================================================

--------------------------- MODULE Videos_proofs ----------------------------
(***************************************************************************)
(* Proofs about what is kept of videos beside the pipeline, for any        *)
(* videos, processes, requests and bounds:                                 *)
(*                                                                         *)
(*   RetriesAreDueAlways     RetrySweeps: scripts retry the failure they   *)
(*                           saw, leave no video waiting for nothing and   *)
(*                           hide no last failure;                         *)
(*   ReportsAreCurrentAlways SummaryReports: what is stored, rendered and  *)
(*                           sent of a video at rest is the same;          *)
(*   UnseenVideosAreNoticed  Personas: a video that the persona of its     *)
(*                           channel has not seen brings a new one;        *)
(*   CostsAreOnRecordAlways  LlmBudget: the spend is within the cap and the *)
(*                           calls that had passed the check;              *)
(*   DeskAgreesAlways        ReaderDesk: what the reader shows agrees with *)
(*                           itself and with the transcript.               *)
(*                                                                         *)
(* The services share nothing.  The invariant of each says what a process  *)
(* has read or written and not yet committed.                              *)
(***************************************************************************)
EXTENDS RetrySweeps, SummaryReports, Personas, LlmBudget, ReaderDesk,
        SequenceTheorems, FiniteSetTheorems, TLAPS

-----------------------------------------------------------------------------
(***************************************************************************)
(* RetrySweeps.                                                            *)
(***************************************************************************)
\* What attempts and scripts are made of.
JobStatuses == {"active", "completed", "failed", "cancelled"}

JobRows == [video : SweptVideos, status : JobStatuses, cause : Causes \cup {"none", "refused"},
            review : BOOLEAN, hidden : BOOLEAN, by : Sweeps \cup {"user"}, after : Nat]

SeenRows == UNION {[js -> JobRows] : js \in SUBSET Nat}

SweepRows == [at : {"idle", "scan", "create", "publish"}, todo : Seq(Nat), seen : SeenRows,
              latest : Nat, retried : SUBSET SweptVideos, put : SUBSET SweptVideos]

\* Types; what a script has read and has still to do are attempts.
SweepTypeInv ==
    /\ jobs \in Seq(JobRows)
    /\ status \in [SweptVideos -> {"pending", "working", "completed", "failed"}]
    /\ sweep \in [Sweeps -> SweepRows]

SameVideo(j, k) == jobs[j].video = jobs[k].video

\* Every video has an attempt; only the latest one may be active, and it is not hidden.
LatestInv ==
    /\ \A v \in SweptVideos : \E j \in DOMAIN jobs : jobs[j].video = v
    /\ \A j \in DOMAIN jobs :
          /\ jobs[j].status = "active" => \A k \in DOMAIN jobs : SameVideo(j, k) => k <= j
          /\ jobs[j].hidden => /\ jobs[j].status = "failed"
                               /\ \E k \in DOMAIN jobs : SameVideo(j, k) /\ j < k

\* A failure that is in view, apart from a refused message.
InView(j) == jobs[j].status = "failed" /\ ~jobs[j].hidden /\ jobs[j].cause # "refused"

\* At most one of a video is, and none beside an active attempt.
ViewInv ==
    \A j, k \in DOMAIN jobs : SameVideo(j, k) /\ j # k =>
        ~(InView(j) /\ (InView(k) \/ jobs[k].status = "active"))

\* What a retry by s needs of the attempt that it follows.
Retriable(s, j) ==
    /\ j \in DOMAIN jobs /\ jobs[j].status # "active" /\ ~jobs[j].review
    /\ s = "transient" => jobs[j].status = "failed" /\ jobs[j].cause = "transient"

\* A retry of a script follows a failure that it may retry.
FollowInv == \A j \in DOMAIN jobs : jobs[j].by \in Sweeps => Retriable(jobs[j].by, jobs[j].after)

\* A failure that was read is still one, of the same cause.
SeenIsTrue(row) ==
    \A j \in DOMAIN row.seen :
       /\ j \in DOMAIN jobs
       /\ row.seen[j].status = "failed" =>
             /\ jobs[j].status = "failed" /\ jobs[j].cause = row.seen[j].cause
             /\ jobs[j].review = row.seen[j].review

\* The candidates of the downloads are of different videos; of those that are still to do
\* nothing but failures was read.
TodoInv(s, row) ==
    /\ \A k \in DOMAIN row.todo : row.todo[k] \in DOMAIN jobs
    /\ row.at \in {"create", "publish"} => row.todo # <<>> /\ row.latest \in DOMAIN jobs
    /\ s = "download" =>
          /\ \A i, k \in DOMAIN row.todo : i # k => ~SameVideo(row.todo[i], row.todo[k])
          /\ \A j \in DOMAIN row.seen, k \in DOMAIN row.todo :
                SameVideo(j, row.todo[k]) /\ (row.at = "scan" \/ k # 1) =>
                    row.seen[j].status = "failed"

StageInv(s, row) ==
    /\ row.at = "create" => Retriable(s, row.latest)
    /\ row.at = "publish" => jobs[row.latest].status \in {"active", "cancelled"}

ScriptInv(s, row) == SeenIsTrue(row) /\ TodoInv(s, row) /\ StageInv(s, row)

\* Two scripts never publish the same attempt.
ScriptsInv ==
    /\ \A s \in Sweeps : ScriptInv(s, sweep[s])
    /\ \A s, t \in Sweeps :
          s # t /\ sweep[s].at = "publish" /\ sweep[t].at = "publish" =>
              sweep[s].latest # sweep[t].latest

Awaited(v) ==
    \/ IsActive(v) \/ jobs[Latest(v)].status = "cancelled" \/ jobs[Latest(v)].cause = "refused"

\* A script may write that a video waits: then it has something to wait for, until the commit.
AwaitedInv == \A v \in SweptVideos : status[v] = "pending" \/ ~NotLocked(v) => Awaited(v)

JobsInv == LatestInv /\ ViewInv /\ FollowInv

\* The invariant.
SweepInv == SweepTypeInv /\ JobsInv /\ ScriptsInv /\ AwaitedInv

-----------------------------------------------------------------------------
\* A set of numbers that is not empty has a smallest one, and a largest one when it is bounded.
LEMMA SmallestExists ==
    ASSUME NEW T, T \subseteq Nat, T # {}
    PROVE  \E x \in T : \A y \in T : x <= y
<1> DEFINE R == OpToRel(<, Nat)
<1>1. IsWellFoundedOn(R, Nat) /\ \A x, y \in Nat : y < x => <<y, x>> \in R
  BY NatLessThanWellFounded DEF OpToRel
<1> HIDE DEF R
<1>2. \E x \in T : \A y \in T : ~(<<y, x>> \in R)
  BY <1>1, WFMin, Zenon
<1>3. PICK x \in T : \A y \in T : ~(<<y, x>> \in R)
  BY <1>2
<1>4. x \in Nat /\ \A y \in T : y \in Nat /\ ~(y < x)
  BY <1>1, <1>3
<1>5. QED
  BY <1>4

\* A set of numbers up to n has a largest one: by induction on n.
LEMMA LargestExists ==
    ASSUME NEW n \in Nat, NEW T, T \subseteq 0 .. n, T # {}
    PROVE  \E x \in T : \A y \in T : y <= x
<1> DEFINE gaps == {n - y : y \in T}
<1>1. gaps \subseteq Nat /\ gaps # {}
  <2>1. \A y \in T : n - y \in Nat
    OBVIOUS
  <2>2. QED
    BY <2>1
<1>2. PICK g \in gaps : \A h \in gaps : g <= h
  BY <1>1, SmallestExists
<1>3. PICK x \in T : g = n - x
  BY <1>2
<1>4. \A y \in T : n - x <= n - y
  BY <1>2, <1>3
<1>5. QED
  BY <1>4

IsLatest(j, v) ==
    j \in DOMAIN jobs /\ jobs[j].video = v
    /\ \A k \in DOMAIN jobs : jobs[k].video = v => k <= j

\* The numbers of the attempts.
JobRange == jobs \in Seq(JobRows) => DOMAIN jobs = 1 .. Len(jobs) /\ Len(jobs) \in Nat
                                     /\ \A j \in DOMAIN jobs : jobs[j] \in JobRows

\* Attempts are numbered from 1.
LEMMA JobRangeIs == JobRange
BY LenProperties, ElementOfSeq DEF JobRange

\* Latest chooses the largest number.
LEMMA LatestIs ==
    ASSUME jobs \in Seq(JobRows), LatestInv, NEW v \in SweptVideos
    PROVE  IsLatest(Latest(v), v) /\ \A j \in DOMAIN jobs : IsLatest(j, v) => j = Latest(v)
<1>1. DOMAIN jobs = 1 .. Len(jobs) /\ Len(jobs) \in Nat
  BY JobRangeIs DEF JobRange
<1>2. Attempts(v) \subseteq 0 .. Len(jobs) /\ Attempts(v) # {}
  BY <1>1 DEF Attempts, LatestInv
<1>3. \E j \in Attempts(v) : \A k \in Attempts(v) : k <= j
  BY <1>1, <1>2, LargestExists
<1>4. Latest(v) \in Attempts(v) /\ \A k \in Attempts(v) : k <= Latest(v)
  BY <1>3 DEF Latest
<1>5. IsLatest(Latest(v), v)
  BY <1>4 DEF IsLatest, Attempts
<1>6. ASSUME NEW j \in DOMAIN jobs, IsLatest(j, v) PROVE j = Latest(v)
  <2>1. j <= Latest(v) /\ Latest(v) <= j /\ j \in Nat /\ Latest(v) \in Nat
    BY <1>1, <1>5, <1>6 DEF IsLatest
  <2>2. QED
    BY <2>1
<1>7. QED
  BY <1>5, <1>6

\* Latest finds the attempt that LatestInv speaks of.
LatestFound ==
    \A v \in SweptVideos :
       IsLatest(Latest(v), v) /\ \A j \in DOMAIN jobs : IsLatest(j, v) => j = Latest(v)

\* The same after a step.
LEMMA LatestIsNext == (jobs \in Seq(JobRows))' /\ LatestInv' => LatestFound'
<1>1. jobs \in Seq(JobRows) /\ LatestInv => LatestFound
  BY LatestIs DEF LatestFound
<1>2. QED
  BY <1>1, PTL

\* An attempt goes on until it ends; its failure stays one, of the same cause.
JobsKept ==
    \A j \in DOMAIN jobs :
       /\ j \in DOMAIN jobs' /\ jobs'[j].video = jobs[j].video
       /\ jobs'[j].by = jobs[j].by /\ jobs'[j].after = jobs[j].after
       /\ jobs[j].status # "active" =>
             jobs'[j].status # "active" /\ jobs'[j].review = jobs[j].review
       /\ jobs[j].status = "failed" =>
             jobs'[j].status = "failed" /\ jobs'[j].cause = jobs[j].cause

\* What may be retried may be retried later.
LEMMA RetriableStays ==
    ASSUME JobsKept, NEW s, NEW j, Retriable(s, j)
    PROVE  Retriable(s, j)'
BY DEF JobsKept, Retriable

\* A script that does nothing, while attempts go on.
LEMMA ScriptKept ==
    ASSUME JobsKept, NEW s, NEW row, ScriptInv(s, row),
           row.at = "publish" => jobs'[row.latest].status \in {"active", "cancelled"}
    PROVE  ScriptInv(s, row)'
<1>1. SeenIsTrue(row)'
  BY DEF JobsKept, ScriptInv, SeenIsTrue
<1>2. TodoInv(s, row)'
  BY DEF JobsKept, ScriptInv, SeenIsTrue, TodoInv, SameVideo
<1>3. StageInv(s, row)'
  BY RetriableStays DEF ScriptInv, StageInv
<1>4. QED
  BY <1>1, <1>2, <1>3 DEF ScriptInv

\* An attempt is added to a video that has no active one.
LEMMA AddStep ==
    ASSUME SweepTypeInv, JobsInv, NEW v \in SweptVideos, ~IsActive(v), NEW new \in JobRows,
           new.video = v, ~new.hidden,
           new.status = "active" \/ (new.status = "failed" /\ new.cause = "refused"),
           new.by \in Sweeps => Retriable(new.by, new.after),
           jobs' = Superseding(v, new)
    PROVE  /\ (jobs \in Seq(JobRows))' /\ JobsInv' /\ JobsKept
           /\ Len(jobs') = Len(jobs) + 1 /\ jobs'[Len(jobs) + 1] = new
           /\ Len(jobs) + 1 \in DOMAIN jobs' /\ Len(jobs) + 1 \notin DOMAIN jobs
           /\ \A j \in DOMAIN jobs : jobs'[j].status = jobs[j].status
           /\ Awaited(v)' /\ \A u \in SweptVideos : Awaited(u) => Awaited(u)'
<1> DEFINE old == [j \in DOMAIN jobs |->
                     IF jobs[j].video = v /\ jobs[j].status = "failed"
                     THEN [jobs[j] EXCEPT !.hidden = TRUE] ELSE jobs[j]]
<1>1. /\ DOMAIN jobs = 1 .. Len(jobs) /\ Len(jobs) \in Nat
      /\ \A j \in DOMAIN jobs : jobs[j] \in JobRows
  BY JobRangeIs DEF JobRange, SweepTypeInv
<1>0. PICK n \in Nat : n = Len(jobs) + 1
  BY <1>1
<1>2. /\ DOMAIN old = 1 .. Len(jobs)
      /\ \A j \in DOMAIN jobs :
            /\ old[j] \in JobRows /\ old[j].video = jobs[j].video
            /\ old[j].status = jobs[j].status /\ old[j].cause = jobs[j].cause
            /\ old[j].review = jobs[j].review /\ old[j].by = jobs[j].by
            /\ old[j].after = jobs[j].after
            /\ old[j].hidden = (jobs[j].hidden \/ (jobs[j].video = v /\ jobs[j].status = "failed"))
  BY <1>1 DEF JobRows
<1>3. old \in Seq(JobRows) /\ Len(old) = Len(jobs)
  <2>1. old \in [1 .. Len(jobs) -> JobRows]
    BY <1>1, <1>2
  <2>2. QED
    BY <1>1, <2>1, SeqDef, LenProperties
<1> HIDE DEF old
<1>4. jobs' = Append(old, new)
  BY DEF Superseding, old
<1>5. /\ jobs' \in Seq(JobRows) /\ Len(jobs') = n /\ jobs'[n] = new
      /\ \A j \in 1 .. Len(jobs) : jobs'[j] = old[j]
  BY <1>0, <1>3, <1>4, AppendProperties
<1>6. DOMAIN jobs' = 1 .. n
  BY <1>5, LenProperties
<1>7. /\ \A j \in DOMAIN jobs :
            /\ j \in DOMAIN jobs' /\ jobs'[j].video = jobs[j].video
            /\ jobs'[j].status = jobs[j].status /\ jobs'[j].cause = jobs[j].cause
            /\ jobs'[j].review = jobs[j].review /\ jobs'[j].by = jobs[j].by
            /\ jobs'[j].after = jobs[j].after
            /\ jobs'[j].hidden = (jobs[j].hidden \/ (jobs[j].video = v /\ jobs[j].status = "failed"))
            /\ j < n
      /\ \A j \in DOMAIN jobs' : j \in DOMAIN jobs \/ j = n
      /\ n \in DOMAIN jobs' /\ n \notin DOMAIN jobs /\ n \in Nat
  BY <1>0, <1>1, <1>2, <1>5, <1>6
<1>8. JobsKept
  BY <1>7 DEF JobsKept
<1>9. \A j \in DOMAIN jobs : jobs[j].video = v => jobs[j].status # "active"
  BY DEF IsActive, Attempts
<1>10. LatestInv'
  <2>1. \A u \in SweptVideos : \E j \in DOMAIN jobs' : jobs'[j].video = u
    BY <1>7 DEF JobsInv, LatestInv
  <2>2. ASSUME NEW j \in DOMAIN jobs', jobs'[j].status = "active",
               NEW k \in DOMAIN jobs', jobs'[j].video = jobs'[k].video
        PROVE  k <= j
    <3>1. CASE j = n
      BY <1>1, <1>7, <3>1
    <3>2. CASE j \in DOMAIN jobs
      <4>1. jobs[j].status = "active" /\ jobs[j].video # v
        BY <1>7, <1>9, <2>2, <3>2
      <4>2. k \in DOMAIN jobs
        BY <1>5, <1>7, <2>2, <3>2, <4>1
      <4>3. QED
        BY <1>7, <2>2, <3>2, <4>1, <4>2 DEF JobsInv, LatestInv, SameVideo
    <3>3. QED
      BY <1>7, <3>1, <3>2
  <2>3. ASSUME NEW j \in DOMAIN jobs', jobs'[j].hidden
        PROVE  jobs'[j].status = "failed"
               /\ \E k \in DOMAIN jobs' : jobs'[j].video = jobs'[k].video /\ j < k
    <3>1. j \in DOMAIN jobs
      BY <1>5, <1>7, <2>3
    <3>2. CASE jobs[j].hidden
      BY <1>7, <3>1, <3>2 DEF JobsInv, LatestInv, SameVideo
    <3>3. CASE jobs[j].video = v /\ jobs[j].status = "failed"
      BY <1>5, <1>7, <3>1, <3>3
    <3>4. QED
      BY <1>7, <2>3, <3>1, <3>2, <3>3
  <2>4. QED
    BY <2>1, <2>2, <2>3 DEF LatestInv, SameVideo
<1>11. ViewInv'
  <2>1. ASSUME NEW j \in DOMAIN jobs', NEW k \in DOMAIN jobs', jobs'[j].video = jobs'[k].video,
               j # k, InView(j)', InView(k)' \/ jobs'[k].status = "active"
        PROVE  FALSE
    <3>1. j \in DOMAIN jobs /\ jobs[j].video # v /\ InView(j)
      BY <1>5, <1>7, <2>1 DEF InView
    <3>2. k \in DOMAIN jobs /\ (InView(k) \/ jobs[k].status = "active")
      BY <1>5, <1>7, <2>1, <3>1 DEF InView
    <3>3. QED
      BY <1>7, <2>1, <3>1, <3>2 DEF JobsInv, ViewInv, SameVideo
  <2>2. QED
    BY <2>1 DEF ViewInv, SameVideo
<1>12. FollowInv'
  <2>1. ASSUME NEW j \in DOMAIN jobs', jobs'[j].by \in Sweeps,
               NEW s, NEW a, s = jobs'[j].by, a = jobs'[j].after
        PROVE  Retriable(s, a)'
    <3>1. CASE j = n
      BY <1>5, <1>8, <2>1, <3>1, RetriableStays
    <3>2. CASE j \in DOMAIN jobs
      BY <1>7, <1>8, <2>1, <3>2, RetriableStays DEF JobsInv, FollowInv
    <3>3. QED
      BY <1>7, <3>1, <3>2
  <2>2. QED
    BY <2>1 DEF FollowInv
<1>13. Awaited(v)'
  <2>1. IsLatest(n, v)'
    BY <1>1, <1>5, <1>6, <1>7 DEF IsLatest
  <2>2. Latest(v)' = n
    BY <1>5, <1>7, <1>10, <2>1, LatestIsNext DEF LatestFound
  <2>3. new.status = "active" => IsActive(v)'
    BY <1>5, <1>7 DEF IsActive, Attempts
  <2>4. QED
    BY <1>5, <2>2, <2>3 DEF Awaited
<1>14. ASSUME NEW u \in SweptVideos, Awaited(u), u # v PROVE Awaited(u)'
  <2>1. PICK l \in DOMAIN jobs : IsLatest(l, u) /\ l = Latest(u)
    <3>1. IsLatest(Latest(u), u)
      BY LatestIs DEF SweepTypeInv, JobsInv
    <3>2. QED
      BY <3>1 DEF IsLatest
  <2>2. \A j \in DOMAIN jobs' : jobs'[j].video = u => j \in DOMAIN jobs
    BY <1>5, <1>7, <1>14
  <2>3. IsLatest(l, u)'
    BY <1>7, <2>1, <2>2 DEF IsLatest
  <2>4. Latest(u)' = l
    BY <1>5, <1>7, <1>10, <2>1, <2>3, LatestIsNext DEF LatestFound
  <2>5. IsActive(u) => IsActive(u)'
    BY <1>7 DEF IsActive, Attempts
  <2>6. jobs'[l].status = jobs[l].status /\ jobs'[l].cause = jobs[l].cause
    BY <1>7, <2>1
  <2>7. QED
    BY <1>14, <2>1, <2>4, <2>5, <2>6 DEF Awaited
<1>15. QED
  BY <1>5, <1>7, <1>8, <1>10, <1>11, <1>12, <1>13, <1>14, <1>0 DEF JobsInv

\* An attempt that is active ends, or the message of one that is not at work is refused.
LEMMA ChangeStep ==
    ASSUME SweepTypeInv, JobsInv, NEW j \in DOMAIN jobs, NEW row \in JobRows,
           row.video = jobs[j].video, row.by = jobs[j].by, row.after = jobs[j].after,
           ~row.hidden, row.status # "active",
           \/ jobs[j].status = "active"
           \/ jobs[j].status = "cancelled" /\ row.status = "failed" /\ row.cause = "refused"
              /\ row.review = jobs[j].review,
           jobs' = [jobs EXCEPT ![j] = row]
    PROVE  /\ (jobs \in Seq(JobRows))' /\ JobsInv' /\ JobsKept
           /\ DOMAIN jobs' = DOMAIN jobs /\ jobs'[j] = row
           /\ \A k \in DOMAIN jobs : k # j => jobs'[k] = jobs[k]
           /\ \A u \in SweptVideos :
                 /\ Awaited(u)
                 /\ u = row.video => row.status = "cancelled" \/ row.cause = "refused"
                 => Awaited(u)'
<1>1. /\ DOMAIN jobs = 1 .. Len(jobs) /\ Len(jobs) \in Nat
      /\ \A k \in DOMAIN jobs : jobs[k] \in JobRows
  BY JobRangeIs DEF JobRange, SweepTypeInv
<1>2. /\ jobs' \in Seq(JobRows) /\ DOMAIN jobs' = DOMAIN jobs /\ jobs'[j] = row
      /\ \A k \in DOMAIN jobs : k # j => jobs'[k] = jobs[k]
  <2>1. jobs \in [1 .. Len(jobs) -> JobRows]
    BY <1>1 DEF SweepTypeInv
  <2>2. jobs' \in [1 .. Len(jobs) -> JobRows]
    BY <1>1, <2>1
  <2>3. QED
    BY <1>1, <2>2, SeqDef
<1>3. ~jobs[j].hidden
  BY DEF JobsInv, LatestInv
<1>4. /\ JobsKept
      /\ \A k \in DOMAIN jobs : jobs'[k].video = jobs[k].video
      /\ \A k \in DOMAIN jobs :
            (jobs'[k].status = "active" => jobs[k].status = "active")
            /\ (jobs'[k].hidden = jobs[k].hidden) /\ jobs'[k].by = jobs[k].by
            /\ jobs'[k].after = jobs[k].after
  <2>1. row.hidden = jobs[j].hidden
    BY <1>1, <1>3 DEF JobRows
  <2>2. QED
    BY <1>2, <2>1 DEF JobsKept
<1>5. LatestInv'
  <2>1. \A u \in SweptVideos : \E k \in DOMAIN jobs' : jobs'[k].video = u
    BY <1>2, <1>4 DEF JobsInv, LatestInv
  <2>2. ASSUME NEW k \in DOMAIN jobs'
        PROVE  /\ jobs'[k].status = "active" =>
                     \A i \in DOMAIN jobs' : jobs'[k].video = jobs'[i].video => i <= k
               /\ jobs'[k].hidden => /\ jobs'[k].status = "failed"
                                     /\ \E i \in DOMAIN jobs' : jobs'[k].video = jobs'[i].video /\ k < i
    BY <1>2, <1>3, <1>4 DEF JobsInv, LatestInv, SameVideo
  <2>3. QED
    BY <2>1, <2>2 DEF LatestInv, SameVideo
<1>6. ViewInv'
  <2>1. ASSUME NEW i \in DOMAIN jobs', NEW k \in DOMAIN jobs', jobs'[i].video = jobs'[k].video,
               i # k, InView(i)', InView(k)' \/ jobs'[k].status = "active"
        PROVE  FALSE
    <3>1. i \in DOMAIN jobs /\ k \in DOMAIN jobs /\ SameVideo(i, k) /\ SameVideo(k, i)
      BY <1>2, <1>4, <2>1 DEF SameVideo
    <3>2. CASE i # j /\ k # j
      BY <1>2, <2>1, <3>1, <3>2 DEF InView, JobsInv, ViewInv
    <3>3. CASE i = j
      <4>1. jobs[i].status = "active"
        BY <1>2, <2>1, <3>3 DEF InView
      <4>2. jobs'[k] = jobs[k]
        BY <1>2, <2>1, <3>1, <3>3
      <4>3. InView(k) \/ jobs[k].status = "active"
        BY <2>1, <4>2 DEF InView
      <4>4. CASE InView(k)
        BY <2>1, <3>1, <4>1, <4>4 DEF JobsInv, ViewInv
      <4>5. CASE jobs[k].status = "active"
        BY <1>1, <2>1, <3>1, <4>1, <4>5 DEF JobsInv, LatestInv
      <4>6. QED
        BY <4>3, <4>4, <4>5
    <3>4. CASE k = j
      <4>1. jobs[k].status = "active" /\ jobs'[i] = jobs[i]
        BY <1>2, <2>1, <3>1, <3>4 DEF InView
      <4>2. InView(i)
        BY <2>1, <4>1 DEF InView
      <4>3. QED
        BY <2>1, <3>1, <4>1, <4>2 DEF JobsInv, ViewInv
    <3>5. QED
      BY <3>2, <3>3, <3>4
  <2>2. QED
    BY <2>1 DEF ViewInv, SameVideo
<1>7. FollowInv'
  <2>1. ASSUME NEW k \in DOMAIN jobs', jobs'[k].by \in Sweeps,
               NEW s, NEW a, s = jobs'[k].by, a = jobs'[k].after
        PROVE  Retriable(s, a)'
    BY <1>2, <1>4, <2>1, RetriableStays DEF JobsInv, FollowInv
  <2>2. QED
    BY <2>1 DEF FollowInv
<1>8. ASSUME NEW u \in SweptVideos, Awaited(u),
             u = row.video => row.status = "cancelled" \/ row.cause = "refused"
      PROVE  Awaited(u)'
  <2>1. PICK l \in DOMAIN jobs : IsLatest(l, u) /\ l = Latest(u)
    <3>1. IsLatest(Latest(u), u)
      BY LatestIs DEF SweepTypeInv, JobsInv
    <3>2. QED
      BY <3>1 DEF IsLatest
  <2>2. IsLatest(l, u)'
    BY <1>2, <1>4, <2>1 DEF IsLatest
  <2>3. Latest(u)' = l
    BY <1>2, <1>5, <2>1, <2>2, LatestIsNext DEF LatestFound
  <2>4. CASE l = j
    BY <1>2, <1>8, <2>1, <2>3, <2>4 DEF Awaited, IsLatest
  <2>5. CASE l # j
    <3>1. jobs'[l] = jobs[l]
      BY <1>2, <2>5
    <3>2. ASSUME IsActive(u) PROVE jobs[l].status = "active"
      <4>1. PICK k \in DOMAIN jobs : jobs[k].video = u /\ jobs[k].status = "active"
        BY <3>2 DEF IsActive, Attempts
      <4>2. k = l
        BY <1>1, <2>1, <4>1 DEF JobsInv, LatestInv, SameVideo, IsLatest
      <4>3. QED
        BY <4>1, <4>2
    <3>3. jobs[l].status = "active" => IsActive(u)'
      BY <1>2, <2>1, <2>2, <3>1 DEF IsActive, Attempts, IsLatest
    <3>4. QED
      BY <1>8, <2>1, <2>3, <3>1, <3>2, <3>3 DEF Awaited
  <2>6. QED
    BY <2>4, <2>5
<1>9. QED
  BY <1>2, <1>4, <1>5, <1>6, <1>7, <1>8 DEF JobsInv

\* The same for a step that leaves the attempts alone.
LEMMA SameJobs ==
    ASSUME UNCHANGED jobs
    PROVE  /\ JobsInv => JobsInv'
           /\ \A s, row : ScriptInv(s, row) => ScriptInv(s, row)'
           /\ \A v \in SweptVideos : Awaited(v) => Awaited(v)'
<1>1. JobsInv => JobsInv'
  BY DEF JobsInv, LatestInv, ViewInv, FollowInv, SameVideo, InView, Retriable
<1>2. ASSUME NEW s, NEW row, ScriptInv(s, row) PROVE ScriptInv(s, row)'
  BY <1>2 DEF ScriptInv, SeenIsTrue, TodoInv, StageInv, SameVideo, Retriable
<1>3. ASSUME NEW v \in SweptVideos, Awaited(v) PROVE Awaited(v)'
  BY <1>3 DEF Awaited, IsActive, Attempts, Latest
<1>4. QED
  BY <1>1, <1>2, <1>3

\* A script that reads, and writes nothing but its session.
LEMMA ScriptStep ==
    ASSUME SweepInv, NEW s \in Sweeps, NEW row \in SweepRows, ScriptInv(s, row),
           row.at # "publish", \A v \in row.put : v \in sweep[s].put \/ Awaited(v),
           sweep' = [sweep EXCEPT ![s] = row], UNCHANGED <<jobs, status>>
    PROVE  SweepInv'
<1>1. sweep \in [Sweeps -> SweepRows] /\ sweep'[s] = row
      /\ \A t \in Sweeps : t # s => sweep'[t] = sweep[t]
  BY DEF SweepInv, SweepTypeInv
<1>2. SweepTypeInv'
  BY <1>1 DEF SweepInv, SweepTypeInv
<1>3. JobsInv'
  BY SameJobs DEF SweepInv
<1>4. ScriptsInv'
  <2>1. \A t \in Sweeps : ScriptInv(t, sweep'[t])
    BY <1>1 DEF SweepInv, ScriptsInv
  <2>2. \A t \in Sweeps : ScriptInv(t, sweep[t])'
    <3>1. ASSUME NEW t \in Sweeps, NEW r, r = sweep'[t] PROVE ScriptInv(t, r)'
      BY <2>1, <3>1, SameJobs
    <3>2. QED
      BY <3>1 DEF ScriptInv, SeenIsTrue, TodoInv, StageInv, SameVideo, Retriable
  <2>3. QED
    BY <1>1, <2>2 DEF SweepInv, ScriptsInv
<1>5. AwaitedInv'
  <2>1. ASSUME NEW v \in SweptVideos, ~NotLocked(v)' PROVE Awaited(v)
    <3>1. PICK t \in Sweeps : v \in sweep'[t].put
      BY <2>1 DEF NotLocked
    <3>2. v \in sweep[t].put => Awaited(v)
      BY DEF SweepInv, AwaitedInv, NotLocked
    <3>3. v \in sweep[s].put => Awaited(v)
      BY DEF SweepInv, AwaitedInv, NotLocked
    <3>4. QED
      BY <1>1, <3>1, <3>2, <3>3
  <2>2. QED
    BY <2>1, SameJobs DEF SweepInv, AwaitedInv
<1>6. QED
  BY <1>2, <1>3, <1>4, <1>5 DEF SweepInv

-----------------------------------------------------------------------------
\* A script at rest is well typed and has nothing in hand.
LEMMA EndedIsRow ==
    /\ Ended \in SweepRows /\ \A s \in Sweeps : ScriptInv(s, Ended)
    /\ Ended.at = "idle" /\ Ended.put = {}
<1>1. <<>> \in Seq(Nat) /\ DOMAIN <<>> = {}
  BY EmptySeq
<1>2. <<>> \in [{} -> JobRows]
  BY <1>1
<1>3. <<>> \in SeenRows
  BY <1>2 DEF SeenRows
<1>4. Ended \in SweepRows /\ Ended.at = "idle" /\ Ended.put = {} /\ Ended.todo = <<>>
      /\ Ended.seen = <<>>
  BY <1>1, <1>3 DEF SweepRows, Ended
<1>5. \A s \in Sweeps : ScriptInv(s, Ended)
  BY <1>1, <1>4 DEF ScriptInv, SeenIsTrue, TodoInv, StageInv
<1>6. QED
  BY <1>4, <1>5

\* A script that leaves commits nothing.
LEMMA LeaveStep ==
    ASSUME SweepInv, NEW s \in Sweeps, LeaveSweep(s)
    PROVE  SweepInv'
BY EndedIsRow, ScriptStep DEF LeaveSweep

\* The attempts that a script finds, in the order in which it takes them.
LEMMA OrderedAre ==
    ASSUME NEW js, js \subseteq DOMAIN jobs, jobs \in Seq(JobRows),
           NEW o, o \in SetToSeqs(js)
    PROVE  /\ o \in Seq(Nat) /\ o \in Seq(js) /\ \A k \in DOMAIN o : o[k] \in js
           /\ \A i, k \in DOMAIN o : i # k => o[i] # o[k]
<1>1. DOMAIN jobs = 1 .. Len(jobs) /\ Len(jobs) \in Nat
  BY JobRangeIs DEF JobRange
<1>2. Cardinality(js) \in Nat
  <2>1. IsFiniteSet(1 .. Len(jobs)) /\ js \in SUBSET (1 .. Len(jobs))
    BY <1>1, FS_Interval
  <2>2. IsFiniteSet(js)
    BY <2>1, FS_Subset
  <2>3. QED
    BY <2>2, FS_CardinalityType
<1>3. o \in [1 .. Cardinality(js) -> js] /\ \A i, k \in DOMAIN o : i # k => o[i] # o[k]
  BY DEF SetToSeqs
<1>4. o \in Seq(js)
  BY <1>2, <1>3, SeqDef
<1>5. js \subseteq Nat
  BY <1>1
<1>6. o \in [1 .. Cardinality(js) -> Nat]
  BY <1>3, <1>5
<1>7. o \in Seq(Nat)
  BY <1>2, <1>6, SeqDef
<1>8. QED
  BY <1>3, <1>4, <1>7

\* What a script finds are visible failures, read at that moment.
LEMMA FindStep ==
    ASSUME SweepInv, NEW s \in Sweeps, FindCandidates(s)
    PROVE  SweepInv'
<1>1. PICK all \in Orders(s) :
         LET found == SubSeq(all, 1, IF Len(all) < Limit THEN Len(all) ELSE Limit)
         IN  \E todo \in IF s = "download"
                         THEN InOrder({j \in Range(found) : jobs[j].cause = "access"})
                         ELSE {found} :
               sweep' = [sweep EXCEPT ![s] =
                    [Ended EXCEPT !.at = "scan", !.todo = todo,
                                  !.seen = [j \in Range(found) |-> jobs[j]]]]
  BY DEF FindCandidates
<1> DEFINE m == IF Len(all) < Limit THEN Len(all) ELSE Limit
           found == SubSeq(all, 1, m)
<1>2. PICK todo \in IF s = "download"
                    THEN InOrder({j \in Range(found) : jobs[j].cause = "access"})
                    ELSE {found} :
               sweep' = [sweep EXCEPT ![s] =
                    [Ended EXCEPT !.at = "scan", !.todo = todo,
                                  !.seen = [j \in Range(found) |-> jobs[j]]]]
  BY <1>1
<1>3. jobs \in Seq(JobRows) /\ DOMAIN jobs \subseteq Nat /\ Visible(s) \subseteq DOMAIN jobs
      /\ \A j \in DOMAIN jobs : jobs[j] \in JobRows
  BY JobRangeIs DEF JobRange, SweepInv, SweepTypeInv, Visible
<1>4. all \in SetToSeqs(Visible(s))
  BY DEF Orders, InOrder
<1>5. all \in Seq(Nat) /\ all \in Seq(Visible(s))
  BY <1>3, <1>4, OrderedAre
<1>6. found \in Seq(Nat) /\ Range(found) \subseteq Visible(s)
      /\ \A k \in DOMAIN found : found[k] \in Range(found)
  <2>1. Len(all) \in Nat
    BY <1>5, LenProperties
  <2>2. m \in Int /\ m <= Len(all)
    BY <2>1, SweepAssumption
  <2>3. found \in Seq(Nat) /\ found \in Seq(Visible(s))
    BY <1>5, <2>1, <2>2, SubSeqProperties
  <2>4. \A k \in DOMAIN found : found[k] \in Visible(s)
    BY <2>3, ElementOfSeq
  <2>5. QED
    BY <2>3, <2>4 DEF Range
<1> DEFINE rows == [j \in Range(found) |-> jobs[j]]
           row == [Ended EXCEPT !.at = "scan", !.todo = todo, !.seen = rows]
<1> HIDE DEF found
<1>7. todo \in Seq(Nat) /\ (\A k \in DOMAIN todo : todo[k] \in Range(found))
      /\ (s = "download" => \A i, k \in DOMAIN todo : i # k => todo[i] # todo[k])
  <2>1. CASE s = "download"
    <3> DEFINE js == {j \in Range(found) : jobs[j].cause = "access"}
    <3>1. todo \in SetToSeqs(js)
      BY <1>2, <2>1 DEF InOrder
    <3>2. js \subseteq DOMAIN jobs
      BY <1>3, <1>6
    <3> HIDE DEF js
    <3>3. \A k \in DOMAIN todo : todo[k] \in js
      BY <1>3, <3>1, <3>2, OrderedAre
    <3>4. todo \in Seq(Nat) /\ \A i, k \in DOMAIN todo : i # k => todo[i] # todo[k]
      BY <1>3, <3>1, <3>2, OrderedAre
    <3>5. QED
      BY <3>3, <3>4 DEF js
  <2>2. CASE s # "download"
    BY <1>2, <1>6, <2>2
  <2>3. QED
    BY <2>1, <2>2
<1>8. rows \in SeenRows
  <2>1. Range(found) \in SUBSET Nat /\ rows \in [Range(found) -> JobRows]
    BY <1>3, <1>6
  <2>2. QED
    BY <2>1 DEF SeenRows
<1>9. DOMAIN rows = Range(found) /\ \A j \in Range(found) : rows[j] = jobs[j]
  OBVIOUS
<1> HIDE DEF rows
<1>10. /\ row \in SweepRows /\ row.at = "scan" /\ row.todo = todo /\ row.seen = rows
       /\ row.put = {}
  BY <1>7, <1>8, EndedIsRow DEF SweepRows
<1>11. sweep' = [sweep EXCEPT ![s] = row] /\ UNCHANGED <<jobs, status>>
  BY <1>2 DEF FindCandidates, rows
<1> HIDE DEF row
<1>12. SeenIsTrue(row)
  BY <1>3, <1>6, <1>9, <1>10 DEF SeenIsTrue
<1>13. TodoInv(s, row)
  <2>1. \A k \in DOMAIN todo : todo[k] \in DOMAIN jobs
    BY <1>3, <1>6, <1>7
  <2>2. \A j \in DOMAIN rows : rows[j].status = "failed"
    BY <1>6, <1>9 DEF Visible
  <2>3. ASSUME s = "download", NEW i \in DOMAIN todo, NEW k \in DOMAIN todo, i # k
        PROVE  ~SameVideo(todo[i], todo[k])
    <3>1. InView(todo[i]) /\ InView(todo[k]) /\ todo[i] # todo[k]
      BY <1>6, <1>7, <2>3 DEF Visible, InView
    <3>2. QED
      BY <2>1, <3>1 DEF SweepInv, JobsInv, ViewInv
  <2>4. QED
    BY <1>10, <2>1, <2>2, <2>3 DEF TodoInv
<1>14. StageInv(s, row)
  BY <1>10 DEF StageInv
<1>15. QED
  BY <1>10, <1>11, <1>12, <1>13, <1>14, ScriptStep DEF ScriptInv

-----------------------------------------------------------------------------
\* The row of a script that has a candidate, and what it reads.
LEMMA ScriptFacts ==
    ASSUME SweepInv, NEW s \in Sweeps
    PROVE  /\ sweep[s] \in SweepRows /\ ScriptInv(s, sweep[s])
           /\ sweep \in [Sweeps -> SweepRows] /\ jobs \in Seq(JobRows)
           /\ DOMAIN jobs \subseteq Nat /\ \A j \in DOMAIN jobs : jobs[j] \in JobRows
BY JobRangeIs DEF SweepInv, SweepTypeInv, ScriptsInv, JobRange

\* The candidate is an attempt of a video, and the rest of the list comes behind.
LEMMA CandidateFacts ==
    ASSUME SweepInv, NEW s \in Sweeps, sweep[s].todo # <<>>
    PROVE  LET todo == sweep[s].todo IN
           /\ 1 \in DOMAIN todo /\ Candidate(s) = todo[1] /\ Candidate(s) \in DOMAIN jobs
           /\ VideoTried(s) \in SweptVideos
           /\ Tail(todo) \in Seq(Nat)
           /\ \A k \in DOMAIN Tail(todo) :
                 k \in Nat /\ k + 1 \in DOMAIN todo /\ k + 1 # 1 /\ Tail(todo)[k] = todo[k + 1]
           /\ IsLatest(Latest(VideoTried(s)), VideoTried(s))
           /\ Latest(VideoTried(s)) \in DOMAIN jobs
<1> DEFINE todo == sweep[s].todo
<1>1. todo \in Seq(Nat) /\ todo # <<>> /\ \A k \in DOMAIN todo : todo[k] \in DOMAIN jobs
  BY ScriptFacts DEF SweepRows, ScriptInv, TodoInv
<1> HIDE DEF todo
<1>2. /\ Head(todo) = todo[1] /\ Tail(todo) \in Seq(Nat) /\ Len(Tail(todo)) = Len(todo) - 1
      /\ \A k \in 1 .. Len(Tail(todo)) : Tail(todo)[k] = todo[k + 1]
  BY <1>1, HeadTailProperties
<1>3. /\ DOMAIN todo = 1 .. Len(todo) /\ Len(todo) \in Nat /\ Len(todo) # 0
      /\ DOMAIN Tail(todo) = 1 .. Len(Tail(todo))
  BY <1>1, <1>2, LenProperties, EmptySeq
<1>4. 1 \in DOMAIN todo
  BY <1>3
<1>5. \A k \in DOMAIN Tail(todo) :
         k \in Nat /\ k + 1 \in DOMAIN todo /\ k + 1 # 1 /\ Tail(todo)[k] = todo[k + 1]
  BY <1>2, <1>3
<1>6. Candidate(s) = todo[1] /\ Candidate(s) \in DOMAIN jobs /\ VideoTried(s) \in SweptVideos
  BY <1>1, <1>2, <1>4, ScriptFacts DEF Candidate, VideoTried, JobRows, todo
<1>7. IsLatest(Latest(VideoTried(s)), VideoTried(s))
  BY <1>6, LatestIs DEF SweepInv, SweepTypeInv, JobsInv
<1>8. QED
  BY <1>2, <1>4, <1>5, <1>6, <1>7 DEF IsLatest, todo

\* What is read is kept with what was read before.
LEMMA KeptRows ==
    ASSUME SweepInv, NEW s \in Sweeps, NEW js, js \subseteq DOMAIN jobs
    PROVE  /\ Keep(s, js) \in SeenRows /\ DOMAIN Keep(s, js) = DOMAIN sweep[s].seen \cup js
           /\ \A j \in DOMAIN sweep[s].seen : Keep(s, js)[j] = sweep[s].seen[j]
           /\ \A j \in js \ DOMAIN sweep[s].seen : Keep(s, js)[j] = jobs[j]
           /\ \A row : row.seen = Keep(s, js) => SeenIsTrue(row)
<1>1. PICK read \in SUBSET Nat : sweep[s].seen \in [read -> JobRows]
  BY ScriptFacts DEF SweepRows, SeenRows
<1>2. /\ DOMAIN Keep(s, js) = read \cup js /\ DOMAIN sweep[s].seen = read
      /\ \A j \in read \cup js : Keep(s, js)[j] = RowSeen(s, j)
  BY <1>1 DEF Keep
<1>3. /\ \A j \in read : RowSeen(s, j) = sweep[s].seen[j]
      /\ \A j \in js \ read : RowSeen(s, j) = jobs[j]
  BY <1>2 DEF RowSeen
<1>4. read \cup js \in SUBSET Nat /\ \A j \in read \cup js : RowSeen(s, j) \in JobRows
  BY <1>1, <1>3, ScriptFacts
<1>5. Keep(s, js) \in [read \cup js -> JobRows]
  BY <1>2, <1>4 DEF Keep
<1>6. Keep(s, js) \in SeenRows
  BY <1>4, <1>5 DEF SeenRows
<1>7. ASSUME NEW row, row.seen = Keep(s, js) PROVE SeenIsTrue(row)
  <2>1. SeenIsTrue(sweep[s])
    BY ScriptFacts DEF ScriptInv
  <2>2. QED
    BY <1>2, <1>3, <1>7, <2>1 DEF SeenIsTrue
<1>8. QED
  BY <1>2, <1>3, <1>6, <1>7

\* What a script reads of a candidate does not touch the candidates after it.
LEMMA TodoAfterReading ==
    ASSUME SweepInv, NEW s \in Sweeps, sweep[s].at = "scan", sweep[s].todo # <<>>,
           NEW j \in DOMAIN sweep[s].seen \cup {Candidate(s), Latest(VideoTried(s))},
           s = "download", NEW k \in DOMAIN sweep[s].todo, k # 1, SameVideo(j, sweep[s].todo[k])
    PROVE  j \in DOMAIN sweep[s].seen /\ sweep[s].seen[j].status = "failed"
<1>1. j \in DOMAIN sweep[s].seen => sweep[s].seen[j].status = "failed"
  BY ScriptFacts DEF ScriptInv, TodoInv
<1>2. j \in {Candidate(s), Latest(VideoTried(s))} => SameVideo(sweep[s].todo[1], j)
  BY CandidateFacts DEF VideoTried, SameVideo, IsLatest
<1>3. ~SameVideo(sweep[s].todo[1], sweep[s].todo[k])
  BY ScriptFacts, CandidateFacts DEF ScriptInv, TodoInv
<1>4. QED
  BY <1>1, <1>2, <1>3 DEF SameVideo

\* Nor do two candidates after the first have the same video.
LEMMA TailDiffers ==
    ASSUME SweepInv, NEW s \in Sweeps, sweep[s].todo # <<>>, s = "download",
           NEW rest, rest = Tail(sweep[s].todo), NEW i \in DOMAIN rest, NEW k \in DOMAIN rest, i # k
    PROVE  ~SameVideo(rest[i], rest[k])
<1>1. /\ i \in Nat /\ i + 1 \in DOMAIN sweep[s].todo /\ rest[i] = sweep[s].todo[i + 1]
      /\ k \in Nat /\ k + 1 \in DOMAIN sweep[s].todo /\ rest[k] = sweep[s].todo[k + 1]
  BY CandidateFacts
<1>2. i + 1 # k + 1
  BY <1>1
<1>3. QED
  BY <1>1, <1>2, ScriptFacts DEF ScriptInv, TodoInv

\* A candidate that is skipped leaves the rows that were read.
LEMMA SkipStep ==
    ASSUME SweepInv, NEW s \in Sweeps, SkipCandidate(s)
    PROVE  SweepInv'
<1> DEFINE seen == Keep(s, {Candidate(s), Latest(VideoTried(s))})
           row == [sweep[s] EXCEPT !.todo = Tail(@), !.seen = seen]
<1>1. /\ sweep[s].at = "scan" /\ sweep[s].todo # <<>> /\ UNCHANGED <<jobs, status>>
      /\ sweep' = [sweep EXCEPT ![s] = row]
  BY ScriptFacts DEF SkipCandidate
<1>2. {Candidate(s), Latest(VideoTried(s))} \subseteq DOMAIN jobs
  BY <1>1, CandidateFacts
<1>3. /\ seen \in SeenRows
      /\ DOMAIN seen = DOMAIN sweep[s].seen \cup {Candidate(s), Latest(VideoTried(s))}
      /\ \A j \in DOMAIN sweep[s].seen : seen[j] = sweep[s].seen[j]
      /\ \A r : r.seen = seen => SeenIsTrue(r)
  BY <1>2, KeptRows
<1> HIDE DEF seen
<1>4. /\ row \in SweepRows /\ row.at = "scan" /\ row.todo = Tail(sweep[s].todo)
      /\ row.seen = seen /\ row.put = sweep[s].put
  BY <1>1, <1>3, ScriptFacts, CandidateFacts DEF SweepRows
<1> HIDE DEF row
<1>5. TodoInv(s, row)
  <2>1. \A k \in DOMAIN row.todo : row.todo[k] \in DOMAIN jobs
    BY <1>1, <1>4, ScriptFacts, CandidateFacts DEF ScriptInv, TodoInv
  <2>2. s = "download" =>
           \A i, k \in DOMAIN row.todo : i # k => ~SameVideo(row.todo[i], row.todo[k])
    BY <1>1, <1>4, TailDiffers
  <2>3. ASSUME s = "download", NEW j \in DOMAIN row.seen, NEW k \in DOMAIN row.todo,
               SameVideo(j, row.todo[k])
        PROVE  row.seen[j].status = "failed"
    <3>1. k + 1 \in DOMAIN sweep[s].todo /\ k + 1 # 1 /\ row.todo[k] = sweep[s].todo[k + 1]
      BY <1>1, <1>4, CandidateFacts
    <3>2. j \in DOMAIN sweep[s].seen /\ sweep[s].seen[j].status = "failed"
      BY <1>1, <1>3, <1>4, <2>3, <3>1, TodoAfterReading
    <3>3. QED
      BY <1>3, <1>4, <3>2
  <2>4. QED
    BY <1>4, <2>1, <2>2, <2>3 DEF TodoInv
<1>6. SeenIsTrue(row) /\ StageInv(s, row)
  BY <1>3, <1>4 DEF StageInv
<1>7. QED
  BY <1>1, <1>4, <1>5, <1>6, ScriptStep DEF ScriptInv

\* The allocation finds a latest attempt that may be retried.
LEMMA AllocateStep ==
    ASSUME SweepInv, NEW s \in Sweeps, Allocate(s)
    PROVE  SweepInv'
<1> DEFINE seen == Keep(s, {Candidate(s), Latest(VideoTried(s))})
           latest == Latest(VideoTried(s))
           row == [sweep[s] EXCEPT !.at = "create", !.latest = latest, !.seen = seen]
<1>1. /\ sweep[s].at = "scan" /\ sweep[s].todo # <<>> /\ UNCHANGED <<jobs, status>>
      /\ sweep' = [sweep EXCEPT ![s] = row] /\ Eligible(s)
  BY ScriptFacts DEF Allocate
<1>2. {Candidate(s), latest} \subseteq DOMAIN jobs
  BY <1>1, CandidateFacts
<1>3. /\ seen \in SeenRows
      /\ DOMAIN seen = DOMAIN sweep[s].seen \cup {Candidate(s), latest}
      /\ \A j \in DOMAIN sweep[s].seen : seen[j] = sweep[s].seen[j]
      /\ \A r : r.seen = seen => SeenIsTrue(r)
  BY <1>2, KeptRows
<1>4. Retriable(s, latest)
  <2>1. jobs[latest].status # "active"
    BY <1>1, CandidateFacts DEF Eligible, Allocatable, IsActive, Attempts, IsLatest
  <2>2. SeenIsTrue(sweep[s])
    BY ScriptFacts DEF ScriptInv
  <2>3. CASE s = "transient"
    <3>1. /\ latest = Candidate(s) /\ RowSeen(s, latest).status = "failed"
          /\ RowSeen(s, latest).cause = "transient" /\ ~RowSeen(s, latest).review
      BY <1>1, <2>3 DEF Eligible, StillTransient
    <3>2. jobs[latest].status = "failed" /\ jobs[latest].cause = "transient"
          /\ ~jobs[latest].review
      BY <2>2, <3>1 DEF SeenIsTrue, RowSeen
    <3>3. QED
      BY <1>2, <2>1, <3>2 DEF Retriable
  <2>4. CASE s # "transient"
    <3>1. ~RowSeen(s, latest).review /\ s = "download"
      BY <1>1, <2>4 DEF Eligible, Allocatable, Sweeps
    <3>2. latest \in DOMAIN sweep[s].seen => sweep[s].seen[latest].status = "failed"
      <4>1. SameVideo(latest, sweep[s].todo[1]) /\ 1 \in DOMAIN sweep[s].todo
        BY <1>1, CandidateFacts DEF VideoTried, SameVideo, IsLatest
      <4>2. QED
        BY <1>1, <3>1, <4>1, ScriptFacts DEF ScriptInv, TodoInv
    <3>3. ~jobs[latest].review
      BY <2>2, <3>1, <3>2 DEF SeenIsTrue, RowSeen
    <3>4. QED
      BY <1>2, <2>1, <2>4, <3>3 DEF Retriable
  <2>5. QED
    BY <2>3, <2>4
<1>5. latest \in Nat
  BY <1>2, ScriptFacts
<1> HIDE DEF seen, latest
<1>6. /\ row \in SweepRows /\ row.at = "create" /\ row.todo = sweep[s].todo
      /\ row.seen = seen /\ row.put = sweep[s].put /\ row.latest = latest
  BY <1>1, <1>3, <1>5, ScriptFacts DEF SweepRows
<1> HIDE DEF row
<1>7. TodoInv(s, row)
  <2>1. ASSUME s = "download", NEW j \in DOMAIN row.seen, NEW k \in DOMAIN row.todo,
               SameVideo(j, row.todo[k]), k # 1
        PROVE  row.seen[j].status = "failed"
    <3>1. j \in DOMAIN sweep[s].seen /\ sweep[s].seen[j].status = "failed"
      BY <1>1, <1>3, <1>6, <2>1, TodoAfterReading DEF latest
    <3>2. QED
      BY <1>3, <1>6, <3>1
  <2>2. QED
    BY <1>1, <1>2, <1>6, <2>1, ScriptFacts DEF ScriptInv, TodoInv
<1>8. SeenIsTrue(row) /\ StageInv(s, row)
  BY <1>3, <1>4, <1>6 DEF StageInv
<1>9. QED
  BY <1>1, <1>6, <1>7, <1>8, ScriptStep DEF ScriptInv

\* A script goes on with its next candidate.
LEMMA NextCandidate ==
    ASSUME SweepInv, NEW s \in Sweeps, sweep[s].todo # <<>>,
           NEW row, row.at = "scan", row.todo = Tail(sweep[s].todo), row.seen = sweep[s].seen
    PROVE  ScriptInv(s, row)
<1>1. \A k \in DOMAIN row.todo : row.todo[k] \in DOMAIN jobs
  BY ScriptFacts, CandidateFacts DEF ScriptInv, TodoInv
<1>2. ASSUME s = "download", NEW j \in DOMAIN row.seen, NEW k \in DOMAIN row.todo,
             SameVideo(j, row.todo[k])
      PROVE  row.seen[j].status = "failed"
  <2>1. k + 1 \in DOMAIN sweep[s].todo /\ k + 1 # 1 /\ row.todo[k] = sweep[s].todo[k + 1]
    BY CandidateFacts
  <2>2. QED
    BY <1>2, <2>1, ScriptFacts DEF ScriptInv, TodoInv
<1>3. TodoInv(s, row)
  BY <1>1, <1>2, TailDiffers DEF TodoInv
<1>4. SeenIsTrue(row) /\ StageInv(s, row)
  BY ScriptFacts DEF ScriptInv, SeenIsTrue, StageInv
<1>5. QED
  BY <1>3, <1>4 DEF ScriptInv

\* A conflict leaves the video written: it has the active attempt to wait for.
LEMMA ConflictStep ==
    ASSUME SweepInv, NEW s \in Sweeps, CreateConflicts(s)
    PROVE  SweepInv'
<1> DEFINE v == VideoTried(s)
           row == [sweep[s] EXCEPT !.at = "scan", !.todo = Tail(@), !.put = Flushed(s, v)]
<1>1. /\ sweep[s].at = "create" /\ IsActive(v) /\ UNCHANGED <<jobs, status>>
      /\ sweep' = [sweep EXCEPT ![s] = row]
  BY ScriptFacts DEF CreateConflicts
<1>2. sweep[s].todo # <<>>
  BY <1>1, ScriptFacts DEF ScriptInv, TodoInv
<1>3. v \in SweptVideos
  BY <1>2, CandidateFacts
<1> HIDE DEF v
<1>4. /\ row \in SweepRows /\ row.at = "scan" /\ row.todo = Tail(sweep[s].todo)
      /\ row.seen = sweep[s].seen /\ row.put = sweep[s].put \cup {v}
  BY <1>2, <1>3, ScriptFacts, CandidateFacts DEF SweepRows, Flushed
<1> HIDE DEF row
<1>5. Awaited(v)
  BY <1>1 DEF Awaited
<1>6. ScriptInv(s, row)
  BY <1>2, <1>4, NextCandidate
<1>7. QED
  BY <1>1, <1>4, <1>5, <1>6, ScriptStep

\* A publication commits nothing more.
LEMMA PublishStep ==
    ASSUME SweepInv, NEW s \in Sweeps, PublishRetry(s)
    PROVE  SweepInv'
<1> DEFINE kept == IF s = "transient" THEN sweep[s].retried \cup {VideoTried(s)}
                   ELSE sweep[s].retried
           row == [sweep[s] EXCEPT !.at = "scan", !.todo = Tail(@), !.latest = 0, !.retried = kept]
<1>1. /\ sweep[s].at = "publish" /\ UNCHANGED <<jobs, status>>
      /\ sweep' = [sweep EXCEPT ![s] = row]
  BY ScriptFacts DEF PublishRetry
<1>2. sweep[s].todo # <<>>
  BY <1>1, ScriptFacts DEF ScriptInv, TodoInv
<1>3. kept \in SUBSET SweptVideos
  BY <1>2, CandidateFacts, ScriptFacts DEF SweepRows
<1> HIDE DEF kept
<1>4. /\ row \in SweepRows /\ row.at = "scan" /\ row.todo = Tail(sweep[s].todo)
      /\ row.seen = sweep[s].seen /\ row.put = sweep[s].put
  BY <1>2, <1>3, ScriptFacts, CandidateFacts DEF SweepRows
<1> HIDE DEF row
<1>5. ScriptInv(s, row)
  BY <1>2, <1>4, NextCandidate
<1>6. QED
  BY <1>1, <1>4, <1>5, ScriptStep

-----------------------------------------------------------------------------
\* A step that keeps the attempts, beside a script that does nothing.
LEMMA OthersKept ==
    ASSUME SweepInv, JobsKept, NEW s \in Sweeps, sweep'[s] = sweep[s],
           sweep[s].at = "publish" => jobs'[sweep[s].latest].status \in {"active", "cancelled"}
    PROVE  ScriptInv(s, sweep[s])'
<1>1. ScriptInv(s, sweep[s])
  BY ScriptFacts
<1>2. \A row : row = sweep[s] => ScriptInv(s, row)'
  BY <1>1, ScriptKept
<1>3. QED
  BY <1>2 DEF ScriptInv, SeenIsTrue, TodoInv, StageInv, SameVideo, Retriable

\* The retry is the latest attempt of its video, and active; what was flushed before is
\* stored with it.
LEMMA CreateStep ==
    ASSUME SweepInv, NEW s \in Sweeps, Create(s)
    PROVE  SweepInv'
<1>1. PICK v, new, latest :
          /\ v = VideoTried(s) /\ new = NewJob(v, s, sweep[s].latest) /\ latest = Len(jobs')
          /\ sweep[s].at = "create" /\ ~IsActive(v) /\ jobs' = Superseding(v, new)
          /\ status' = [u \in SweptVideos |-> IF u \in Flushed(s, v) THEN "pending" ELSE status[u]]
  BY DEF Create
<1>2. sweep[s].todo # <<>> /\ sweep[s].latest \in DOMAIN jobs /\ Retriable(s, sweep[s].latest)
  BY <1>1, ScriptFacts DEF ScriptInv, TodoInv, StageInv
<1>3. v \in SweptVideos /\ sweep[s].latest \in Nat
  BY <1>1, <1>2, CandidateFacts, ScriptFacts
<1>4. new \in JobRows /\ new.video = v /\ ~new.hidden /\ new.status = "active" /\ new.by = s
      /\ new.after = sweep[s].latest
  BY <1>1, <1>3 DEF NewJob, JobRows, JobStatuses
<1>5. /\ (jobs \in Seq(JobRows))' /\ JobsInv' /\ JobsKept
      /\ Len(jobs') = Len(jobs) + 1 /\ jobs'[Len(jobs) + 1] = new
      /\ Len(jobs) + 1 \in DOMAIN jobs' /\ Len(jobs) + 1 \notin DOMAIN jobs
      /\ \A j \in DOMAIN jobs : jobs'[j].status = jobs[j].status
      /\ Awaited(v)' /\ \A u \in SweptVideos : Awaited(u) => Awaited(u)'
  BY <1>1, <1>2, <1>3, <1>4, AddStep DEF SweepInv
<1>6. latest \in Nat /\ <<>> \in SeenRows
  BY <1>1, <1>5, LenProperties, EndedIsRow DEF SweepRows, Ended
<1>7. PICK row \in SweepRows :
         /\ sweep' = [sweep EXCEPT ![s] = row]
         /\ row.at = "publish" /\ row.todo = sweep[s].todo
         /\ row.seen = <<>> /\ row.put = {} /\ row.latest = Len(jobs')
  <2> DEFINE row == [sweep[s] EXCEPT !.at = "publish", !.latest = latest, !.seen = <<>>,
                                     !.put = {}]
  <2>1. sweep' = [sweep EXCEPT ![s] = row]
    BY <1>1, ScriptFacts DEF Create
  <2>2. /\ row \in SweepRows /\ row.at = "publish" /\ row.todo = sweep[s].todo
        /\ row.seen = <<>> /\ row.put = {} /\ row.latest = latest
    BY <1>6, ScriptFacts DEF SweepRows
  <2>3. QED
    BY <1>1, <2>1, <2>2
<1>8. sweep'[s] = row /\ sweep' \in [Sweeps -> SweepRows]
      /\ \A t \in Sweeps : t # s => sweep'[t] = sweep[t]
  BY <1>7, ScriptFacts
<1>9. SweepTypeInv'
  <2>1. status' \in [SweptVideos -> {"pending", "working", "completed", "failed"}]
    BY <1>1 DEF SweepInv, SweepTypeInv
  <2>2. QED
    BY <1>5, <1>8, <2>1 DEF SweepTypeInv
<1>10. ScriptInv(s, row)'
  <2>1. DOMAIN <<>> = {}
    BY EmptySeq
  <2>2. SeenIsTrue(row)'
    BY <1>7, <2>1 DEF SeenIsTrue
  <2>3. TodoInv(s, row)'
    <3>1. \A k \in DOMAIN row.todo : row.todo[k] \in DOMAIN jobs
      BY <1>7, ScriptFacts DEF ScriptInv, TodoInv
    <3>2. s = "download" =>
             \A i, k \in DOMAIN row.todo : i # k => ~SameVideo(row.todo[i], row.todo[k])
      BY <1>7, ScriptFacts DEF ScriptInv, TodoInv
    <3>3. \A j \in DOMAIN jobs : j \in DOMAIN jobs' /\ jobs'[j].video = jobs[j].video
      BY <1>5 DEF JobsKept
    <3>4. \A k \in DOMAIN row.todo : row.todo[k] \in DOMAIN jobs'
      BY <3>1, <3>3
    <3>5. s = "download" =>
             \A i, k \in DOMAIN row.todo :
                i # k => jobs'[row.todo[i]].video # jobs'[row.todo[k]].video
      BY <3>1, <3>2, <3>3 DEF SameVideo
    <3>6. QED
      BY <1>2, <1>5, <1>7, <2>1, <3>4, <3>5 DEF TodoInv, SameVideo
  <2>4. StageInv(s, row)'
    BY <1>4, <1>5, <1>7 DEF StageInv
  <2>5. QED
    BY <2>2, <2>3, <2>4 DEF ScriptInv
<1>11. ScriptsInv'
  <2>1. ASSUME NEW t \in Sweeps PROVE ScriptInv(t, sweep[t])'
    <3>1. CASE t = s
      BY <1>8, <1>10, <3>1 DEF ScriptInv, SeenIsTrue, TodoInv, StageInv, SameVideo, Retriable
    <3>2. CASE t # s
      <4>1. sweep[t].at = "publish" => jobs'[sweep[t].latest].status \in {"active", "cancelled"}
        BY <1>5, ScriptFacts DEF ScriptInv, TodoInv, StageInv
      <4>2. QED
        BY <1>5, <1>8, <3>2, <4>1, OthersKept
    <3>3. QED
      BY <3>1, <3>2
  <2>2. \A t \in Sweeps : t # s /\ sweep[t].at = "publish" => sweep[t].latest # Len(jobs')
    BY <1>5, ScriptFacts DEF ScriptInv, TodoInv
  <2>3. QED
    BY <1>7, <1>8, <2>1, <2>2 DEF SweepInv, ScriptsInv
<1>12. AwaitedInv'
  <2>1. ASSUME NEW u \in SweptVideos, status'[u] = "pending" \/ ~NotLocked(u)'
        PROVE  Awaited(u)'
    <3>1. CASE u = v
      BY <1>5, <3>1
    <3>2. CASE u # v
      <4>1. status[u] = "pending" \/ ~NotLocked(u)
        BY <1>1, <1>7, <1>8, <2>1, <3>2 DEF NotLocked, Flushed
      <4>2. QED
        BY <1>5, <4>1 DEF SweepInv, AwaitedInv
    <3>3. QED
      BY <3>1, <3>2
  <2>2. QED
    BY <2>1 DEF AwaitedInv
<1>13. QED
  BY <1>5, <1>9, <1>11, <1>12 DEF SweepInv

-----------------------------------------------------------------------------
\* A step of the attempts, beside scripts that do nothing or end.
LEMMA JobsStep ==
    ASSUME SweepInv, (jobs \in Seq(JobRows))', JobsInv', JobsKept,
           status' \in [SweptVideos -> {"pending", "working", "completed", "failed"}],
           sweep' \in [Sweeps -> SweepRows],
           \A t \in Sweeps :
              \/ sweep'[t] = Ended
              \/ /\ sweep'[t] = sweep[t]
                 /\ sweep[t].at = "publish" =>
                       jobs'[sweep[t].latest].status \in {"active", "cancelled"},
           \A u \in SweptVideos : status'[u] = "pending" \/ ~NotLocked(u) => Awaited(u)'
    PROVE  SweepInv'
<1>1. SweepTypeInv'
  BY DEF SweepTypeInv
<1>2. ASSUME NEW t \in Sweeps PROVE ScriptInv(t, sweep[t])'
  <2>1. CASE sweep'[t] = Ended
    <3>1. \A row : row = Ended => ScriptInv(t, row)'
      BY EndedIsRow, ScriptKept
    <3>2. QED
      BY <2>1, <3>1 DEF ScriptInv, SeenIsTrue, TodoInv, StageInv, SameVideo, Retriable
  <2>2. CASE sweep'[t] # Ended
    BY <2>2, OthersKept
  <2>3. QED
    BY <2>1, <2>2
<1>3. \A t \in Sweeps : sweep'[t].at = "publish" => sweep'[t] = sweep[t]
  BY EndedIsRow
<1>4. ScriptsInv'
  BY <1>2, <1>3 DEF SweepInv, ScriptsInv
<1>5. \A u \in SweptVideos : ~NotLocked(u)' => ~NotLocked(u)
  BY EndedIsRow DEF NotLocked
<1>6. AwaitedInv'
  BY <1>5 DEF AwaitedInv
<1>7. QED
  BY <1>1, <1>4, <1>6 DEF SweepInv

\* A refusal is a failure of the attempt that the script added.
LEMMA RefusedStep ==
    ASSUME SweepInv, NEW s \in Sweeps, RetryRefused(s)
    PROVE  SweepInv'
<1>1. CASE UNCHANGED jobs
  BY <1>1, EndedIsRow, ScriptStep DEF RetryRefused
<1>2. CASE jobs' = [jobs EXCEPT ![sweep[s].latest].status = "failed",
                                ![sweep[s].latest].cause = "refused"]
  <2>1. PICK l \in DOMAIN jobs :
           l = sweep[s].latest /\ sweep[s].at = "publish" /\ sweep' = [sweep EXCEPT ![s] = Ended]
           /\ status' = status /\ jobs[l].status \in {"active", "cancelled"}
    BY ScriptFacts DEF RetryRefused, ScriptInv, TodoInv, StageInv
  <2> DEFINE row == [jobs[l] EXCEPT !.status = "failed", !.cause = "refused"]
  <2>2. jobs' = [jobs EXCEPT ![l] = row]
    BY <1>2, <2>1, ScriptFacts
  <2>3. /\ row \in JobRows /\ row.video = jobs[l].video /\ row.by = jobs[l].by
        /\ row.after = jobs[l].after /\ row.hidden = jobs[l].hidden /\ row.status = "failed"
        /\ row.cause = "refused" /\ row.review = jobs[l].review
    BY <2>1, ScriptFacts DEF JobRows, JobStatuses
  <2> HIDE DEF row
  <2>4. ~jobs[l].hidden
    BY <2>1 DEF SweepInv, JobsInv, LatestInv
  <2>5. /\ (jobs \in Seq(JobRows))' /\ JobsInv' /\ JobsKept
        /\ \A k \in DOMAIN jobs : k # l => jobs'[k] = jobs[k]
        /\ \A u \in SweptVideos : Awaited(u) => Awaited(u)'
    BY <2>1, <2>2, <2>3, <2>4, ChangeStep DEF SweepInv
  <2>6. /\ sweep' \in [Sweeps -> SweepRows] /\ sweep'[s] = Ended
        /\ \A t \in Sweeps : t # s => sweep'[t] = sweep[t]
    BY <2>1, EndedIsRow, ScriptFacts
  <2>7. ASSUME NEW t \in Sweeps, t # s, sweep[t].at = "publish"
        PROVE  jobs'[sweep[t].latest].status \in {"active", "cancelled"}
    <3>1. sweep[t].latest # l /\ sweep[t].latest \in DOMAIN jobs
      BY <2>1, <2>7, ScriptFacts DEF SweepInv, ScriptsInv, ScriptInv, TodoInv
    <3>2. QED
      BY <2>5, <2>7, <3>1, ScriptFacts DEF ScriptInv, StageInv
  <2>8. status' \in [SweptVideos -> {"pending", "working", "completed", "failed"}]
        /\ \A u \in SweptVideos : status'[u] = "pending" \/ ~NotLocked(u) => Awaited(u)'
    BY <2>1, <2>5 DEF SweepInv, SweepTypeInv, AwaitedInv
  <2>9. QED
    BY <2>5, <2>6, <2>7, <2>8, JobsStep
<1>3. QED
  BY <1>1, <1>2 DEF RetryRefused

\* An attempt goes on, ends, or is cancelled; it is not in publication unless it is cancelled.
LEMMA EndStep ==
    ASSUME SweepInv, NEW j \in DOMAIN jobs, jobs[j].status = "active", UNCHANGED sweep,
           NEW row \in JobRows, row.video = jobs[j].video, row.by = jobs[j].by,
           row.after = jobs[j].after, ~row.hidden, row.status # "active",
           jobs' = [jobs EXCEPT ![j] = row],
           j \in Unpublished => row.status = "cancelled",
           status' \in [SweptVideos -> {"pending", "working", "completed", "failed"}],
           \A u \in SweptVideos :
              /\ status'[u] = "pending" \/ ~NotLocked(u) => status[u] = "pending" \/ ~NotLocked(u)
              /\ u = row.video /\ row.status # "cancelled" =>
                     NotLocked(u) /\ status'[u] # "pending"
    PROVE  SweepInv'
<1>1. /\ (jobs \in Seq(JobRows))' /\ JobsInv' /\ JobsKept /\ jobs'[j] = row
      /\ \A k \in DOMAIN jobs : k # j => jobs'[k] = jobs[k]
      /\ \A u \in SweptVideos :
            Awaited(u) /\ (u = row.video => row.status = "cancelled") => Awaited(u)'
  BY ChangeStep DEF SweepInv
<1>2. ASSUME NEW t \in Sweeps, sweep[t].at = "publish"
      PROVE  jobs'[sweep[t].latest].status \in {"active", "cancelled"}
  <2>1. sweep[t].latest \in Unpublished /\ sweep[t].latest \in DOMAIN jobs
    BY <1>2, ScriptFacts DEF Unpublished, ScriptInv, TodoInv
  <2>2. QED
    BY <1>1, <1>2, <2>1, ScriptFacts DEF ScriptInv, StageInv
<1>3. \A u \in SweptVideos : status'[u] = "pending" \/ ~NotLocked(u) => Awaited(u)'
  BY <1>1 DEF SweepInv, AwaitedInv
<1>4. QED
  BY <1>1, <1>2, <1>3, ScriptFacts, JobsStep DEF Sweeps

\* An attempt that works, ends or fails writes its own video.
LEMMA WorkStep ==
    ASSUME SweepInv, NEW j \in DOMAIN jobs, Work(j)
    PROVE  SweepInv'
<1>1. PICK v \in SweptVideos :
         /\ v = jobs[j].video /\ jobs[j].status = "active" /\ j \notin Unpublished /\ NotLocked(v)
         /\ sweep' = sweep
         /\ \/ status' = [status EXCEPT ![v] = "working"] /\ UNCHANGED jobs
            \/ /\ status' = [status EXCEPT ![v] = "completed"]
               /\ jobs' = [jobs EXCEPT ![j].status = "completed"]
            \/ \E cause \in Causes, review \in BOOLEAN :
                 /\ status' = [status EXCEPT ![v] = "failed"]
                 /\ jobs' = [jobs EXCEPT ![j].status = "failed", ![j].cause = cause,
                                         ![j].review = review]
  <2>1. jobs[j].video \in SweptVideos
    BY JobRangeIs DEF JobRange, JobRows, SweepInv, SweepTypeInv
  <2>2. QED
    BY <2>1 DEF Work
<1>2. status \in [SweptVideos -> {"pending", "working", "completed", "failed"}]
      /\ jobs \in Seq(JobRows) /\ jobs[j] \in JobRows /\ sweep \in [Sweeps -> SweepRows]
  BY JobRangeIs DEF JobRange, SweepInv, SweepTypeInv
<1>3. ~jobs[j].hidden
  BY <1>1 DEF SweepInv, JobsInv, LatestInv
<1>4. CASE status' = [status EXCEPT ![v] = "working"] /\ UNCHANGED jobs
  <2>1. JobsKept
    BY <1>4 DEF JobsKept
  <2>2. (jobs \in Seq(JobRows))' /\ JobsInv' /\ \A u \in SweptVideos : Awaited(u) => Awaited(u)'
    BY <1>2, <1>4, SameJobs DEF SweepInv
  <2>3. \A u \in SweptVideos : status'[u] = "pending" \/ ~NotLocked(u) => Awaited(u)'
    BY <1>2, <1>4, <2>2 DEF SweepInv, AwaitedInv
  <2>4. \A t \in Sweeps : sweep[t].at = "publish" =>
           jobs'[sweep[t].latest].status \in {"active", "cancelled"}
    BY <1>4, ScriptFacts DEF ScriptInv, StageInv
  <2>5. status' \in [SweptVideos -> {"pending", "working", "completed", "failed"}]
    BY <1>2, <1>4
  <2>6. QED
    BY <1>1, <1>2, <2>1, <2>2, <2>3, <2>4, <2>5, JobsStep
<1>5. jobs[j].status = "active" /\ v = jobs[j].video /\ j \notin Unpublished /\ sweep' = sweep
      /\ ~jobs[j].hidden
  BY <1>1, <1>3
<1>6. CASE /\ status' = [status EXCEPT ![v] = "completed"]
           /\ jobs' = [jobs EXCEPT ![j].status = "completed"]
  <2> DEFINE row == [jobs[j] EXCEPT !.status = "completed"]
  <2>1. jobs' = [jobs EXCEPT ![j] = row]
    BY <1>2, <1>6
  <2>2. /\ row \in JobRows /\ row.video = v /\ row.by = jobs[j].by
        /\ row.after = jobs[j].after /\ row.hidden = jobs[j].hidden /\ row.status = "completed"
    BY <1>1, <1>2 DEF JobRows, JobStatuses
  <2> HIDE DEF row
  <2>3. status' \in [SweptVideos -> {"pending", "working", "completed", "failed"}]
        /\ status'[v] = "completed" /\ \A u \in SweptVideos : u # v => status'[u] = status[u]
    BY <1>2, <1>6
  <2>4. \A u \in SweptVideos :
           /\ status'[u] = "pending" \/ ~NotLocked(u) => status[u] = "pending" \/ ~NotLocked(u)
           /\ u = row.video /\ row.status # "cancelled" => NotLocked(u) /\ status'[u] # "pending"
    BY <1>1, <2>2, <2>3
  <2>5. QED
    BY <1>5, <2>1, <2>2, <2>3, <2>4, EndStep
<1>7. CASE \E cause \in Causes, review \in BOOLEAN :
              /\ status' = [status EXCEPT ![v] = "failed"]
              /\ jobs' = [jobs EXCEPT ![j].status = "failed", ![j].cause = cause,
                                      ![j].review = review]
  <2>1. PICK cause \in Causes, review \in BOOLEAN :
              /\ status' = [status EXCEPT ![v] = "failed"]
              /\ jobs' = [jobs EXCEPT ![j].status = "failed", ![j].cause = cause,
                                      ![j].review = review]
    BY <1>7
  <2> DEFINE row == [jobs[j] EXCEPT !.status = "failed", !.cause = cause, !.review = review]
  <2>2. jobs' = [jobs EXCEPT ![j] = row]
    BY <1>2, <2>1
  <2>3. /\ row \in JobRows /\ row.video = v /\ row.by = jobs[j].by
        /\ row.after = jobs[j].after /\ row.hidden = jobs[j].hidden /\ row.status = "failed"
    BY <1>1, <1>2 DEF JobRows, JobStatuses
  <2> HIDE DEF row
  <2>4. status' \in [SweptVideos -> {"pending", "working", "completed", "failed"}]
        /\ status'[v] = "failed" /\ \A u \in SweptVideos : u # v => status'[u] = status[u]
    BY <1>2, <2>1
  <2>5. \A u \in SweptVideos :
           /\ status'[u] = "pending" \/ ~NotLocked(u) => status[u] = "pending" \/ ~NotLocked(u)
           /\ u = row.video /\ row.status # "cancelled" => NotLocked(u) /\ status'[u] # "pending"
    BY <1>1, <2>3, <2>4
  <2>6. QED
    BY <1>5, <2>2, <2>3, <2>4, <2>5, EndStep
<1>8. QED
  BY <1>1, <1>4, <1>6, <1>7

\* A cancelled attempt is still what its video waited for.
LEMMA CancelStep ==
    ASSUME SweepInv, NEW j \in DOMAIN jobs, Cancel(j)
    PROVE  SweepInv'
<1> DEFINE row == [jobs[j] EXCEPT !.status = "cancelled"]
<1>1. jobs[j].status = "active" /\ jobs \in Seq(JobRows) /\ jobs[j] \in JobRows
      /\ UNCHANGED <<status, sweep>>
  BY JobRangeIs DEF JobRange, SweepInv, SweepTypeInv, Cancel
<1>2. ~jobs[j].hidden
  BY <1>1 DEF SweepInv, JobsInv, LatestInv
<1>3. jobs' = [jobs EXCEPT ![j] = row]
  BY <1>1 DEF Cancel
<1>4. /\ row \in JobRows /\ row.video = jobs[j].video /\ row.by = jobs[j].by
      /\ row.after = jobs[j].after /\ row.hidden = jobs[j].hidden /\ row.status = "cancelled"
  BY <1>1 DEF JobRows, JobStatuses
<1> HIDE DEF row
<1>5. QED
  BY <1>1, <1>2, <1>3, <1>4, EndStep DEF SweepInv, SweepTypeInv

\* A user retries a failure that is the latest of its video.
LEMMA UserStep ==
    ASSUME SweepInv, NEW v \in SweptVideos, UserRetries(v)
    PROVE  SweepInv'
<1> DEFINE plain == NewJob(v, "user", Latest(v))
<1>1. PICK new \in {plain, [plain EXCEPT !.status = "failed", !.cause = "refused"]} :
         jobs' = Superseding(v, new)
  BY DEF UserRetries
<1>2. /\ ~IsActive(v) /\ status' = [status EXCEPT ![v] = "pending"] /\ UNCHANGED sweep
  BY DEF UserRetries
<1>3. Latest(v) \in Nat
  BY LatestIs, ScriptFacts, JobRangeIs DEF SweepInv, SweepTypeInv, JobsInv, IsLatest, JobRange
<1>4. /\ new \in JobRows /\ new.video = v /\ ~new.hidden /\ new.by = "user"
      /\ new.status = "active" \/ (new.status = "failed" /\ new.cause = "refused")
  <2>1. /\ plain \in JobRows /\ plain.video = v /\ ~plain.hidden /\ plain.by = "user"
        /\ plain.status = "active"
    BY <1>3 DEF NewJob, JobRows, JobStatuses
  <2> HIDE DEF plain
  <2>2. CASE new = plain
    BY <2>1, <2>2
  <2>3. CASE new = [plain EXCEPT !.status = "failed", !.cause = "refused"]
    BY <2>1, <2>3 DEF JobRows, JobStatuses
  <2>4. QED
    BY <1>1, <2>2, <2>3
<1>5. /\ (jobs \in Seq(JobRows))' /\ JobsInv' /\ JobsKept
      /\ \A j \in DOMAIN jobs : jobs'[j].status = jobs[j].status
      /\ Awaited(v)' /\ \A u \in SweptVideos : Awaited(u) => Awaited(u)'
  BY <1>1, <1>2, <1>4, AddStep DEF SweepInv, Sweeps
<1>6. \A t \in Sweeps : sweep[t].at = "publish" =>
         jobs'[sweep[t].latest].status \in {"active", "cancelled"}
  BY <1>5, ScriptFacts DEF ScriptInv, TodoInv, StageInv
<1>7. /\ status' \in [SweptVideos -> {"pending", "working", "completed", "failed"}]
      /\ \A u \in SweptVideos : u # v => status'[u] = status[u]
      /\ sweep' \in [Sweeps -> SweepRows] /\ \A t \in Sweeps : sweep'[t] = sweep[t]
  BY <1>2 DEF SweepInv, SweepTypeInv
<1>8. \A u \in SweptVideos : status'[u] = "pending" \/ ~NotLocked(u) => Awaited(u)'
  BY <1>5, <1>7 DEF SweepInv, AwaitedInv
<1>9. QED
  BY <1>5, <1>6, <1>7, <1>8, JobsStep

-----------------------------------------------------------------------------
\* Every video has one attempt at the start.
LEMMA SweepBegins == SweepInit => SweepInv
<1> SUFFICES ASSUME SweepInit PROVE SweepInv
  OBVIOUS
<1> DEFINE n == Cardinality(SweptVideos)
           order == SetToSeq(SweptVideos)
<1>1. n \in Nat /\ ExistsBijection(1 .. n, SweptVideos)
  BY SweepAssumption, FS_CardinalityType
<1>2. \E f \in [1 .. n -> SweptVideos] : IsInjective(f)
  BY <1>1 DEF ExistsBijection, Bijection, Injection
<1>3. order \in [1 .. n -> SweptVideos] /\ IsInjective(order)
  BY <1>2 DEF SetToSeq
<1> HIDE DEF order
<1>4. \A v \in SweptVideos : \E k \in 1 .. n : order[k] = v
  <2>1. order \in Injection(1 .. n, SweptVideos)
    BY <1>3 DEF Injection
  <2>2. Cardinality(1 .. n) = n
    BY <1>1, FS_Interval
  <2>3. order \in Surjection(1 .. n, SweptVideos)
    BY <2>1, <2>2, SweepAssumption, FS_Injection
  <2>4. QED
    BY <2>3 DEF Surjection
<1>5. /\ jobs = [k \in 1 .. n |-> NewJob(order[k], "user", 0)]
      /\ status = [v \in SweptVideos |-> "working"] /\ sweep = [s \in Sweeps |-> Ended]
  BY DEF SweepInit, order
<1> HIDE DEF n
<1>6. \A k \in 1 .. n :
         /\ jobs[k] \in JobRows /\ jobs[k].video = order[k] /\ jobs[k].status = "active"
         /\ ~jobs[k].hidden /\ jobs[k].by = "user"
  <2>1. \A v \in SweptVideos :
           /\ NewJob(v, "user", 0) \in JobRows /\ NewJob(v, "user", 0).video = v
           /\ NewJob(v, "user", 0).status = "active" /\ ~NewJob(v, "user", 0).hidden
           /\ NewJob(v, "user", 0).by = "user"
    BY DEF NewJob, JobRows, JobStatuses
  <2>2. QED
    BY <1>3, <1>5, <2>1
<1>7. jobs \in Seq(JobRows) /\ DOMAIN jobs = 1 .. n
  <2>1. jobs \in [1 .. n -> JobRows]
    BY <1>5, <1>6
  <2>2. QED
    BY <1>1, <2>1, SeqDef
<1>8. SweepTypeInv
  BY <1>5, <1>7, EndedIsRow DEF SweepTypeInv
<1>9. JobsInv
  <2>1. \A j, k \in DOMAIN jobs : SameVideo(j, k) => j = k
    BY <1>3, <1>6, <1>7 DEF SameVideo, IsInjective
  <2>2. LatestInv
    BY <1>1, <1>4, <1>6, <1>7, <2>1 DEF LatestInv
  <2>3. ViewInv
    BY <2>1 DEF ViewInv
  <2>4. FollowInv
    BY <1>6, <1>7 DEF FollowInv, Sweeps
  <2>5. QED
    BY <2>2, <2>3, <2>4 DEF JobsInv
<1>10. ScriptsInv
  BY <1>5, EndedIsRow DEF ScriptsInv
<1>11. AwaitedInv
  BY <1>5, EndedIsRow DEF AwaitedInv, NotLocked
<1>12. QED
  BY <1>8, <1>9, <1>10, <1>11 DEF SweepInv

\* Every step keeps the invariant.
LEMMA SweepSteps == SweepInv /\ [SweepNext]_sweepVars => SweepInv'
<1> SUFFICES ASSUME SweepInv, [SweepNext]_sweepVars PROVE SweepInv'
  OBVIOUS
<1>1. ASSUME NEW s \in Sweeps,
             \/ FindCandidates(s) \/ SkipCandidate(s) \/ Allocate(s) \/ CreateConflicts(s)
             \/ Create(s) \/ PublishRetry(s) \/ RetryRefused(s) \/ LeaveSweep(s)
      PROVE  SweepInv'
  BY <1>1, FindStep, SkipStep, AllocateStep, ConflictStep, CreateStep, PublishStep,
     RefusedStep, LeaveStep
<1>2. ASSUME NEW j \in DOMAIN jobs, Work(j) \/ Cancel(j) PROVE SweepInv'
  BY <1>2, WorkStep, CancelStep
<1>3. ASSUME NEW v \in SweptVideos, UserRetries(v) PROVE SweepInv'
  BY <1>3, UserStep
<1>4. CASE UNCHANGED sweepVars
  <2>1. UNCHANGED <<jobs, status, sweep>>
    BY <1>4 DEF sweepVars
  <2>2. JobsKept
    BY <2>1 DEF JobsKept
  <2>3. (jobs \in Seq(JobRows))' /\ JobsInv' /\ \A u \in SweptVideos : Awaited(u) => Awaited(u)'
    BY <2>1, SameJobs DEF SweepInv, SweepTypeInv
  <2>4. \A t \in Sweeps : sweep[t].at = "publish" =>
           jobs'[sweep[t].latest].status \in {"active", "cancelled"}
    BY <2>1, ScriptFacts DEF ScriptInv, StageInv
  <2>5. QED
    BY <2>1, <2>2, <2>3, <2>4, JobsStep DEF SweepInv, SweepTypeInv, AwaitedInv
<1>5. QED
  BY <1>1, <1>2, <1>3, <1>4 DEF SweepNext

\* A retry by a script follows a failure that it may retry; a video that waits is awaited; the
\* latest failure of a video is in view.
LEMMA DueWhenKept == SweepInv => RetriesAreDue
<1> SUFFICES ASSUME SweepInv PROVE RetriesAreDue
  OBVIOUS
<1>1. RetriesFollowFailures
  BY DEF SweepInv, JobsInv, FollowInv, Retriable, RetriesFollowFailures, Sweeps
<1>2. PendingIsAwaited
  BY DEF SweepInv, AwaitedInv, Awaited, PendingIsAwaited
<1>3. FailureStaysInView
  <2>1. ASSUME NEW v \in SweptVideos, jobs[Latest(v)].hidden PROVE FALSE
    <3>1. PICK l \in DOMAIN jobs : l = Latest(v) /\ IsLatest(l, v)
      BY LatestIs DEF SweepInv, SweepTypeInv, JobsInv, IsLatest
    <3>2. PICK k \in DOMAIN jobs : jobs[k].video = v /\ l < k
      BY <2>1, <3>1 DEF SweepInv, JobsInv, LatestInv, SameVideo, IsLatest
    <3>3. k <= l /\ k \in Nat /\ l \in Nat
      BY <3>1, <3>2, JobRangeIs DEF IsLatest, JobRange, SweepInv, SweepTypeInv
    <3>4. QED
      BY <3>2, <3>3
  <2>2. QED
    BY <2>1 DEF FailureStaysInView
<1>4. QED
  BY <1>1, <1>2, <1>3 DEF RetriesAreDue

\* Whatever the attempts, the users and the two scripts do between two of a script's statements,
\* and even when both scripts run: a script retries no failure that waits for a person and,
\* the scheduled one, only what failed transiently; no video waits for nothing; and the last
\* failure of a video stays in view.
THEOREM RetriesAreDueAlways == SweepSpec => []RetriesAreDue
BY SweepBegins, SweepSteps, DueWhenKept, PTL DEF SweepSpec

-----------------------------------------------------------------------------
(***************************************************************************)
(* SummaryReports.                                                         *)
(***************************************************************************)
\* What the rows, the plan and the script are made of.
Stored == [by : {"task", "backfill"}, of : Nat, deep : BOOLEAN] \cup {None}

RunPhases == {"queued", "transcribed", "summarized", "completed", "rendered", "reported",
              "short", "done", "failed"}

ReportRows == [run : RunPhases, transcript : Nat, summary : Stored, report : Stored,
               held : Stored, delivery : {"none", "pending", "sent", "failed"},
               file : Stored, sent : Stored, told : {"nothing", "report"}, cut : BOOLEAN]

PlanEntries == [video : ReportVideos, of : Nat]

Scripts == [at : {"off", "generate", "flushed", "rendered", "over"}, plan : Seq(PlanEntries),
            session : [ReportVideos -> Stored], pages : [ReportVideos -> Stored]]

\* Types; the script has an item while it is at one.
ReportTypeInv ==
    /\ video \in [ReportVideos -> ReportRows]
    /\ script \in Scripts

\* A run ends with its report, and does not go on after it.
ToldWhenDone(row) == row.told = "report" => row.run = "done"

\* The summary is of the transcript, or a retry left it out.
Fresh(row) == row.summary.of = row.transcript \/ row.cut

\* What is stored, reported and sent of a video, as its run goes on without the script.
RowIsCurrent(row) ==
    /\ row.run \in {"summarized", "completed", "rendered", "reported", "short", "done"}
          => Fresh(row)
    /\ row.run \in {"queued", "failed"} /\ row.summary # None => Fresh(row)
    /\ row.run = "rendered" => row.held = row.summary /\ row.file = row.summary
    /\ row.run = "reported" =>
          row.report = row.summary /\ row.file = row.summary /\ row.delivery = "pending"
    /\ row.told = "report" => row.report = row.summary
    /\ row.delivery = "sent" => row.sent = row.report

RowsAreCurrent ==
    \A v \in ReportVideos : ToldWhenDone(video[v]) /\ (v \notin mixed => RowIsCurrent(video[v]))

\* The script has written at most its item: the summary, and the page that renders it.
SessionIsItem ==
    /\ script.at \in {"flushed", "rendered"} =>
          /\ script.plan # <<>>
          /\ script.session[Item].by = "backfill"
          /\ script.session[Item].of = Head(script.plan).of
    /\ script.at = "rendered" => script.pages[Item] = script.session[Item]
    /\ \A v \in ReportVideos :
          /\ script.session[v] # None => script.at \in {"flushed", "rendered"} /\ v = Item
          /\ script.pages[v] # None => script.at = "rendered" /\ v = Item

\* The run of a video of the plan that it has not met since is done, and its transcript is
\* the one that the plan read.
PlanIsCurrent ==
    \A k \in DOMAIN script.plan :
       LET v == script.plan[k].video IN
       v \notin mixed => video[v].run = "done" /\ video[v].transcript = script.plan[k].of

\* The invariant.
ReportInv == ReportTypeInv /\ RowsAreCurrent /\ SessionIsItem /\ PlanIsCurrent

-----------------------------------------------------------------------------
\* The videos of the plan.
LEMMA PlannedAre ==
    ASSUME ReportTypeInv
    PROVE  /\ \A k \in DOMAIN script.plan : script.plan[k] \in PlanEntries
                                            /\ script.plan[k].video \in Planned
           /\ \A v \in Planned : v \in ReportVideos
                                 /\ \E k \in DOMAIN script.plan : script.plan[k].video = v
<1>1. script.plan \in Seq(PlanEntries)
  BY DEF ReportTypeInv, Scripts
<1>2. \A k \in DOMAIN script.plan : script.plan[k] \in PlanEntries
  BY <1>1, ElementOfSeq
<1>3. \A k \in DOMAIN script.plan : script.plan[k].video \in Planned
  BY DEF Planned, ToSet
<1>4. \A v \in Planned : \E k \in DOMAIN script.plan : script.plan[k].video = v
  BY DEF Planned, ToSet
<1>5. QED
  BY <1>2, <1>3, <1>4 DEF PlanEntries

\* A video whose run is not done is mixed when the script has it.
LEMMA UnfinishedIsMixed ==
    ASSUME ReportInv, NEW v \in Planned, video[v].run # "done"
    PROVE  v \in mixed
BY PlannedAre DEF ReportInv, PlanIsCurrent

\* A step of a run, apart from the script.
LEMMA RunStep ==
    ASSUME ReportInv, NEW v \in ReportVideos, NEW row \in ReportRows,
           video' = [video EXCEPT ![v] = row], UNCHANGED script, mixed \subseteq mixed',
           v \in Planned => v \in mixed',
           ToldWhenDone(row), v \notin mixed' => RowIsCurrent(row),
           row.summary = video[v].summary \/ row.summary.by = "task"
    PROVE  ReportInv' /\ BackfillIsWhole
<1>1. video'[v] = row /\ \A u \in ReportVideos : u # v => video'[u] = video[u]
  BY DEF ReportInv, ReportTypeInv
<1>2. ReportTypeInv'
  BY DEF ReportInv, ReportTypeInv
<1>3. RowsAreCurrent'
  BY <1>1 DEF ReportInv, RowsAreCurrent
<1>4. SessionIsItem'
  BY DEF ReportInv, SessionIsItem, Item
<1>5. PlanIsCurrent'
  <2>1. \A k \in DOMAIN script.plan :
           script.plan[k].video \in ReportVideos /\ script.plan[k].video \in Planned
    BY PlannedAre DEF ReportInv
  <2>2. QED
    BY <1>1, <2>1 DEF ReportInv, PlanIsCurrent
<1>6. BackfillIsWhole
  BY <1>1 DEF BackfillIsWhole
<1>7. QED
  BY <1>2, <1>3, <1>4, <1>5, <1>6 DEF ReportInv

\* The steps of a run keep the row of its video current, unless the script has met it.
LEMMA RunSteps ==
    ASSUME ReportInv, NEW v \in ReportVideos,
           \/ Resubmit(v) \/ Transcribe(v) \/ Summarize(v) \/ FailRun(v) \/ Complete(v)
           \/ Render(v) \/ PublishReport(v) \/ Deliver(v) \/ Refuse(v) \/ SendShort(v)
    PROVE  ReportInv' /\ BackfillIsWhole
<1> DEFINE old == video[v]
<1>1. /\ old \in ReportRows /\ ToldWhenDone(old) /\ (v \notin mixed => RowIsCurrent(old))
      /\ video = [u \in ReportVideos |-> video[u]]
  BY DEF ReportInv, ReportTypeInv, RowsAreCurrent
<1>2. v \in Planned /\ old.run # "done" => v \in mixed
  BY UnfinishedIsMixed
<1>3. None \in Stored
  BY DEF Stored
<1> HIDE DEF old
<1>4. CASE Resubmit(v)
  <2>1. PICK run \in {"queued", "transcribed", "summarized"} :
           /\ video' = [video EXCEPT ![v].run = run, ![v].told = "nothing"]
           /\ old.run \in {"done", "failed"}
           /\ run = "summarized" => old.summary # None /\ old.run = "failed"
    BY <1>4 DEF Resubmit, ResumesAt, old
  <2> DEFINE row == [old EXCEPT !.run = run, !.told = "nothing"]
  <2>2. video' = [video EXCEPT ![v] = row] /\ UNCHANGED script
        /\ mixed' = mixed \cup (Planned \cap {v})
    BY <1>1, <1>4, <2>1 DEF Resubmit, old
  <2>3. row \in ReportRows /\ row.run = run /\ row.told = "nothing"
        /\ row.summary = old.summary /\ row.delivery = old.delivery
        /\ row.sent = old.sent /\ row.report = old.report
        /\ row.transcript = old.transcript /\ row.cut = old.cut
    BY <1>1 DEF ReportRows, RunPhases
  <2> HIDE DEF row
  <2>4. ToldWhenDone(row) /\ (v \notin mixed' => RowIsCurrent(row))
    BY <1>1, <2>1, <2>2, <2>3 DEF ToldWhenDone, RowIsCurrent, Fresh
  <2>5. row.summary = video[v].summary
    BY <2>3 DEF old
  <2>6. QED
    BY <2>2, <2>3, <2>4, <2>5, RunStep
<1>5. CASE Transcribe(v)
  <2> DEFINE row == [old EXCEPT !.run = "transcribed", !.transcript = @ + 1]
  <2>1. video' = [video EXCEPT ![v] = row] /\ UNCHANGED <<script, mixed>> /\ old.run = "queued"
    BY <1>1, <1>5 DEF Transcribe, old
  <2>2. row \in ReportRows /\ row.run = "transcribed" /\ row.told = old.told
        /\ row.summary = old.summary /\ row.delivery = old.delivery
        /\ row.sent = old.sent /\ row.report = old.report
    <3>1. old.transcript + 1 \in Nat
      BY <1>1 DEF ReportRows
    <3>2. \A n \in Nat : [old EXCEPT !.run = "transcribed", !.transcript = n] \in ReportRows
      BY <1>1 DEF ReportRows, RunPhases
    <3>3. row \in ReportRows
      BY <3>1, <3>2
    <3>4. QED
      BY <1>1, <3>3 DEF ReportRows
  <2> HIDE DEF row
  <2>3. ToldWhenDone(row) /\ (v \notin mixed' => RowIsCurrent(row))
    BY <1>1, <2>1, <2>2 DEF ToldWhenDone, RowIsCurrent, Fresh
  <2>4. row.summary = video[v].summary
    BY <2>2 DEF old
  <2>5. QED
    BY <1>2, <2>1, <2>2, <2>3, <2>4, RunStep
<1>6. CASE Summarize(v)
  <2>1. PICK deep \in BOOLEAN :
           video' = [video EXCEPT ![v].run = "summarized", ![v].summary = Upserted(v, deep),
                                  ![v].cut = FALSE]
    BY <1>6 DEF Summarize
  <2> DEFINE row == [old EXCEPT !.run = "summarized", !.summary = Upserted(v, deep),
                                !.cut = FALSE]
  <2>2. video' = [video EXCEPT ![v] = row] /\ UNCHANGED <<script, mixed>> /\ old.run = "transcribed"
    BY <1>1, <1>6, <2>1 DEF Summarize, old
  <2>3. Upserted(v, deep) \in Stored /\ Upserted(v, deep).of = old.transcript
        /\ Upserted(v, deep).by = "task"
    BY <1>1 DEF Upserted, Stored, ReportRows, old
  <2>4. row \in ReportRows /\ row.run = "summarized" /\ row.told = old.told
        /\ row.summary = Upserted(v, deep) /\ row.delivery = old.delivery
        /\ row.sent = old.sent /\ row.report = old.report /\ row.transcript = old.transcript
        /\ row.cut = FALSE
    BY <1>1, <2>3 DEF ReportRows, RunPhases
  <2> HIDE DEF row
  <2>5. ToldWhenDone(row) /\ (v \notin mixed' => RowIsCurrent(row))
    BY <1>1, <2>2, <2>3, <2>4 DEF ToldWhenDone, RowIsCurrent, Fresh
  <2>6. row.summary.by = "task"
    BY <2>3, <2>4
  <2>7. QED
    BY <1>2, <2>2, <2>4, <2>5, <2>6, RunStep
<1>7. CASE FailRun(v) \/ Complete(v)
  <2> DEFINE to == IF FailRun(v) THEN "failed" ELSE "completed"
             cut == IF FailRun(v) /\ old.run = "transcribed" /\ old.summary # None
                    THEN TRUE ELSE old.cut
             row == [old EXCEPT !.run = to, !.cut = cut]
  <2>1. /\ video' = [video EXCEPT ![v] = row] /\ UNCHANGED <<script, mixed>>
        /\ old.run \in {"queued", "transcribed", "summarized", "completed"}
        /\ to \in {"failed", "completed"} /\ (to = "completed" => old.run = "summarized")
        /\ to = "failed" /\ old.run = "transcribed" /\ old.summary # None => cut
        /\ cut \in BOOLEAN /\ (old.cut => cut)
    <3>1. old.cut \in BOOLEAN
      BY <1>1 DEF ReportRows
    <3>2. CASE FailRun(v)
      <4>1. video' = [video EXCEPT ![v].run = "failed",
               ![v].cut = old.cut \/ (old.run = "transcribed" /\ old.summary # None)]
        BY <3>2 DEF FailRun, old
      <4>2. cut = (old.cut \/ (old.run = "transcribed" /\ old.summary # None))
        BY <3>1, <3>2
      <4>3. video' = [video EXCEPT ![v].run = to, ![v].cut = cut]
        BY <3>2, <4>1, <4>2
      <4>4. video' = [video EXCEPT ![v] = row]
        BY <1>1, <4>3 DEF old
      <4>5. QED
        BY <3>1, <3>2, <4>4 DEF FailRun, old
    <3>3. CASE ~FailRun(v)
      <4>1. row = [old EXCEPT !.run = "completed"]
        BY <1>1, <3>3 DEF ReportRows
      <4>2. QED
        BY <1>1, <1>7, <3>1, <3>3, <4>1 DEF Complete, old
    <3>4. QED
      BY <3>2, <3>3
  <2> HIDE DEF to, cut
  <2>2. row \in ReportRows /\ row.run = to /\ row.told = old.told
        /\ row.summary = old.summary /\ row.delivery = old.delivery
        /\ row.sent = old.sent /\ row.report = old.report /\ row.transcript = old.transcript
        /\ row.cut = cut
    BY <1>1, <2>1 DEF ReportRows, RunPhases
  <2> HIDE DEF row
  <2>3. ToldWhenDone(row) /\ (v \notin mixed' => RowIsCurrent(row))
    BY <1>1, <2>1, <2>2 DEF ToldWhenDone, RowIsCurrent, Fresh
  <2>4. row.summary = video[v].summary
    BY <2>2 DEF old
  <2>5. QED
    BY <1>2, <2>1, <2>2, <2>3, <2>4, RunStep
<1>8. CASE Render(v)
  <2> DEFINE row == [old EXCEPT !.run = "rendered", !.file = old.summary, !.held = old.summary]
  <2>1. video' = [video EXCEPT ![v] = row] /\ UNCHANGED <<script, mixed>> /\ old.run = "completed"
    BY <1>1, <1>8 DEF Render, old
  <2>2. row \in ReportRows /\ row.run = "rendered" /\ row.told = old.told
        /\ row.summary = old.summary /\ row.delivery = old.delivery
        /\ row.held = old.summary /\ row.file = old.summary
        /\ row.sent = old.sent /\ row.report = old.report /\ row.transcript = old.transcript
        /\ row.cut = old.cut
    BY <1>1 DEF ReportRows, RunPhases
  <2> HIDE DEF row
  <2>3. ToldWhenDone(row) /\ (v \notin mixed' => RowIsCurrent(row))
    BY <1>1, <2>1, <2>2 DEF ToldWhenDone, RowIsCurrent, Fresh
  <2>4. row.summary = video[v].summary
    BY <2>2 DEF old
  <2>5. QED
    BY <1>2, <2>1, <2>2, <2>3, <2>4, RunStep
<1>9. CASE PublishReport(v)
  <2> DEFINE row == [old EXCEPT !.run = "reported", !.report = old.held, !.held = None,
                                !.delivery = "pending"]
  <2>1. video' = [video EXCEPT ![v] = row] /\ UNCHANGED <<script, mixed>> /\ old.run = "rendered"
    BY <1>1, <1>9 DEF PublishReport, old
  <2>2. row \in ReportRows /\ row.run = "reported" /\ row.told = old.told
        /\ row.summary = old.summary /\ row.delivery = "pending" /\ row.file = old.file
        /\ row.report = old.held /\ row.transcript = old.transcript
        /\ row.cut = old.cut
    BY <1>1, <1>3 DEF ReportRows, RunPhases
  <2> HIDE DEF row
  <2>3. ToldWhenDone(row) /\ (v \notin mixed' => RowIsCurrent(row))
    BY <1>1, <2>1, <2>2 DEF ToldWhenDone, RowIsCurrent, Fresh
  <2>4. row.summary = video[v].summary
    BY <2>2 DEF old
  <2>5. QED
    BY <1>2, <2>1, <2>2, <2>3, <2>4, RunStep
<1>10. CASE Deliver(v)
  <2>1. PICK sent \in BOOLEAN :
           video' = [video EXCEPT ![v].run = AfterDelivery(sent),
                       ![v].delivery = IF sent THEN "sent" ELSE "failed",
                       ![v].sent = IF sent THEN video[v].file ELSE @,
                       ![v].told = IF sent THEN "report" ELSE @]
    BY <1>10 DEF Deliver
  <2> DEFINE row == [old EXCEPT !.run = AfterDelivery(sent),
                                !.delivery = IF sent THEN "sent" ELSE "failed",
                                !.sent = IF sent THEN old.file ELSE @,
                                !.told = IF sent THEN "report" ELSE @]
  <2>2. video' = [video EXCEPT ![v] = row] /\ UNCHANGED <<script, mixed>> /\ old.run = "reported"
    BY <1>1, <1>10, <2>1 DEF Deliver, old
  <2>3. row \in ReportRows /\ row.summary = old.summary /\ row.transcript = old.transcript
        /\ row.report = old.report /\ row.cut = old.cut
        /\ IF sent THEN row.run = "done" /\ row.delivery = "sent" /\ row.sent = old.file
                        /\ row.told = "report"
           ELSE row.run = "short" /\ row.delivery = "failed" /\ row.told = old.told
    <3>1. CASE sent
      BY <1>1, <3>1 DEF ReportRows, RunPhases, AfterDelivery
    <3>2. CASE ~sent
      BY <1>1, <3>2 DEF ReportRows, RunPhases, AfterDelivery
    <3>3. QED
      BY <3>1, <3>2
  <2> HIDE DEF row
  <2>4. ToldWhenDone(row) /\ (v \notin mixed' => RowIsCurrent(row))
    BY <1>1, <2>2, <2>3 DEF ToldWhenDone, RowIsCurrent, Fresh
  <2>5. row.summary = video[v].summary
    BY <2>3 DEF old
  <2>6. QED
    BY <1>2, <2>2, <2>3, <2>4, <2>5, RunStep
<1>11. CASE Refuse(v)
  <2>1. PICK marked \in BOOLEAN :
          video' = [video EXCEPT ![v].run = "short", ![v].held = None,
                       ![v].sent = IF video[v].run = "reported" THEN video[v].file ELSE @,
                       ![v].delivery = IF marked THEN "failed" ELSE @]
    BY <1>11 DEF Refuse
  <2> DEFINE row == [old EXCEPT !.run = "short", !.held = None,
                       !.sent = IF old.run = "reported" THEN old.file ELSE @,
                       !.delivery = IF marked THEN "failed" ELSE @]
  <2>2. /\ video' = [video EXCEPT ![v] = row] /\ UNCHANGED <<script, mixed>>
        /\ old.run \in {"completed", "rendered", "reported"}
    BY <1>1, <1>11, <2>1 DEF Refuse, old
  <2>3. row \in ReportRows /\ row.summary = old.summary /\ row.transcript = old.transcript
        /\ row.cut = old.cut /\ row.report = old.report /\ row.run = "short" /\ row.told = old.told
        /\ row.sent = (IF old.run = "reported" THEN old.file ELSE old.sent)
        /\ row.delivery = (IF marked THEN "failed" ELSE old.delivery)
    BY <1>1, <1>3 DEF ReportRows, RunPhases
  <2> HIDE DEF row
  <2>4. ToldWhenDone(row) /\ (v \notin mixed' => RowIsCurrent(row))
    BY <1>1, <2>2, <2>3 DEF ToldWhenDone, RowIsCurrent, Fresh
  <2>5. row.summary = video[v].summary
    BY <2>3 DEF old
  <2>6. QED
    BY <1>2, <2>2, <2>3, <2>4, <2>5, RunStep
<1>12. CASE SendShort(v)
  <2> DEFINE row == [old EXCEPT !.run = "done"]
  <2>1. video' = [video EXCEPT ![v] = row] /\ UNCHANGED <<script, mixed>> /\ old.run = "short"
    BY <1>1, <1>12 DEF SendShort, old
  <2>2. row \in ReportRows /\ row.run = "done" /\ row.told = old.told
        /\ row.summary = old.summary /\ row.delivery = old.delivery
        /\ row.sent = old.sent /\ row.report = old.report /\ row.transcript = old.transcript
        /\ row.cut = old.cut
    BY <1>1 DEF ReportRows, RunPhases
  <2> HIDE DEF row
  <2>3. ToldWhenDone(row) /\ (v \notin mixed' => RowIsCurrent(row))
    BY <1>1, <2>1, <2>2 DEF ToldWhenDone, RowIsCurrent, Fresh
  <2>4. row.summary = video[v].summary
    BY <2>2 DEF old
  <2>5. QED
    BY <1>2, <2>1, <2>2, <2>3, <2>4, RunStep
<1>13. QED
  BY <1>4, <1>5, <1>6, <1>7, <1>8, <1>9, <1>10, <1>11, <1>12

-----------------------------------------------------------------------------
\* The plan is read from the rows; a video whose run is not done is mixed from the start.
LEMMA LoadStep ==
    ASSUME ReportAssumption, ReportInv, Load
    PROVE  ReportInv' /\ BackfillIsWhole
<1>1. PICK chosen \in SUBSET {v \in ReportVideos : IsCompleted(v)} \ {{}} :
      \E order \in SetToSeqs(chosen) :
          /\ script' = [at |-> "generate", session |-> NothingWritten,
                        pages |-> NothingWritten,
                        plan |-> [k \in DOMAIN order |->
                                     [video |-> order[k], of |-> video[order[k]].transcript]]]
          /\ mixed' = mixed \cup {v \in chosen : video[v].run # "done"}
  BY DEF Load
<1>2. PICK order \in SetToSeqs(chosen) :
          /\ script' = [at |-> "generate", session |-> NothingWritten,
                        pages |-> NothingWritten,
                        plan |-> [k \in DOMAIN order |->
                                     [video |-> order[k], of |-> video[order[k]].transcript]]]
          /\ mixed' = mixed \cup {v \in chosen : video[v].run # "done"}
  BY <1>1
<1>3. chosen \subseteq ReportVideos /\ Cardinality(chosen) \in Nat
  BY FS_Subset, FS_CardinalityType DEF ReportAssumption
<1>4. order \in [1 .. Cardinality(chosen) -> chosen]
  BY DEF SetToSeqs
<1> DEFINE plan == [k \in DOMAIN order |-> [video |-> order[k], of |-> video[order[k]].transcript]]
<1>5. /\ DOMAIN plan = 1 .. Cardinality(chosen)
      /\ \A k \in DOMAIN plan :
            /\ plan[k] \in PlanEntries /\ plan[k].video \in chosen
            /\ plan[k].of = video[plan[k].video].transcript
  BY <1>3, <1>4 DEF ReportInv, ReportTypeInv, ReportRows, PlanEntries
<1>6. plan \in Seq(PlanEntries)
  <2>1. \A k \in 1 .. Cardinality(chosen) : plan[k] \in PlanEntries
    BY <1>5
  <2>2. plan \in [1 .. Cardinality(chosen) -> PlanEntries]
    BY <1>5, <2>1
  <2>3. QED
    BY <1>3, <2>2, SeqDef
<1> HIDE DEF plan
<1>7. /\ script' = [at |-> "generate", session |-> NothingWritten,
                    pages |-> NothingWritten, plan |-> plan]
      /\ mixed' = mixed \cup {v \in chosen : video[v].run # "done"} /\ video' = video
  BY <1>2 DEF plan, Load
<1>8. NothingWritten \in [ReportVideos -> Stored] /\ \A v \in ReportVideos : NothingWritten[v] = None
  BY DEF NothingWritten, Stored
<1>9. ReportTypeInv'
  BY <1>6, <1>7, <1>8 DEF ReportInv, ReportTypeInv, Scripts
<1>10. RowsAreCurrent'
  BY <1>7 DEF ReportInv, RowsAreCurrent
<1>11. SessionIsItem'
  BY <1>7, <1>8 DEF SessionIsItem
<1>12. PlanIsCurrent'
  BY <1>5, <1>7 DEF PlanIsCurrent
<1>13. BackfillIsWhole
  BY <1>7 DEF BackfillIsWhole
<1>14. QED
  BY <1>9, <1>10, <1>11, <1>12, <1>13 DEF ReportInv

\* The item is a video of the plan.
LEMMA ItemIsPlanned ==
    ASSUME ReportTypeInv, script.plan # <<>>
    PROVE  /\ Head(script.plan) = script.plan[1] /\ 1 \in DOMAIN script.plan
           /\ Item \in ReportVideos /\ Head(script.plan).of \in Nat
<1>1. script.plan \in Seq(PlanEntries)
  BY DEF ReportTypeInv, Scripts
<1>2. Head(script.plan) = script.plan[1] /\ 1 \in DOMAIN script.plan
      /\ Head(script.plan) \in PlanEntries
  BY <1>1, HeadTailProperties, EmptySeq
<1>3. QED
  BY <1>2 DEF Item, PlanEntries

\* The summary is of the transcript that the plan read.
LEMMA GenerateStep ==
    ASSUME ReportInv, Generate
    PROVE  ReportInv' /\ BackfillIsWhole
<1>1. PICK deep \in BOOLEAN :
          script' = [script EXCEPT !.at = "flushed",
                !.session[Item] = [by |-> "backfill", of |-> Head(script.plan).of, deep |-> deep]]
  BY DEF Generate
<1> DEFINE made == [by |-> "backfill", of |-> Head(script.plan).of, deep |-> deep]
<1>2. script.at = "generate" /\ script.plan # <<>> /\ UNCHANGED <<video, mixed>>
  BY DEF Generate
<1>3. Item \in ReportVideos /\ Head(script.plan).of \in Nat
  BY <1>2, ItemIsPlanned DEF ReportInv
<1>4. made \in Stored /\ made.by = "backfill" /\ made.of = Head(script.plan).of
  BY <1>3 DEF Stored
<1> HIDE DEF made
<1>5. script' = [script EXCEPT !.at = "flushed", !.session[Item] = made]
  BY <1>1 DEF made
<1>6. /\ script \in Scripts
      /\ \A v \in ReportVideos : script.session[v] = None /\ script.pages[v] = None
  BY <1>2 DEF ReportInv, ReportTypeInv, SessionIsItem
<1>7. /\ script' \in Scripts /\ script'.at = "flushed" /\ script'.plan = script.plan
      /\ script'.pages = script.pages /\ script'.session[Item] = made
      /\ \A v \in ReportVideos : v # Item => script'.session[v] = script.session[v]
  BY <1>3, <1>4, <1>5, <1>6 DEF Scripts
<1>8. ReportTypeInv' /\ RowsAreCurrent' /\ PlanIsCurrent' /\ BackfillIsWhole
  BY <1>2, <1>7 DEF ReportInv, ReportTypeInv, RowsAreCurrent, PlanIsCurrent, BackfillIsWhole
<1>9. Item' = Item
  BY <1>7 DEF Item
<1>10. SessionIsItem'
  BY <1>2, <1>4, <1>6, <1>7, <1>9 DEF SessionIsItem
<1>11. QED
  BY <1>8, <1>10 DEF ReportInv

\* The page is of the summary in the session; the file of the row is overwritten.
LEMMA RenderBackfillStep ==
    ASSUME ReportInv, RenderBackfill
    PROVE  ReportInv' /\ BackfillIsWhole
<1> DEFINE made == script.session[Item]
<1>1. /\ script.at = "flushed" /\ UNCHANGED mixed
      /\ script' = [script EXCEPT !.at = "rendered", !.pages[Item] = made]
      /\ video' = [video EXCEPT ![Item].file = made]
  BY DEF RenderBackfill, SummaryInSession
<1>2. script.plan # <<>> /\ made.by = "backfill" /\ made.of = Head(script.plan).of
  BY <1>1 DEF ReportInv, SessionIsItem
<1>3. Item \in ReportVideos /\ script \in Scripts /\ made \in Stored
  BY <1>2, ItemIsPlanned DEF ReportInv, ReportTypeInv, Scripts
<1>4. /\ \A v \in ReportVideos : script.pages[v] = None
      /\ \A v \in ReportVideos : script.session[v] # None => v = Item
  BY <1>1 DEF ReportInv, SessionIsItem
<1> HIDE DEF made
<1>5. /\ script' \in Scripts /\ script'.at = "rendered" /\ script'.plan = script.plan
      /\ script'.session = script.session /\ script'.pages[Item] = made
      /\ \A v \in ReportVideos : v # Item => script'.pages[v] = script.pages[v]
  BY <1>1, <1>3 DEF Scripts
<1> DEFINE row == [video[Item] EXCEPT !.file = made]
<1>6. video[Item] \in ReportRows /\ video \in [ReportVideos -> ReportRows]
  BY <1>3 DEF ReportInv, ReportTypeInv
<1>7. /\ row \in ReportRows /\ row.run = video[Item].run /\ row.told = video[Item].told
      /\ row.summary = video[Item].summary /\ row.report = video[Item].report
      /\ row.held = video[Item].held /\ row.sent = video[Item].sent
      /\ row.transcript = video[Item].transcript /\ row.delivery = video[Item].delivery
      /\ row.cut = video[Item].cut
  BY <1>3, <1>6 DEF ReportRows
<1>8. /\ video' = [video EXCEPT ![Item] = row] /\ video'[Item] = row
      /\ \A v \in ReportVideos : v # Item => video'[v] = video[v]
  BY <1>1, <1>3, <1>6
<1> HIDE DEF row
<1>9. ReportTypeInv'
  BY <1>5, <1>6, <1>7, <1>8 DEF ReportTypeInv
<1>10. Item \notin mixed => video[Item].run = "done"
  BY <1>2, ItemIsPlanned DEF ReportInv, PlanIsCurrent, Item
<1>11. RowsAreCurrent'
  <2>1. ToldWhenDone(row) /\ (Item \notin mixed => RowIsCurrent(row))
    BY <1>3, <1>7, <1>10 DEF ReportInv, RowsAreCurrent, ToldWhenDone, RowIsCurrent, Fresh
  <2>2. QED
    BY <1>1, <1>8, <2>1 DEF ReportInv, RowsAreCurrent
<1>12. PlanIsCurrent'
  <2>1. \A v \in ReportVideos :
           video'[v].run = video[v].run /\ video'[v].transcript = video[v].transcript
    BY <1>7, <1>8
  <2>2. \A k \in DOMAIN script.plan : script.plan[k].video \in ReportVideos
    BY PlannedAre DEF ReportInv
  <2>3. QED
    BY <1>1, <1>5, <2>1, <2>2 DEF ReportInv, PlanIsCurrent
<1>13. Item' = Item
  BY <1>5 DEF Item
<1>14. SessionIsItem'
  BY <1>2, <1>4, <1>5, <1>13 DEF SessionIsItem, made
<1>15. BackfillIsWhole
  BY <1>7, <1>8 DEF BackfillIsWhole
<1>16. QED
  BY <1>9, <1>11, <1>12, <1>14, <1>15 DEF ReportInv

\* The rest of the plan is as current as the plan was.
LEMMA TailIsCurrent ==
    ASSUME ReportInv, script.plan # <<>>, NEW rest, rest = Tail(script.plan)
    PROVE  /\ rest \in Seq(PlanEntries)
           /\ \A k \in DOMAIN rest :
                 LET v == rest[k].video IN
                 v \in ReportVideos /\
                 (v \notin mixed => video[v].run = "done" /\ video[v].transcript = rest[k].of)
<1>1. script.plan \in Seq(PlanEntries)
  BY DEF ReportInv, ReportTypeInv, Scripts
<1>2. /\ rest \in Seq(PlanEntries)
      /\ \A k \in 1 .. Len(rest) : rest[k] = script.plan[k + 1] /\ k + 1 \in DOMAIN script.plan
  <2>1. rest \in Seq(PlanEntries) /\ Len(rest) = Len(script.plan) - 1
        /\ \A k \in 1 .. Len(rest) : rest[k] = script.plan[k + 1]
    BY <1>1, HeadTailProperties
  <2>2. Len(script.plan) \in Nat /\ DOMAIN script.plan = 1 .. Len(script.plan)
    BY <1>1, LenProperties
  <2>3. QED
    BY <2>1, <2>2
<1>3. DOMAIN rest = 1 .. Len(rest)
  BY <1>2, LenProperties
<1>4. \A k \in DOMAIN script.plan : script.plan[k].video \in ReportVideos
  BY PlannedAre DEF ReportInv
<1>5. QED
  BY <1>2, <1>3, <1>4 DEF ReportInv, PlanIsCurrent

\* The summary and its page are stored together; the video's run is done and its transcript
\* is the summary's, unless a run met the script.
LEMMA CommitItemStep ==
    ASSUME ReportInv, CommitItem
    PROVE  ReportInv' /\ BackfillIsWhole
<1> DEFINE made == script.session[Item]
           row(v) == [video[v] EXCEPT
               !.summary = IF script.session[v] = None THEN @ ELSE script.session[v],
               !.report = IF script.pages[v] = None THEN @ ELSE script.pages[v],
               !.delivery = IF script.pages[v] = None THEN @ ELSE Redelivery(@)]
<1>1. /\ script.at = "rendered" /\ UNCHANGED mixed
      /\ script' = [script EXCEPT !.at = "generate", !.plan = Tail(@),
                                  !.session = NothingWritten, !.pages = NothingWritten]
      /\ video' = [v \in ReportVideos |-> row(v)]
  BY DEF CommitItem
<1>2. /\ script.plan # <<>> /\ made.by = "backfill" /\ made.of = Head(script.plan).of
      /\ script.pages[Item] = made
      /\ \A v \in ReportVideos : v # Item => script.session[v] = None /\ script.pages[v] = None
  BY <1>1 DEF ReportInv, SessionIsItem
<1>3. Item \in ReportVideos /\ script \in Scripts /\ made \in Stored
  BY <1>2, ItemIsPlanned DEF ReportInv, ReportTypeInv, Scripts
<1>4. \A v \in ReportVideos : video[v] \in ReportRows
  BY DEF ReportInv, ReportTypeInv
<1>5. \A v \in ReportVideos : v # Item => row(v) = video[v]
  BY <1>2, <1>4 DEF ReportRows
<1>6. /\ row(Item) \in ReportRows /\ row(Item).run = video[Item].run
      /\ row(Item).told = video[Item].told /\ row(Item).transcript = video[Item].transcript
      /\ row(Item).held = video[Item].held /\ row(Item).sent = video[Item].sent
      /\ row(Item).file = video[Item].file /\ row(Item).cut = video[Item].cut
      /\ row(Item).summary = (IF made = None THEN video[Item].summary ELSE made)
      /\ row(Item).report = (IF made = None THEN video[Item].report ELSE made)
      /\ row(Item).delivery = (IF made = None THEN video[Item].delivery ELSE "pending")
  BY <1>2, <1>3, <1>4 DEF ReportRows, Redelivery
<1> HIDE DEF row
<1>7. Item \notin mixed => /\ video[Item].run = "done"
                           /\ video[Item].transcript = made.of
  BY <1>2, ItemIsPlanned DEF ReportInv, PlanIsCurrent, Item
<1> HIDE DEF made
<1>8. /\ video'[Item] = row(Item)
      /\ \A v \in ReportVideos : v # Item => video'[v] = video[v]
      /\ video' \in [ReportVideos -> ReportRows]
  BY <1>1, <1>3, <1>4, <1>5, <1>6
<1>9. NothingWritten \in [ReportVideos -> Stored] /\ \A v \in ReportVideos : NothingWritten[v] = None
  BY DEF NothingWritten, Stored
<1>10. /\ script'.at = "generate" /\ script'.plan = Tail(script.plan)
       /\ script'.session = NothingWritten /\ script'.pages = NothingWritten
       /\ Tail(script.plan) \in Seq(PlanEntries) => script' \in Scripts
  BY <1>1, <1>3, <1>9 DEF Scripts
<1>11. ReportTypeInv'
  BY <1>2, <1>8, <1>10, TailIsCurrent DEF ReportTypeInv
<1>12. RowsAreCurrent'
  <2>1. ToldWhenDone(row(Item)) /\ (Item \notin mixed => RowIsCurrent(row(Item)))
    BY <1>3, <1>6, <1>7 DEF ReportInv, RowsAreCurrent, ToldWhenDone, RowIsCurrent, Fresh
  <2>2. QED
    BY <1>1, <1>8, <2>1 DEF ReportInv, RowsAreCurrent
<1>13. PlanIsCurrent'
  <2>1. \A v \in ReportVideos :
           video'[v].run = video[v].run /\ video'[v].transcript = video[v].transcript
    BY <1>6, <1>8
  <2> DEFINE rest == Tail(script.plan)
  <2>2. \A k \in DOMAIN rest :
           LET v == rest[k].video IN
           v \in ReportVideos /\
           (v \notin mixed => video[v].run = "done" /\ video[v].transcript = rest[k].of)
    BY <1>2, TailIsCurrent
  <2>3. script'.plan = rest /\ mixed' = mixed
    BY <1>1, <1>10
  <2> HIDE DEF rest
  <2>4. QED
    BY <2>1, <2>2, <2>3 DEF PlanIsCurrent
<1>14. SessionIsItem'
  BY <1>9, <1>10 DEF SessionIsItem
<1>15. BackfillIsWhole
  BY <1>6, <1>8 DEF BackfillIsWhole
<1>16. QED
  BY <1>11, <1>12, <1>13, <1>14, <1>15 DEF ReportInv

\* What is rolled back was not stored; a file that was overwritten makes the video mixed.
LEMMA RollbackStep ==
    ASSUME ReportInv, FailItem \/ LeaveScript
    PROVE  ReportInv' /\ BackfillIsWhole
<1> DEFINE to == IF FailItem THEN "generate" ELSE "over"
           rest == IF FailItem THEN Tail(script.plan) ELSE <<>>
<1>1. /\ script' = [script EXCEPT !.at = to, !.plan = rest,
                                  !.session = NothingWritten, !.pages = NothingWritten]
      /\ mixed \subseteq mixed' /\ UNCHANGED video /\ to \in {"generate", "over"}
      /\ FailItem => script.plan # <<>>
  <2>1. CASE FailItem
    BY <2>1 DEF FailItem, RolledBack
  <2>2. CASE ~FailItem
    BY <2>2 DEF LeaveScript
  <2>3. QED
    BY <2>1, <2>2
<1>2. /\ rest \in Seq(PlanEntries)
      /\ \A k \in DOMAIN rest :
            LET v == rest[k].video IN
            v \in ReportVideos /\
            (v \notin mixed => video[v].run = "done" /\ video[v].transcript = rest[k].of)
  <2>1. CASE FailItem
    BY <1>1, <2>1, TailIsCurrent
  <2>2. CASE ~FailItem
    BY <2>2, EmptySeq
  <2>3. QED
    BY <2>1, <2>2
<1> HIDE DEF to, rest
<1>3. NothingWritten \in [ReportVideos -> Stored] /\ \A v \in ReportVideos : NothingWritten[v] = None
  BY DEF NothingWritten, Stored
<1>4. /\ script' \in Scripts /\ script'.at = to /\ script'.plan = rest
      /\ script'.session = NothingWritten /\ script'.pages = NothingWritten
  BY <1>1, <1>2, <1>3 DEF ReportInv, ReportTypeInv, Scripts
<1>5. ReportTypeInv' /\ RowsAreCurrent' /\ BackfillIsWhole
  BY <1>1, <1>4 DEF ReportInv, ReportTypeInv, RowsAreCurrent, BackfillIsWhole
<1>6. SessionIsItem'
  BY <1>1, <1>3, <1>4 DEF SessionIsItem
<1>7. PlanIsCurrent'
  BY <1>1, <1>2, <1>4 DEF PlanIsCurrent
<1>8. QED
  BY <1>5, <1>6, <1>7 DEF ReportInv

\* It holds at first.
LEMMA ReportInvInit == ReportInit => ReportInv
<1> SUFFICES ASSUME ReportInit PROVE ReportInv
  OBVIOUS
<1>1. None \in Stored /\ FirstSummary \in Stored /\ FirstSummary.of = 1
  BY DEF Stored, FirstSummary
<1>2. /\ script = [at |-> "off", plan |-> <<>>, session |-> NothingWritten,
                   pages |-> NothingWritten]
      /\ mixed = {}
  BY DEF ReportInit
<1>3. /\ video = [v \in ReportVideos |-> video[v]]
      /\ \A v \in ReportVideos :
            video[v] \in ReportRows /\ ToldWhenDone(video[v]) /\ RowIsCurrent(video[v])
  <2>1. \A v \in ReportVideos : video[v] =
           IF v \in Old
           THEN [run |-> "done", transcript |-> 1, summary |-> FirstSummary,
                 report |-> FirstSummary, held |-> None, delivery |-> "sent",
                 file |-> FirstSummary, sent |-> FirstSummary, told |-> "report", cut |-> FALSE]
           ELSE [run |-> "queued", transcript |-> 0, summary |-> None, report |-> None,
                 held |-> None, delivery |-> "none", file |-> None, sent |-> None,
                 told |-> "nothing", cut |-> FALSE]
    BY DEF ReportInit
  <2>2. video = [v \in ReportVideos |-> video[v]]
    BY DEF ReportInit
  <2>3. ASSUME NEW v \in ReportVideos
        PROVE  video[v] \in ReportRows /\ ToldWhenDone(video[v]) /\ RowIsCurrent(video[v])
    <3>1. CASE v \in Old
      <4> DEFINE row == [run |-> "done", transcript |-> 1, summary |-> FirstSummary,
                         report |-> FirstSummary, held |-> None, delivery |-> "sent",
                         file |-> FirstSummary, sent |-> FirstSummary, told |-> "report", cut |-> FALSE]
      <4>0. video[v] = row
        BY <2>1, <3>1
      <4>1. video[v] \in ReportRows
        <5>1. row \in ReportRows
          BY <1>1 DEF ReportRows, RunPhases
        <5>2. QED
          BY <4>0, <5>1
      <4>2. video[v].run = "done" /\ video[v].summary = FirstSummary /\ video[v].transcript = 1
            /\ video[v].report = FirstSummary /\ video[v].sent = FirstSummary /\ video[v].cut = FALSE
        BY <2>1, <3>1
      <4>3. QED
        BY <1>1, <4>1, <4>2 DEF ToldWhenDone, RowIsCurrent, Fresh
    <3>2. CASE v \notin Old
      <4> DEFINE row == [run |-> "queued", transcript |-> 0, summary |-> None, report |-> None,
                         held |-> None, delivery |-> "none", file |-> None, sent |-> None,
                         told |-> "nothing", cut |-> FALSE]
      <4>0. video[v] = row
        BY <2>1, <3>2
      <4>1. video[v] \in ReportRows
        <5>1. row \in ReportRows
          BY <1>1 DEF ReportRows, RunPhases
        <5>2. QED
          BY <4>0, <5>1
      <4>2. video[v].run = "queued" /\ video[v].summary = None
            /\ video[v].told = "nothing" /\ video[v].delivery = "none"
        BY <2>1, <3>2
      <4>3. QED
        BY <1>1, <4>1, <4>2 DEF ToldWhenDone, RowIsCurrent, Fresh
    <3>3. QED
      BY <3>1, <3>2
  <2>4. QED
    BY <2>2, <2>3
<1>4. ReportTypeInv /\ RowsAreCurrent
  BY <1>1, <1>2, <1>3, EmptySeq DEF ReportTypeInv, Scripts, NothingWritten, RowsAreCurrent
<1>5. SessionIsItem /\ PlanIsCurrent
  BY <1>2 DEF SessionIsItem, PlanIsCurrent, NothingWritten
<1>6. QED
  BY <1>4, <1>5 DEF ReportInv

\* Every step keeps it, and no step of the script stores half a replacement.
LEMMA ReportInvStep ==
    ASSUME ReportAssumption, ReportInv, [ReportNext]_reportVars
    PROVE  ReportInv' /\ (ReportNext => BackfillIsWhole)
<1>1. CASE UNCHANGED reportVars
  <2>1. ReportInv'
    BY <1>1 DEF ReportInv, ReportTypeInv, RowsAreCurrent, SessionIsItem, PlanIsCurrent, Item,
                reportVars
  <2>2. BackfillIsWhole
    BY <1>1 DEF BackfillIsWhole, reportVars
  <2>3. QED
    BY <2>1, <2>2
<1>2. CASE \E v \in ReportVideos :
          \/ Resubmit(v) \/ Transcribe(v) \/ Summarize(v) \/ FailRun(v) \/ Complete(v)
          \/ Render(v) \/ PublishReport(v) \/ Deliver(v) \/ Refuse(v) \/ SendShort(v)
  BY <1>2, RunSteps
<1>3. CASE Load \/ Generate \/ RenderBackfill \/ CommitItem \/ FailItem \/ LeaveScript
  BY <1>3, LoadStep, GenerateStep, RenderBackfillStep, CommitItemStep, RollbackStep
<1>4. QED
  BY <1>1, <1>2, <1>3 DEF ReportNext

\* What is stored, reported and sent of a video at rest.
LEMMA RestIsCurrent ==
    ASSUME ReportInv
    PROVE  ReportIsCurrent /\ SentIsTheReport
BY DEF ReportInv, RowsAreCurrent, AtRest, RowIsCurrent, Fresh, ReportIsCurrent,
       SentIsTheReport

\* What it says of videos at rest is what the property asks.
LEMMA RestIsCurrentNext ==
    ReportInv' => ReportIsCurrent' /\ SentIsTheReport'
BY RestIsCurrent, PTL

\* Whatever the order of the steps of the runs and of the script, what is stored, reported and
\* sent of a video at rest is the same, unless a run and the script overlapped, or a retry left
\* out the summary of a new transcript because there was one of the old; and no commit of the
\* script stores a summary without its report.
THEOREM ReportsAreCurrentAlways == ReportSpec => ReportsAreCurrent
<1>1. ReportInit => ReportInv
  BY ReportInvInit
<1>2. ReportInv /\ [ReportNext]_reportVars => ReportInv'
  BY ReportInvStep, ReportAssumption
<1>3. ReportInv /\ [ReportNext]_reportVars =>
         [ReportIsCurrent' /\ SentIsTheReport' /\ BackfillIsWhole]_reportVars
  BY <1>2, ReportInvStep, RestIsCurrentNext, ReportAssumption
<1>4. QED
  BY <1>1, <1>2, <1>3, PTL DEF ReportSpec, ReportsAreCurrent

-----------------------------------------------------------------------------
(***************************************************************************)
(* Personas.                                                               *)
(***************************************************************************)
\* The videos of the channel that are there.
Created == {v \in ChannelVideos : clip[v] # "absent"}

\* Every video outside the corpus was created later, or was not completed when the corpus
\* was read: one that completes afterwards is among them.
Accounted(r) == Created \ r.corpus \subseteq r.after \cup r.late

\* What the persona and its tasks are made of.
PersonaRows == [made : BOOLEAN, corpus : SUBSET ChannelVideos, after : SUBSET ChannelVideos,
                late : SUBSET ChannelVideos]

PersonaTasks == [phase : {"idle", "read", "derive", "write"},
                 message : [forced : BOOLEAN, tries : Nat],
                 corpus : SUBSET ChannelVideos, after : SUBSET ChannelVideos,
                 late : SUBSET ChannelVideos]

\* Types.
PersonaTypeInv ==
    /\ clip \in [ChannelVideos -> {"absent", "pending", "completed"}]
    /\ persona \in PersonaRows
    /\ requests \in SUBSET [forced : BOOLEAN, tries : Nat]
    /\ deriving \in [Workers -> PersonaTasks]

\* What a task has read is accounted for from then on, like what was written.
CorporaAreAccounted ==
    /\ persona.made => Accounted(persona)
    /\ \A w \in Workers : deriving[w].phase \in {"derive", "write"} => Accounted(deriving[w])

\* The invariant.
PersonaInv == PersonaTypeInv /\ CorporaAreAccounted

-----------------------------------------------------------------------------
\* A worker without a task is at rest.
LEMMA NoTaskIsTask == NoTask \in PersonaTasks /\ NoTask.phase = "idle"
BY DEF NoTask, PersonaTasks

\* What is sent to the workers.
LEMMA Messages == \A forced \in BOOLEAN, tries \in Nat :
                     Message(forced, tries) \in [forced : BOOLEAN, tries : Nat]
BY DEF Message

\* A step that changes only what is queued.
LEMMA QueueStep ==
    ASSUME PersonaInv, NEW message \in [forced : BOOLEAN, tries : Nat],
           requests' \in {requests, Enqueued(message)}, UNCHANGED <<clip, persona, deriving>>
    PROVE  PersonaInv'
BY DEF Enqueued, PersonaInv, PersonaTypeInv, CorporaAreAccounted, Accounted, Created

\* A step of a task that leaves the videos and the row.
LEMMA TaskStep ==
    ASSUME PersonaInv, NEW w \in Workers, NEW new \in PersonaTasks,
           deriving' = [deriving EXCEPT ![w] = new], UNCHANGED <<clip, persona>>,
           requests' \in SUBSET [forced : BOOLEAN, tries : Nat],
           new.phase \in {"derive", "write"} => Accounted(new)
    PROVE  PersonaInv'
<1>1. Created' = Created
  BY DEF Created
<1>2. deriving'[w] = new /\ \A u \in Workers : u # w => deriving'[u] = deriving[u]
  BY DEF PersonaInv, PersonaTypeInv
<1>3. PersonaTypeInv'
  BY DEF PersonaInv, PersonaTypeInv
<1>4. CorporaAreAccounted'
  BY <1>1, <1>2 DEF PersonaInv, CorporaAreAccounted, Accounted
<1>5. QED
  BY <1>3, <1>4 DEF PersonaInv

\* A new video was created after everything that was read or written.
LEMMA VideoCreated ==
    ASSUME PersonaInv, NEW v \in ChannelVideos, CreateClip(v)
    PROVE  PersonaInv'
<1>1. /\ clip' = [clip EXCEPT ![v] = "pending"] /\ UNCHANGED requests
      /\ persona' = IF persona.made THEN [persona EXCEPT !.after = @ \cup {v}] ELSE persona
      /\ PersonaTypeInv
  BY DEF CreateClip, PersonaInv
<1>2. Created' = Created \cup {v}
  BY <1>1 DEF Created, PersonaTypeInv
<1>3. \A w \in Workers :
         deriving'[w] = IF deriving[w].phase = "idle" THEN NoTask
                        ELSE [deriving[w] EXCEPT !.after = @ \cup {v}]
  BY DEF CreateClip
<1>4. \A w \in Workers :
         /\ deriving'[w] \in PersonaTasks
         /\ deriving'[w].phase \in {"derive", "write"} =>
               /\ deriving[w].phase \in {"derive", "write"}
               /\ deriving'[w].corpus = deriving[w].corpus /\ deriving'[w].late = deriving[w].late
               /\ deriving'[w].after = deriving[w].after \cup {v}
  <2> TAKE w \in Workers
  <2>1. deriving[w] \in PersonaTasks
    BY <1>1 DEF PersonaTypeInv
  <2>2. CASE deriving[w].phase = "idle"
    BY <1>3, <2>2, NoTaskIsTask
  <2>3. CASE deriving[w].phase # "idle"
    <3>1. deriving'[w] = [deriving[w] EXCEPT !.after = @ \cup {v}]
      BY <1>3, <2>3
    <3>2. QED
      BY <2>1, <3>1 DEF PersonaTasks
  <2>4. QED
    BY <2>2, <2>3
<1>5. deriving' \in [Workers -> PersonaTasks]
  BY <1>4 DEF CreateClip
<1>6. /\ persona' \in PersonaRows
      /\ persona'.made = persona.made /\ persona'.corpus = persona.corpus
      /\ persona'.late = persona.late
      /\ persona'.after = IF persona.made THEN persona.after \cup {v} ELSE persona.after
  BY <1>1 DEF PersonaTypeInv, PersonaRows
<1>7. PersonaTypeInv'
  BY <1>1, <1>5, <1>6 DEF PersonaTypeInv
<1>8. CorporaAreAccounted'
  <2>1. persona'.made => Accounted(persona)'
    BY <1>2, <1>6 DEF PersonaInv, CorporaAreAccounted, Accounted
  <2>2. \A w \in Workers : deriving'[w].phase \in {"derive", "write"} => Accounted(deriving[w])'
    BY <1>2, <1>4 DEF PersonaInv, CorporaAreAccounted, Accounted
  <2>3. QED
    BY <2>1, <2>2 DEF CorporaAreAccounted
<1>9. QED
  BY <1>7, <1>8 DEF PersonaInv

\* A video that completes was late for those who had read the corpus.
LEMMA CompleteStep ==
    ASSUME PersonaInv, NEW v \in ChannelVideos, CompleteClip(v)
    PROVE  PersonaInv'
<1>1. /\ clip[v] = "pending" /\ clip' = [clip EXCEPT ![v] = "completed"]
      /\ requests' \in {requests, Enqueued(Message(FALSE, 0))}
      /\ UNCHANGED <<persona, deriving>> /\ PersonaTypeInv
  BY DEF CompleteClip, PersonaInv
<1>2. Created' = Created
  BY <1>1 DEF Created, PersonaTypeInv
<1>3. PersonaTypeInv'
  BY <1>1, Messages DEF PersonaTypeInv, Enqueued
<1>4. CorporaAreAccounted'
  BY <1>1, <1>2 DEF PersonaInv, CorporaAreAccounted, Accounted
<1>5. QED
  BY <1>3, <1>4 DEF PersonaInv

\* The steps of a task: what it reads is complete, and what it writes is what it read.
LEMMA WorkerStep ==
    ASSUME PersonaInv, NEW w \in Workers,
           BeginTask(w) \/ ReadCorpus(w) \/ Derive(w) \/ Fail(w) \/ Upsert(w)
    PROVE  PersonaInv'
<1>1. PersonaTypeInv /\ deriving[w] \in PersonaTasks
  BY DEF PersonaInv, PersonaTypeInv
<1>2. CASE BeginTask(w)
  <2>1. PICK message \in requests :
           /\ requests' = requests \ {message}
           /\ deriving' = IF message.forced \/ NeedsPersona
                          THEN [deriving EXCEPT ![w] = [NoTask EXCEPT !.phase = "read", !.message = message]]
                          ELSE deriving
    BY <1>2 DEF BeginTask
  <2>2. requests' \in SUBSET [forced : BOOLEAN, tries : Nat] /\ UNCHANGED <<clip, persona>>
    BY <1>1, <1>2, <2>1 DEF PersonaTypeInv, BeginTask
  <2>3. /\ [NoTask EXCEPT !.phase = "read", !.message = message] \in PersonaTasks
        /\ [NoTask EXCEPT !.phase = "read", !.message = message].phase = "read"
    BY <1>1, <2>1, NoTaskIsTask DEF PersonaTypeInv, PersonaTasks
  <2>4. CASE message.forced \/ NeedsPersona
    BY <2>1, <2>2, <2>3, <2>4, TaskStep
  <2>5. CASE ~(message.forced \/ NeedsPersona)
    BY <2>1, <2>2, <2>5
       DEF PersonaInv, PersonaTypeInv, CorporaAreAccounted, Accounted, Created
  <2>6. QED
    BY <2>4, <2>5
<1>3. CASE ReadCorpus(w)
  <2> DEFINE new == [deriving[w] EXCEPT !.phase = "derive", !.corpus = Completed,
                                        !.late = {v \in ChannelVideos : clip[v] = "pending"}]
  <2>1. UNCHANGED <<clip, persona, requests>>
    BY <1>3 DEF ReadCorpus
  <2>2. Completed \subseteq ChannelVideos
    BY DEF Completed
  <2>3. /\ new \in PersonaTasks /\ new.corpus = Completed
        /\ new.late = {v \in ChannelVideos : clip[v] = "pending"}
    BY <1>1, <2>2 DEF PersonaTasks
  <2>4. Accounted(new)
    <3>1. Created \ Completed \subseteq {v \in ChannelVideos : clip[v] = "pending"}
      BY <1>1 DEF Created, Completed, PersonaTypeInv
    <3>2. QED
      BY <2>3, <3>1 DEF Accounted
  <2>5. requests' \in SUBSET [forced : BOOLEAN, tries : Nat]
    BY <1>1, <2>1 DEF PersonaTypeInv
  <2>6. CASE Completed = {}
    <3>1. deriving' = [deriving EXCEPT ![w] = NoTask]
      BY <1>3, <2>6 DEF ReadCorpus
    <3>2. QED
      BY <2>1, <2>5, <3>1, NoTaskIsTask, TaskStep
  <2>7. CASE Completed # {}
    <3>1. deriving' = [deriving EXCEPT ![w] = new]
      BY <1>3, <2>7 DEF ReadCorpus
    <3>2. QED
      BY <2>1, <2>3, <2>4, <2>5, <3>1, TaskStep
  <2>8. QED
    BY <2>6, <2>7
<1>4. CASE Derive(w)
  <2> DEFINE new == [deriving[w] EXCEPT !.phase = "write"]
  <2>1. /\ deriving[w].phase = "derive" /\ deriving' = [deriving EXCEPT ![w] = new]
        /\ UNCHANGED <<clip, persona, requests>>
    BY <1>4 DEF Derive
  <2>2. /\ new \in PersonaTasks /\ new.corpus = deriving[w].corpus
        /\ new.after = deriving[w].after /\ new.late = deriving[w].late
    BY <1>1 DEF PersonaTasks
  <2>3. Accounted(new)
    BY <2>1, <2>2 DEF PersonaInv, CorporaAreAccounted, Accounted
  <2>4. QED
    BY <1>1, <2>1, <2>2, <2>3, TaskStep DEF PersonaTypeInv
<1>5. CASE Fail(w)
  <2>1. Message(deriving[w].message.forced, deriving[w].message.tries + 1)
           \in [forced : BOOLEAN, tries : Nat]
    <3>1. deriving[w].message \in [forced : BOOLEAN, tries : Nat]
      BY <1>1 DEF PersonaTasks
    <3>2. deriving[w].message.forced \in BOOLEAN /\ deriving[w].message.tries + 1 \in Nat
      BY <3>1
    <3>3. QED
      BY <3>2, Messages
  <2>2. requests' \in SUBSET [forced : BOOLEAN, tries : Nat]
    BY <1>1, <1>5, <2>1 DEF Fail, Enqueued, PersonaTypeInv
  <2>3. deriving' = [deriving EXCEPT ![w] = NoTask] /\ UNCHANGED <<clip, persona>>
    BY <1>5 DEF Fail
  <2>4. QED
    BY <2>2, <2>3, NoTaskIsTask, TaskStep
<1>6. CASE Upsert(w)
  <2>1. /\ deriving[w].phase = "write" /\ deriving' = [deriving EXCEPT ![w] = NoTask]
        /\ UNCHANGED <<clip, requests>>
        /\ persona' = [made |-> TRUE, corpus |-> deriving[w].corpus,
                       after |-> deriving[w].after, late |-> deriving[w].late]
    BY <1>6 DEF Upsert, PersonaWritten
  <2>2. persona' \in PersonaRows
    BY <1>1, <2>1 DEF PersonaTasks, PersonaRows
  <2>3. Created' = Created
    BY <2>1 DEF Created
  <2>4. deriving'[w].phase = "idle" /\ \A u \in Workers : u # w => deriving'[u] = deriving[u]
    BY <1>1, <2>1, NoTaskIsTask DEF PersonaTypeInv
  <2>5. PersonaTypeInv'
    BY <1>1, <2>1, <2>2, NoTaskIsTask DEF PersonaTypeInv
  <2>6. CorporaAreAccounted'
    BY <2>1, <2>3, <2>4 DEF PersonaInv, CorporaAreAccounted, Accounted
  <2>7. QED
    BY <2>5, <2>6 DEF PersonaInv
<1>7. QED
  BY <1>2, <1>3, <1>4, <1>5, <1>6

\* It holds at first.
LEMMA PersonaInductive == PersonaInit => PersonaInv
<1> SUFFICES ASSUME PersonaInit PROVE PersonaInv
  OBVIOUS
<1>1. NoPersona \in PersonaRows /\ ~NoPersona.made
  BY DEF NoPersona, PersonaRows
<1>2. QED
  BY <1>1, NoTaskIsTask DEF PersonaInit, PersonaInv, PersonaTypeInv, CorporaAreAccounted

\* Every step keeps it.
LEMMA PersonaStep == PersonaInv /\ [PersonaNext]_personaVars => PersonaInv'
<1> SUFFICES ASSUME PersonaInv, [PersonaNext]_personaVars PROVE PersonaInv'
  OBVIOUS
<1>1. ASSUME NEW v \in ChannelVideos, CreateClip(v) \/ CompleteClip(v) PROVE PersonaInv'
  BY <1>1, VideoCreated, CompleteStep
<1>2. ASSUME NEW w \in Workers,
             BeginTask(w) \/ ReadCorpus(w) \/ Derive(w) \/ Fail(w) \/ Upsert(w)
      PROVE  PersonaInv'
  BY <1>2, WorkerStep
<1>3. CASE Refresh \/ Sweep
  <2>1. Message(TRUE, 0) \in [forced : BOOLEAN, tries : Nat]
    BY Messages
  <2>2. QED
    BY <1>3, <2>1, QueueStep DEF Refresh, Sweep
<1>4. CASE UNCHANGED personaVars
  BY <1>4 DEF personaVars, PersonaInv, PersonaTypeInv, CorporaAreAccounted, Accounted, Created
<1>5. QED
  BY <1>1, <1>2, <1>3, <1>4 DEF PersonaNext

\* For any number of videos and of tasks that overlap, a completed video that the persona
\* leaves out was created after the task that wrote it began, which the sweep notices, or
\* was not completed when this task read the corpus.
THEOREM UnseenVideosAreNoticed == PersonaSpec => []UnseenIsNoticed
<1>1. PersonaInv => UnseenIsNoticed
  BY DEF PersonaInv, PersonaTypeInv, CorporaAreAccounted, Accounted, Created, Completed, UnseenIsNoticed
<1>2. QED
  BY <1>1, PersonaInductive, PersonaStep, PTL DEF PersonaSpec

-----------------------------------------------------------------------------
(***************************************************************************)
(* LlmBudget.                                                              *)
(***************************************************************************)
\* A call that looked at the budget, saw a sum below the cap and may still be billed.
Passed(c) == /\ calls[c].phase \in {"call", "record"}
             /\ Checks(calls[c].kind) /\ calls[c].blind = 0

\* All such calls.
PassedCalls == {c \in Callers : Passed(c)}

\* What a call is made of.
BudgetCalls == [phase : {"idle", "check", "call", "record"}, kind : Kinds, source : Sources,
                cost : {0, 1}, blind : {0, 1}, second : BOOLEAN]

\* Types.
BudgetTypeInv ==
    /\ usage \in [Sources -> Nat]
    /\ tag \in [Callers -> Sources]
    /\ calls \in [Callers -> BudgetCalls]
    /\ billed \in Nat /\ excused \in Nat

\* What was billed is in the sum, or excused.
BilledIsSummed == billed <= Today + excused

\* Every call that has passed may be billed after the cap is reached, and no other.
PassedIsBounded == billed + Cardinality(PassedCalls) <= Cap - 1 + Cardinality(Callers) + excused

\* The cleanup and the summary of a main thread carry its tag.
TagIsTheSource ==
    \A c \in Mains : Works(c) /\ calls[c].kind # "persona" => tag[c] = calls[c].source

\* The invariant.
BudgetInv == BudgetTypeInv /\ BilledIsSummed /\ PassedIsBounded /\ TagIsTheSource

-----------------------------------------------------------------------------
\* There are finitely many callers.
LEMMA PassedAreFinite ==
    /\ IsFiniteSet(Callers) /\ Cardinality(Callers) \in Nat
    /\ \A S \in SUBSET Callers : /\ IsFiniteSet(S) /\ Cardinality(S) \in Nat
                                 /\ Cardinality(S) <= Cardinality(Callers)
<1>1. IsFiniteSet(Callers)
  BY BudgetAssumption, FS_Union DEF Callers
<1>2. QED
  BY <1>1, FS_Subset, FS_CardinalityType

\* A thread without a call is at rest.
LEMMA NoCallIsCall == NoCall \in BudgetCalls /\ NoCall.phase = "idle"
BY DEF NoCall, BudgetCalls, Kinds, Sources

\* A step of one call that lets no further call pass and leaves the sums.
LEMMA QuietCall ==
    ASSUME BudgetInv, NEW c \in Callers, NEW new \in BudgetCalls,
           calls' = [calls EXCEPT ![c] = new], UNCHANGED <<usage, billed, excused>>,
           /\ new.phase \in {"call", "record"} /\ Checks(new.kind) /\ new.blind = 0
              => Passed(c),
           tag' \in [Callers -> Sources], \A d \in Callers : d # c => tag'[d] = tag[d],
           c \in Mains /\ new.phase # "idle" /\ new.kind # "persona" => tag'[c] = new.source
    PROVE  BudgetInv'
<1>1. BudgetTypeInv' /\ BilledIsSummed'
  BY DEF BudgetInv, BudgetTypeInv, BilledIsSummed, Today
<1>2. calls'[c] = new /\ \A d \in Callers : d # c => calls'[d] = calls[d]
  BY DEF BudgetInv, BudgetTypeInv
<1>3. PassedCalls' \subseteq PassedCalls
  BY <1>2 DEF PassedCalls, Passed
<1>4. Cardinality(PassedCalls') <= Cardinality(PassedCalls)
      /\ Cardinality(PassedCalls') \in Nat /\ Cardinality(PassedCalls) \in Nat
  <2>1. PassedCalls \in SUBSET Callers /\ PassedCalls' \in SUBSET Callers
    BY <1>3 DEF PassedCalls
  <2>2. QED
    BY <1>3, <2>1, PassedAreFinite, FS_Subset
<1>5. PassedIsBounded'
  BY <1>4, PassedAreFinite, BudgetAssumption DEF BudgetInv, BudgetTypeInv, PassedIsBounded
<1>6. TagIsTheSource'
  BY <1>2 DEF BudgetInv, TagIsTheSource, Works, Callers
<1>7. QED
  BY <1>1, <1>5, <1>6 DEF BudgetInv

\* A call that begins has not passed the check.
LEMMA CallBegins ==
    ASSUME BudgetInv, NEW c \in Callers, BeginCall(c) \/ BeginChunk(c)
    PROVE  BudgetInv'
<1>1. BudgetTypeInv
  BY DEF BudgetInv
<1>2. CASE BeginCall(c)
  <2>1. PICK kind \in Kinds, source \in Sources :
          /\ kind = "persona" => source = "none"
          /\ calls' = [calls EXCEPT ![c] = [NoCall EXCEPT
                !.phase = IF Checks(kind) THEN "check" ELSE "call", !.kind = kind, !.source = source]]
          /\ tag' = [tag EXCEPT ![c] = SourceSet(c, kind, source)]
          /\ UNCHANGED <<usage, billed, excused>>
    BY <1>2 DEF BeginCall
  <2> DEFINE new == [NoCall EXCEPT !.phase = IF Checks(kind) THEN "check" ELSE "call",
                                   !.kind = kind, !.source = source]
  <2>2. /\ new \in BudgetCalls /\ new.kind = kind /\ new.source = source
        /\ new.phase = IF Checks(kind) THEN "check" ELSE "call"
    BY NoCallIsCall DEF BudgetCalls
  <2>3. SourceSet(c, kind, source) \in Sources
        /\ (kind # "persona" => SourceSet(c, kind, source) = source)
    BY <1>1 DEF SourceSet, BudgetTypeInv
  <2>4. /\ tag' \in [Callers -> Sources] /\ \A d \in Callers : d # c => tag'[d] = tag[d]
        /\ tag'[c] = SourceSet(c, kind, source)
    BY <1>1, <2>1, <2>3 DEF BudgetTypeInv
  <2>5. calls' = [calls EXCEPT ![c] = new] /\ UNCHANGED <<usage, billed, excused>>
    BY <2>1
  <2>6. ~(new.phase \in {"call", "record"} /\ Checks(new.kind))
    BY <2>2
  <2>7. new.phase # "idle" /\ new.kind # "persona" => tag'[c] = new.source
    BY <2>2, <2>3, <2>4
  <2> HIDE DEF new
  <2>8. QED
    BY <2>2, <2>4, <2>5, <2>6, <2>7, QuietCall
<1>3. CASE BeginChunk(c)
  <2>1. PICK source \in Sources :
          /\ calls' = [calls EXCEPT ![c] = [NoCall EXCEPT
                !.phase = "check", !.kind = "cleanup", !.source = source]]
          /\ UNCHANGED <<usage, tag, billed, excused>>
    BY <1>3 DEF BeginChunk
  <2> DEFINE new == [NoCall EXCEPT !.phase = "check", !.kind = "cleanup", !.source = source]
  <2>2. new \in BudgetCalls /\ new.phase = "check"
    BY NoCallIsCall DEF BudgetCalls, Kinds
  <2>3. c \notin Mains
    BY <1>3, BudgetAssumption DEF BeginChunk
  <2>4. /\ calls' = [calls EXCEPT ![c] = new] /\ UNCHANGED <<usage, billed, excused>>
        /\ tag' \in [Callers -> Sources] /\ tag' = tag
    BY <1>1, <2>1 DEF BudgetTypeInv
  <2> HIDE DEF new
  <2>5. QED
    BY <2>2, <2>3, <2>4, QuietCall
<1>4. QED
  BY <1>2, <1>3

\* A call of a model, whoever answers.
LEMMA CallStep ==
    ASSUME BudgetInv, NEW c \in Callers, Call(c)
    PROVE  BudgetInv'
<1>1. calls[c] \in BudgetCalls /\ calls[c].phase = "call" /\ BudgetTypeInv
  BY DEF Call, BudgetInv, BudgetTypeInv
<1>2. UNCHANGED <<usage, billed, excused>> /\ tag' = tag /\ tag' \in [Callers -> Sources]
  BY DEF Call, BudgetInv, BudgetTypeInv
<1>3. c \in Mains /\ calls[c].kind # "persona" => tag'[c] = calls[c].source
  BY <1>1, <1>2 DEF BudgetInv, TagIsTheSource, Works
<1>4. CASE CallFails(c)
  BY <1>2, <1>4, NoCallIsCall, QuietCall DEF CallFails
<1>5. CASE Answered(c)
  <2> DEFINE new == [calls[c] EXCEPT !.phase = "record", !.cost = 1]
  <2>1. calls' = [calls EXCEPT ![c] = new]
    BY <1>5 DEF Answered
  <2>2. /\ new \in BudgetCalls /\ new.kind = calls[c].kind /\ new.blind = calls[c].blind
        /\ new.source = calls[c].source
    BY <1>1 DEF BudgetCalls
  <2>3. Checks(new.kind) /\ new.blind = 0 => Passed(c)
    BY <1>1, <2>2 DEF Passed
  <2> HIDE DEF new
  <2>4. QED
    BY <1>2, <1>3, <2>1, <2>2, <2>3, QuietCall
<1>6. CASE AnsweredLocally(c)
  <2> DEFINE new == [calls[c] EXCEPT !.phase = "record"]
  <2>1. calls' = [calls EXCEPT ![c] = new]
    BY <1>6 DEF AnsweredLocally
  <2>2. /\ new \in BudgetCalls /\ new.kind = calls[c].kind /\ new.blind = calls[c].blind
        /\ new.source = calls[c].source
    BY <1>1 DEF BudgetCalls
  <2>3. Checks(new.kind) /\ new.blind = 0 => Passed(c)
    BY <1>1, <2>2 DEF Passed
  <2> HIDE DEF new
  <2>4. QED
    BY <1>2, <1>3, <2>1, <2>2, <2>3, QuietCall
<1>7. CASE FallsBack(c)
  <2> DEFINE new == [calls[c] EXCEPT !.phase = "check", !.second = TRUE, !.blind = 0]
  <2>1. calls' = [calls EXCEPT ![c] = new]
    BY <1>7 DEF FallsBack
  <2>2. new \in BudgetCalls /\ new.kind = calls[c].kind /\ new.source = calls[c].source
        /\ new.phase = "check"
    BY <1>1 DEF BudgetCalls
  <2> HIDE DEF new
  <2>3. QED
    BY <1>2, <1>3, <2>1, <2>2, QuietCall
<1>8. QED
  BY <1>4, <1>5, <1>6, <1>7 DEF Call

\* A call that sees a sum below the cap is one of at most as many as there are threads.
LEMMA CheckStep ==
    ASSUME BudgetInv, NEW c \in Callers, Check(c)
    PROVE  BudgetInv'
<1>1. calls[c] \in BudgetCalls /\ calls[c].phase = "check" /\ BudgetTypeInv
  BY DEF Check, BudgetInv, BudgetTypeInv
<1>2. UNCHANGED <<usage, billed, excused>> /\ tag' = tag /\ tag' \in [Callers -> Sources]
  BY DEF Check, BudgetInv, BudgetTypeInv
<1>3. c \in Mains /\ calls[c].kind # "persona" => tag'[c] = calls[c].source
  BY <1>1, <1>2 DEF BudgetInv, TagIsTheSource, Works
<1>4. CASE calls' = [calls EXCEPT ![c] = NoCall]
  BY <1>2, <1>4, NoCallIsCall, QuietCall
<1>5. CASE calls' = [calls EXCEPT ![c].phase = "call", ![c].blind = 1]
  <2> DEFINE new == [calls[c] EXCEPT !.phase = "call", !.blind = 1]
  <2>1. calls' = [calls EXCEPT ![c] = new]
    BY <1>5
  <2>2. new \in BudgetCalls /\ new.kind = calls[c].kind /\ new.source = calls[c].source
        /\ new.blind = 1
    BY <1>1 DEF BudgetCalls
  <2>3. ~(new.blind = 0) /\ new.phase # "idle"
    BY <1>1, <2>2 DEF BudgetCalls
  <2>4. c \in Mains /\ new.kind # "persona" => tag'[c] = new.source
    BY <1>3, <2>2
  <2> HIDE DEF new
  <2>5. QED
    BY <1>2, <2>1, <2>2, <2>3, <2>4, QuietCall
<1>6. CASE ~Exceeded /\ calls' = [calls EXCEPT ![c] = [calls[c] EXCEPT !.phase = "call"]]
  <2> DEFINE new == [calls[c] EXCEPT !.phase = "call"]
  <2>1. new \in BudgetCalls /\ new.kind = calls[c].kind /\ new.source = calls[c].source
        /\ new.phase = "call"
    BY <1>1 DEF BudgetCalls
  <2>2. calls'[c] = new /\ \A d \in Callers : d # c => calls'[d] = calls[d]
    BY <1>1, <1>6 DEF BudgetTypeInv
  <2>3. BudgetTypeInv' /\ BilledIsSummed'
    BY <1>2, <1>6, <2>1 DEF BudgetInv, BudgetTypeInv, BilledIsSummed, Today
  <2>4. Today \in Nat /\ Today <= Cap - 1
    <3>1. Today \in Nat
      BY <1>1 DEF Today, BudgetTypeInv, Sources
    <3>2. ~(Today >= Cap)
      BY <1>6 DEF Exceeded
    <3>3. QED
      BY <3>1, <3>2, BudgetAssumption
  <2>5. PassedCalls' \in SUBSET Callers
    BY DEF PassedCalls
  <2>6. Cardinality(PassedCalls') <= Cardinality(Callers) /\ Cardinality(PassedCalls') \in Nat
        /\ Cardinality(Callers) \in Nat
    BY <2>5, PassedAreFinite
  <2>7. PassedIsBounded'
    BY <1>1, <1>2, <2>4, <2>6, BudgetAssumption
       DEF BudgetInv, BilledIsSummed, PassedIsBounded, BudgetTypeInv
  <2>8. TagIsTheSource'
    BY <1>2, <1>3, <2>1, <2>2 DEF BudgetInv, TagIsTheSource, Works, Callers
  <2>9. QED
    BY <2>3, <2>7, <2>8 DEF BudgetInv
<1>7. QED
  BY <1>4, <1>5, <1>6 DEF Check

\* The cost: in the sum, or excused; the call leaves the ones that may be billed.
LEMMA RecordStep ==
    ASSUME BudgetInv, NEW c \in Callers, RecordCost(c)
    PROVE  BudgetInv'
<1> DEFINE cost    == calls[c].cost
           checked == IF Checks(calls[c].kind) THEN cost ELSE 0
<1>1. calls[c] \in BudgetCalls /\ calls[c].phase = "record" /\ BudgetTypeInv
  BY DEF RecordCost, BudgetInv, BudgetTypeInv
<1>2. /\ billed' = billed + checked /\ tag' = tag
      /\ calls' = [calls EXCEPT ![c] = NoCall]
      /\ \/ /\ usage' = [usage EXCEPT ![tag[c]] = @ + cost]
            /\ excused' = excused + checked * calls[c].blind
         \/ usage' = usage /\ excused' = excused + checked
  BY DEF RecordCost
<1>3. cost \in {0, 1} /\ calls[c].blind \in {0, 1} /\ checked \in {0, 1} /\ checked <= cost
      /\ tag[c] \in Sources
  BY <1>1 DEF BudgetCalls, BudgetTypeInv
<1>4. calls'[c] = NoCall /\ \A d \in Callers : d # c => calls'[d] = calls[d]
  BY <1>1, <1>2 DEF BudgetTypeInv
<1>5. \/ excused' = excused + checked
      \/ excused' = excused /\ calls[c].blind = 0
  BY <1>1, <1>2, <1>3 DEF BudgetTypeInv
<1>6. /\ usage' \in [Sources -> Nat]
      /\ \/ Today' = Today + cost
         \/ Today' = Today /\ excused' = excused + checked
  <2>1. CASE usage' = usage /\ excused' = excused + checked
    BY <1>1, <2>1 DEF Today, BudgetTypeInv
  <2>2. CASE usage' = [usage EXCEPT ![tag[c]] = @ + cost]
    <3>1. usage["auto_ingest"] \in Nat /\ usage["none"] \in Nat
      BY <1>1 DEF BudgetTypeInv, Sources
    <3>2. CASE tag[c] = "auto_ingest"
      BY <1>1, <1>3, <2>2, <3>1, <3>2 DEF Today, BudgetTypeInv, Sources
    <3>3. CASE tag[c] = "none"
      BY <1>1, <1>3, <2>2, <3>1, <3>3 DEF Today, BudgetTypeInv, Sources
    <3>4. QED
      BY <1>3, <3>2, <3>3 DEF Sources
  <2>3. QED
    BY <1>2, <2>1, <2>2
<1>7. Today \in Nat /\ Today' \in Nat /\ billed \in Nat /\ excused \in Nat /\ excused' \in Nat
  BY <1>1, <1>3, <1>5, <1>6 DEF Today, BudgetTypeInv, Sources
<1>8. BudgetTypeInv'
  BY <1>1, <1>2, <1>3, <1>6, <1>7, NoCallIsCall DEF BudgetTypeInv
<1>9. BilledIsSummed'
  BY <1>2, <1>3, <1>5, <1>6, <1>7 DEF BudgetInv, BilledIsSummed
<1>10. PassedIsBounded'
  <2>1. PassedCalls' = PassedCalls \ {c}
    BY <1>4, NoCallIsCall DEF PassedCalls, Passed
  <2>2. IsFiniteSet(PassedCalls) /\ Cardinality(PassedCalls) \in Nat /\ Cardinality(Callers) \in Nat
    BY PassedAreFinite DEF PassedCalls
  <2>3. Cardinality(PassedCalls') = IF Passed(c) THEN Cardinality(PassedCalls) - 1
                                                  ELSE Cardinality(PassedCalls)
    BY <2>1, <2>2, FS_RemoveElement DEF PassedCalls
  <2>4. checked = 0 \/ excused' = excused + checked \/ Passed(c)
    BY <1>1, <1>3, <1>5 DEF Passed
  <2>5. QED
    BY <1>2, <1>3, <1>5, <1>7, <2>2, <2>3, <2>4, BudgetAssumption DEF BudgetInv, PassedIsBounded
<1>11. TagIsTheSource'
  BY <1>2, <1>4, NoCallIsCall DEF BudgetInv, TagIsTheSource, Works, Callers
<1>12. QED
  BY <1>8, <1>9, <1>10, <1>11 DEF BudgetInv

\* A new day begins with the calls that have passed.
LEMMA MidnightStep ==
    ASSUME BudgetInv, Midnight
    PROVE  BudgetInv'
<1>1. /\ usage' = [s \in Sources |-> 0] /\ billed' = 0 /\ excused' = 0
      /\ UNCHANGED <<tag, calls>> /\ BudgetTypeInv
  BY DEF Midnight, BudgetInv
<1>2. BudgetTypeInv' /\ BilledIsSummed'
  BY <1>1 DEF BudgetTypeInv, BilledIsSummed, Today, Sources
<1>3. PassedCalls' \in SUBSET Callers
  BY DEF PassedCalls
<1>4. Cardinality(PassedCalls') <= Cardinality(Callers) /\ Cardinality(PassedCalls') \in Nat
      /\ Cardinality(Callers) \in Nat
  BY <1>3, PassedAreFinite
<1>5. PassedIsBounded'
  BY <1>1, <1>4, BudgetAssumption DEF PassedIsBounded
<1>6. TagIsTheSource'
  BY <1>1 DEF BudgetInv, TagIsTheSource, Works
<1>7. QED
  BY <1>2, <1>5, <1>6 DEF BudgetInv

\* Every step keeps it.
LEMMA BudgetStep ==
    ASSUME BudgetInv, [BudgetNext]_budgetVars
    PROVE  BudgetInv'
<1>1. ASSUME NEW c \in Callers,
             BeginCall(c) \/ BeginChunk(c) \/ Check(c) \/ Call(c) \/ RecordCost(c)
      PROVE  BudgetInv'
  BY <1>1, CallBegins, CheckStep, CallStep, RecordStep
<1>2. CASE UNCHANGED budgetVars
  BY <1>2 DEF budgetVars, BudgetInv, BudgetTypeInv, BilledIsSummed, Today, PassedIsBounded,
              PassedCalls, Passed, TagIsTheSource, Works
<1>3. QED
  BY <1>1, <1>2, MidnightStep DEF BudgetNext

\* The calls that passed are at most all callers.
LEMMA SpendWithinPassed == BudgetInv => SpendIsBounded
<1>1. PassedCalls \in SUBSET Callers
  BY DEF PassedCalls
<1>2. Cardinality(PassedCalls) \in Nat /\ Cardinality(Callers) \in Nat
  BY <1>1, PassedAreFinite
<1>3. QED
  BY <1>2, BudgetAssumption DEF BudgetInv, BudgetTypeInv, PassedIsBounded, SpendIsBounded

\* A cost goes to the source that its thread was given.
LEMMA CostHasItsSource == BudgetInv => SourceIsTheAttempts
<1> SUFFICES ASSUME BudgetInv, NEW c \in Mains,
                    RecordCost(c), usage' # usage, calls[c].kind # "persona"
             PROVE  usage'[calls[c].source] = usage[calls[c].source] + calls[c].cost
  BY DEF SourceIsTheAttempts
<1>1. tag[c] = calls[c].source /\ tag[c] \in Sources /\ usage \in [Sources -> Nat]
  BY DEF RecordCost, BudgetInv, BudgetTypeInv, TagIsTheSource, Works, Callers
<1>2. usage' = [usage EXCEPT ![tag[c]] = @ + calls[c].cost]
  BY DEF RecordCost
<1>3. QED
  BY <1>1, <1>2

\* At first nothing was billed.
LEMMA BudgetBegins == BudgetInit => BudgetInv
<1> SUFFICES ASSUME BudgetInit PROVE BudgetInv
  OBVIOUS
<1>1. BudgetTypeInv /\ BilledIsSummed /\ PassedCalls = {}
  BY NoCallIsCall
     DEF BudgetInit, BudgetTypeInv, BilledIsSummed, Today, Sources, PassedCalls, Passed
<1>2. PassedIsBounded
  BY <1>1, FS_EmptySet, PassedAreFinite, BudgetAssumption DEF BudgetInit, PassedIsBounded
<1>3. TagIsTheSource
  BY NoCallIsCall DEF BudgetInit, TagIsTheSource, Works, Callers
<1>4. QED
  BY <1>1, <1>2, <1>3 DEF BudgetInv

\* For any number of threads and any cap, what looked at the budget passes it by no more
\* than one call for each thread, apart from what was not recorded or saw no sum, and the
\* costs of an attempt's cleanup and summary go to the source of that attempt.
THEOREM CostsAreOnRecordAlways == BudgetSpec => CostsAreOnRecord
<1>1. BudgetInv /\ [BudgetNext]_budgetVars
         => BudgetInv' /\ [SpendIsBounded' /\ SourceIsTheAttempts]_budgetVars
  <2>1. BudgetInv' => SpendIsBounded'
    BY SpendWithinPassed, PTL
  <2>2. QED
    BY <2>1, BudgetStep, CostHasItsSource
<1>2. QED
  BY <1>1, BudgetBegins, PTL DEF BudgetSpec, CostsAreOnRecord

-----------------------------------------------------------------------------
(***************************************************************************)
(* ReaderDesk.                                                             *)
(***************************************************************************)
\* What the rows and the requests are made of.
DeskRows == [status : Statuses \cup {"none"}, progress : Int, started : BOOLEAN,
             finished : BOOLEAN]

Blocks == {NoMark.block} \cup UNION {BlocksIn(v) : v \in Versions}

MarkRows == [type : {"none", "deleted", "highlight", "note", "bookmark"}, block : Blocks,
             from : Int, to : Int, snapshot : Snapshots \cup {<<>>}, note : BOOLEAN,
             checked : BOOLEAN]

ClientRows == [phase : {"idle", "desk", "mark", "chapters"}, version : Versions,
               desk : DeskRows, mark : MarkRows]

\* Types.
DeskTypeInv ==
    /\ transcript \in Versions
    /\ desk \in DeskRows /\ mark \in MarkRows
    /\ chapterSet.exists => chapterSet.anchors = Anchors(chapterSet.fingerprint)
    /\ client \in [Clients -> ClientRows]

\* The passage of an annotation is in its block.
PassageIsThere(m) ==
    /\ m.from \in Nat /\ m.to \in Nat /\ m.from <= m.to /\ m.to <= Len(m.block.words)
    /\ Selected(m.block, m.from, m.to) = m.snapshot

\* The passage of an annotation is what it was checked against; a passage is not empty.
MarkInv ==
    /\ mark.checked => PassageIsThere(mark)
    /\ NoteHasText
    /\ mark # NoMark => mark.type # "none"

\* What a request has read of an annotation that is still there, but for its type and its note.
LoadedInv ==
    \A c \in Clients :
       LET loaded == client[c].mark IN
       loaded \notin {NoMark, Deleted} =>
          /\ mark # NoMark
          /\ mark # Deleted => /\ loaded.block = mark.block /\ loaded.from = mark.from
                               /\ loaded.to = mark.to /\ loaded.snapshot = mark.snapshot
                               /\ loaded.checked = mark.checked

\* The invariant.
DeskInv == DeskTypeInv /\ FinishedIsComplete /\ MarkInv /\ LoadedInv

-----------------------------------------------------------------------------
\* A set of numbers that is not empty has a smallest one, which Min chooses.
LEMMA MinIs ==
    ASSUME NEW T, T \subseteq Nat, T # {}
    PROVE  Min(T) \in T
<1> DEFINE R == OpToRel(<, Nat)
<1>1. IsWellFoundedOn(R, Nat) /\ \A x, y \in Nat : y < x => <<y, x>> \in R
  BY NatLessThanWellFounded DEF OpToRel
<1> HIDE DEF R
<1>2. \E x \in T : \A y \in T : ~(<<y, x>> \in R)
  BY <1>1, WFMin, Zenon
<1>3. PICK x \in T : \A y \in T : ~(<<y, x>> \in R)
  BY <1>2
<1>4. x \in Nat /\ \A y \in T : y \in Nat /\ ~(y < x)
  BY <1>1, <1>3
<1>5. \E z \in T : \A y \in T : z <= y
  BY <1>4
<1>6. QED
  BY <1>5 DEF Min

\* A row that nobody wrote since it was read is what the request makes of it; one that the
\* request does not change stays what it is.
LEMMA MergedDesk ==
    ASSUME NEW row \in DeskRows, NEW loaded \in DeskRows, NEW new \in DeskRows
    PROVE  /\ Merged(row, loaded, new) \in DeskRows
           /\ row = loaded => Merged(row, loaded, new) = new
           /\ new = loaded => Merged(row, loaded, new) = row
<1> DEFINE fields == {"status", "progress", "started", "finished"}
           merged == Merged(row, loaded, new)
<1>1. DOMAIN row = fields /\ DOMAIN new = fields /\ DOMAIN loaded = fields
  BY DEF DeskRows
<1>2. /\ DOMAIN merged = fields
      /\ merged = [f \in fields |-> merged[f]]
      /\ \A f \in fields : merged[f] = IF new[f] = loaded[f] THEN row[f] ELSE new[f]
  BY <1>1 DEF Merged
<1>3. /\ row = [f \in fields |-> row[f]] /\ new = [f \in fields |-> new[f]]
  BY <1>1 DEF DeskRows
<1>4. /\ merged.status \in Statuses \cup {"none"} /\ merged.progress \in Int
      /\ merged.started \in BOOLEAN /\ merged.finished \in BOOLEAN
  BY <1>2 DEF DeskRows
<1>5. merged \in DeskRows
  BY <1>2, <1>4 DEF DeskRows
<1>6. row = loaded => merged = new
  BY <1>2, <1>3
<1>7. new = loaded => merged = row
  BY <1>2, <1>3
<1>8. QED
  BY <1>5, <1>6, <1>7

\* A row that agrees with itself: what was finished was read to its end.
IsRead(row) ==
    /\ row.status = "finished" => row.progress = 100 /\ row.started /\ row.finished
    /\ row.status = "reading" => row.started /\ ~row.finished

\* A row that was never written, or written first, is read as such.
LEMMA EmptyDesk ==
    NoDesk \in DeskRows /\ NewDesk \in DeskRows /\ IsRead(NoDesk) /\ IsRead(NewDesk)
<1>1. NoDesk \in DeskRows /\ NoDesk.status = "none"
  BY DEF NoDesk, DeskRows
<1>2. NewDesk \in DeskRows /\ NewDesk.status = "unread"
  BY <1>1 DEF NewDesk, DeskRows, Statuses
<1>3. QED
  BY <1>1, <1>2 DEF IsRead

\* The commit of a row that the request makes complete, if the one it read was.
LEMMA WriteDeskStep ==
    ASSUME DeskInv, NEW c \in Clients, NEW new \in DeskRows,
           IsRead(OpenedDesk(client[c].desk)) => IsRead(new),
           WriteDesk(c, new)
    PROVE  /\ desk' \in DeskRows /\ FinishedIsComplete'
           /\ torn' \in {torn, torn \cup {"desk"}}
<1> DEFINE loaded == client[c].desk
<1>1. desk \in DeskRows /\ loaded \in DeskRows /\ ("desk" \notin torn => IsRead(desk))
  <2>1. desk \in DeskRows /\ loaded \in DeskRows
    BY DEF DeskInv, DeskTypeInv, ClientRows
  <2>2. "desk" \notin torn => IsRead(desk)
    BY DEF DeskInv, FinishedIsComplete, IsRead
  <2>3. QED
    BY <2>1, <2>2
<1>2. NoDesk \in DeskRows /\ NewDesk \in DeskRows /\ IsRead(NoDesk) /\ IsRead(NewDesk)
  BY EmptyDesk
<1>3. WriteDesk(c, new) <=>
        IF loaded = NoDesk /\ desk # NoDesk THEN UNCHANGED <<desk, torn>>
        ELSE /\ desk' = IF loaded = NoDesk THEN new ELSE Merged(desk, loaded, new)
             /\ torn' = IF desk # loaded /\ new # loaded THEN torn \cup {"desk"} ELSE torn
  BY DEF WriteDesk
<1>4. IsRead(loaded) => IsRead(OpenedDesk(loaded))
  BY <1>2 DEF OpenedDesk
<1> HIDE DEF loaded
<1>5. CASE loaded = NoDesk /\ desk # NoDesk
  BY <1>1, <1>3, <1>5 DEF DeskInv, FinishedIsComplete
<1>6. CASE loaded = NoDesk /\ desk = NoDesk
  <2>1. desk' = new /\ torn' = torn /\ IsRead(new)
    BY <1>2, <1>3, <1>4, <1>6 DEF loaded
  <2>2. QED
    BY <2>1 DEF FinishedIsComplete, IsRead
<1>7. CASE loaded # NoDesk
  <2>1. /\ desk' = Merged(desk, loaded, new)
        /\ torn' = IF desk # loaded /\ new # loaded THEN torn \cup {"desk"} ELSE torn
    BY <1>3, <1>7
  <2>2. desk' \in DeskRows
    BY <1>1, <2>1, MergedDesk
  <2>3. "desk" \notin torn' => IsRead(desk')
    <3>1. CASE desk = loaded
      BY <1>1, <1>4, <2>1, <3>1, MergedDesk DEF loaded
    <3>2. CASE new = loaded
      BY <1>1, <2>1, <3>2, MergedDesk
    <3>3. CASE desk # loaded /\ new # loaded
      BY <2>1, <3>3
    <3>4. QED
      BY <3>1, <3>2, <3>3
  <2>4. QED
    BY <2>1, <2>2, <2>3 DEF FinishedIsComplete, IsRead
<1>8. QED
  BY <1>5, <1>6, <1>7

\* The columns of an annotation that no request writes, and those that one may.
LEMMA MergedMark ==
    ASSUME NEW row \in MarkRows, NEW loaded \in MarkRows, NEW new \in MarkRows,
           new.block = loaded.block, new.from = loaded.from, new.to = loaded.to,
           new.snapshot = loaded.snapshot, new.checked = loaded.checked
    PROVE  LET merged == Merged(row, loaded, new) IN
           /\ merged \in MarkRows
           /\ merged.block = row.block /\ merged.from = row.from /\ merged.to = row.to
           /\ merged.snapshot = row.snapshot /\ merged.checked = row.checked
           /\ merged.type = row.type \/ (merged.type = new.type /\ new.type # loaded.type)
           /\ row = loaded => merged.type = new.type /\ merged.note = new.note
<1> DEFINE fields == {"type", "block", "from", "to", "snapshot", "note", "checked"}
           merged == Merged(row, loaded, new)
<1>1. DOMAIN row = fields
  BY DEF MarkRows
<1>2. /\ DOMAIN merged = fields
      /\ merged = [f \in fields |-> merged[f]]
      /\ \A f \in fields : merged[f] = IF new[f] = loaded[f] THEN row[f] ELSE new[f]
  BY <1>1 DEF Merged
<1> HIDE DEF merged
<1>3. /\ merged.block = row.block /\ merged.from = row.from /\ merged.to = row.to
      /\ merged.snapshot = row.snapshot /\ merged.checked = row.checked
      /\ merged.type = (IF new.type = loaded.type THEN row.type ELSE new.type)
      /\ merged.note = (IF new.note = loaded.note THEN row.note ELSE new.note)
  BY <1>2
<1>4. merged.type \in {row.type, new.type} /\ merged.note \in {row.note, new.note}
  BY <1>3
<1>5. /\ row.type \in {"none", "deleted", "highlight", "note", "bookmark"}
      /\ new.type \in {"none", "deleted", "highlight", "note", "bookmark"}
      /\ row.block \in Blocks /\ row.from \in Int /\ row.to \in Int
      /\ row.snapshot \in Snapshots \cup {<<>>} /\ row.note \in BOOLEAN /\ new.note \in BOOLEAN
      /\ row.checked \in BOOLEAN
  BY DEF MarkRows
<1>6. merged \in MarkRows
  BY <1>2, <1>3, <1>4, <1>5 DEF MarkRows
<1>7. QED
  BY <1>3, <1>6 DEF merged

-----------------------------------------------------------------------------
\* What there is before anything is written is well typed.
LEMMA EmptyRows ==
    /\ NoRequest \in ClientRows /\ NoRequest.mark = NoMark
    /\ NoDesk \in DeskRows /\ IsRead(NoDesk) /\ NewDesk \in DeskRows /\ IsRead(NewDesk)
    /\ NoMark \in MarkRows /\ Deleted \in MarkRows /\ Deleted # NoMark
    /\ NoMark.type = "none" /\ ~NoMark.checked /\ Deleted.type = "deleted" /\ ~Deleted.checked
<1>1. NoDesk \in DeskRows /\ IsRead(NoDesk) /\ NewDesk \in DeskRows /\ IsRead(NewDesk)
  BY EmptyDesk
<1>2. NoMark.block \in Blocks
  BY DEF Blocks
<1>3. /\ NoMark \in MarkRows /\ NoMark.type = "none" /\ ~NoMark.checked
      /\ NoMark = [NoMark EXCEPT !.type = "none"]
  BY <1>2 DEF NoMark, MarkRows
<1>4. Deleted \in MarkRows /\ Deleted.type = "deleted" /\ ~Deleted.checked
  <2>1. Deleted.checked = NoMark.checked
    BY <1>3 DEF Deleted, MarkRows
  <2>2. Deleted \in MarkRows /\ Deleted.type = "deleted"
    BY <1>3 DEF Deleted, MarkRows
  <2>3. QED
    BY <1>3, <2>1, <2>2
<1>5. 1 \in Versions
  BY DeskAssumption DEF Versions
<1>6. NoRequest \in ClientRows /\ NoRequest.mark = NoMark
  BY <1>1, <1>3, <1>5 DEF NoRequest, ClientRows
<1>7. QED
  BY <1>1, <1>3, <1>4, <1>6

\* What a request has in hand is well typed.
LEMMA ClientFacts ==
    ASSUME DeskInv, NEW c \in Clients
    PROVE  /\ client[c] \in ClientRows /\ client[c].desk \in DeskRows
           /\ client[c].mark \in MarkRows /\ client[c].version \in Versions
BY DEF DeskInv, DeskTypeInv, ClientRows

\* A request ends, with the annotation as it was or deleted, or with the passage it had.
LEMMA EndedLoaded ==
    ASSUME DeskInv, NEW c \in Clients, EndsRequest(c),
           UNCHANGED mark \/ mark'.type # "none",
           \/ UNCHANGED mark
           \/ mark' = Deleted
           \/ mark = NoMark
           \/ /\ mark # NoMark /\ mark # Deleted
              /\ mark'.block = mark.block /\ mark'.from = mark.from /\ mark'.to = mark.to
              /\ mark'.snapshot = mark.snapshot /\ mark'.checked = mark.checked
    PROVE  client' \in [Clients -> ClientRows] /\ LoadedInv'
<1>1. /\ client' \in [Clients -> ClientRows] /\ client'[c] = NoRequest
      /\ \A d \in Clients : d # c => client'[d] = client[d]
  BY EmptyRows DEF EndsRequest, DeskInv, DeskTypeInv
<1>2. ASSUME NEW d \in Clients, client'[d].mark \notin {NoMark, Deleted}
      PROVE  /\ mark' # NoMark
             /\ mark' # Deleted => /\ client'[d].mark.block = mark'.block
                                   /\ client'[d].mark.from = mark'.from
                                   /\ client'[d].mark.to = mark'.to
                                   /\ client'[d].mark.snapshot = mark'.snapshot
                                   /\ client'[d].mark.checked = mark'.checked
  <2>1. client'[d] = client[d]
    BY <1>1, <1>2, EmptyRows
  <2>2. mark # NoMark
    BY <1>2, <2>1 DEF DeskInv, LoadedInv
  <2>3. QED
    BY <1>2, <2>1, <2>2, EmptyRows DEF DeskInv, LoadedInv
<1>3. LoadedInv'
  BY <1>2 DEF LoadedInv
<1>4. QED
  BY <1>1, <1>3

\* A request reads the rows as they are.
LEMMA BeginStep ==
    ASSUME DeskInv, NEW c \in Clients, NEW phase \in {"desk", "mark", "chapters"},
           BeginRequest(c, phase)
    PROVE  DeskInv'
<1> DEFINE row == [phase |-> phase, version |-> transcript, desk |-> desk, mark |-> mark]
<1>1. /\ UNCHANGED <<transcript, later, desk, mark, chapterSet, torn>>
      /\ client' = [client EXCEPT ![c] = row]
  BY DEF BeginRequest
<1>2. row \in ClientRows /\ row.mark = mark
  BY DEF DeskInv, DeskTypeInv, ClientRows
<1> HIDE DEF row
<1>3. /\ client' \in [Clients -> ClientRows] /\ client'[c] = row
      /\ \A d \in Clients : d # c => client'[d] = client[d]
  BY <1>1, <1>2 DEF DeskInv, DeskTypeInv
<1>4. DeskTypeInv' /\ FinishedIsComplete' /\ MarkInv'
  BY <1>1, <1>3 DEF DeskInv, DeskTypeInv, FinishedIsComplete, MarkInv,
           NoteHasText, PassageIsThere, Selected, Anchors
<1>5. LoadedInv'
  BY <1>1, <1>2, <1>3 DEF DeskInv, LoadedInv
<1>6. QED
  BY <1>4, <1>5 DEF DeskInv

\* A request about the state of reading.
LEMMA DeskStep ==
    ASSUME DeskInv, NEW c \in Clients, NEW new \in DeskRows,
           IsRead(OpenedDesk(client[c].desk)) => IsRead(new),
           WriteDesk(c, new) \/ UNCHANGED <<desk, torn>>, EndsRequest(c),
           UNCHANGED <<transcript, mark, chapterSet>>
    PROVE  DeskInv'
<1>1. /\ desk' \in DeskRows /\ FinishedIsComplete' /\ torn' \in {torn, torn \cup {"desk"}}
  <2>1. CASE WriteDesk(c, new)
    BY <2>1, WriteDeskStep
  <2>2. CASE UNCHANGED <<desk, torn>>
    BY <2>2 DEF DeskInv, DeskTypeInv, FinishedIsComplete
  <2>3. QED
    BY <2>1, <2>2
<1>2. client' \in [Clients -> ClientRows] /\ LoadedInv'
  BY EndedLoaded
<1>3. DeskTypeInv'
  BY <1>1, <1>2 DEF DeskInv, DeskTypeInv, Anchors
<1>4. MarkInv'
  BY <1>1 DEF DeskInv, MarkInv, NoteHasText, PassageIsThere, Selected
<1>5. QED
  BY <1>1, <1>2, <1>3, <1>4 DEF DeskInv

\* Opening a document writes a row.
LEMMA OpenedIsRow ==
    ASSUME DeskInv, NEW c \in Clients
    PROVE  OpenedDesk(client[c].desk) \in DeskRows
BY ClientFacts, EmptyRows DEF OpenedDesk

\* A row that is written is finished only when it is read, and read again only when it is not.
LEMMA UpdatedIsRead ==
    ASSUME NEW row \in DeskRows, NEW wanted \in Statuses \cup {"same"},
           NEW progress \in {NotSent, 50}
    PROVE  /\ Updated(row, wanted, progress) \in DeskRows
           /\ IsRead(Updated(row, wanted, progress))
<1> DEFINE target == IF wanted = "same" THEN row.status ELSE wanted
           read == IF progress = NotSent THEN row.progress ELSE progress
           new == [row EXCEPT !.status = target, !.progress = read]
<1>1. target \in Statuses \cup {"none"} /\ read \in Int
  BY DEF DeskRows, NotSent, Statuses
<1>2. Updated(row, wanted, progress) =
        CASE target = "finished" -> [new EXCEPT !.progress = 100, !.finished = TRUE, !.started = TRUE]
          [] target = "reading" -> [new EXCEPT !.started = TRUE, !.finished = FALSE]
          [] OTHER -> new
  BY DEF Updated, DeskRows
<1> HIDE DEF target, read
<1>3. new \in DeskRows /\ new.status = target
  BY <1>1 DEF DeskRows
<1> HIDE DEF new
<1>4. CASE target = "finished"
  <2> DEFINE done == [new EXCEPT !.progress = 100, !.finished = TRUE, !.started = TRUE]
  <2>1. done \in DeskRows /\ done.status = "finished" /\ done.progress = 100 /\ done.started
        /\ done.finished
    <3> DEFINE atEnd == [new EXCEPT !.progress = 100]
    <3>1. \A n \in Int : [new EXCEPT !.progress = n] \in DeskRows
      BY <1>3 DEF DeskRows
    <3>2. atEnd \in DeskRows /\ atEnd.progress = 100
      BY <1>3, <3>1 DEF DeskRows
    <3>3. atEnd.status = "finished"
      BY <1>3, <1>4 DEF DeskRows
    <3>4. done = [atEnd EXCEPT !.finished = TRUE, !.started = TRUE]
      BY <1>3 DEF DeskRows
    <3> HIDE DEF atEnd, done
    <3>5. done \in DeskRows /\ done.status = atEnd.status /\ done.progress = atEnd.progress
      BY <3>2, <3>4 DEF DeskRows
    <3>6. done.started /\ done.finished
      BY <3>2, <3>4 DEF DeskRows
    <3>7. QED
      BY <3>2, <3>3, <3>5, <3>6
  <2>2. Updated(row, wanted, progress) = done
    BY <1>2, <1>4
  <2> HIDE DEF done
  <2>3. QED
    BY <2>1, <2>2 DEF IsRead
<1>5. CASE target = "reading"
  BY <1>2, <1>3, <1>5 DEF DeskRows, IsRead
<1>6. CASE target \notin {"finished", "reading"}
  BY <1>2, <1>3, <1>6 DEF DeskRows, IsRead
<1>7. QED
  BY <1>4, <1>5, <1>6

-----------------------------------------------------------------------------
\* The steps of an annotation, apart from its passage.
LEMMA MarkStep ==
    ASSUME DeskInv, NEW c \in Clients, EndsRequest(c), UNCHANGED <<transcript, desk, chapterSet>>,
           mark' \in MarkRows, mark'.type # "none", "desk" \in torn => "desk" \in torn',
           mark'.type = "note" /\ "mark" \notin torn' => mark'.note,
           mark'.type \in {"highlight", "note"} => mark'.snapshot # <<>>,
           mark'.checked => PassageIsThere(mark'),
           \/ mark' = Deleted
           \/ mark = NoMark
           \/ /\ mark # NoMark /\ mark # Deleted
              /\ mark'.block = mark.block /\ mark'.from = mark.from /\ mark'.to = mark.to
              /\ mark'.snapshot = mark.snapshot /\ mark'.checked = mark.checked
    PROVE  DeskInv'
<1>1. client' \in [Clients -> ClientRows] /\ LoadedInv'
  BY EndedLoaded
<1>2. DeskTypeInv'
  BY <1>1 DEF DeskInv, DeskTypeInv, Anchors
<1>3. FinishedIsComplete'
  BY DEF DeskInv, FinishedIsComplete
<1>4. MarkInv'
  BY EmptyRows DEF MarkInv, NoteHasText, PassageIsThere, Selected
<1>5. QED
  BY <1>1, <1>2, <1>3, <1>4 DEF DeskInv

\* A new annotation is checked against the transcript that the request read.
LEMMA AnnotateStep ==
    ASSUME DeskInv, NEW c \in Clients, NEW type \in {"highlight", "note", "bookmark"},
           NEW from \in 0 .. 1, NEW size \in 0 .. 2, NEW snapshot \in Snapshots,
           NEW block \in BlocksIn(client[c].version),
           Annotate(c, type, block, from, from + size, snapshot)
    PROVE  DeskInv'
<1>1. PICK to \in Int :
         /\ mark = NoMark /\ Acceptable(type, block, from, to, snapshot)
         /\ mark' = [type |-> type, block |-> block, from |-> from, to |-> to,
                     snapshot |-> snapshot, note |-> type = "note", checked |-> type # "bookmark"]
         /\ EndsRequest(c) /\ UNCHANGED <<transcript, later, desk, chapterSet, asked, torn>>
  BY DEF Annotate
<1>2. block \in Blocks
  BY ClientFacts DEF Blocks
<1>3. /\ mark' \in MarkRows /\ mark'.type = type /\ mark'.block = block /\ mark'.from = from
      /\ mark'.to = to /\ mark'.snapshot = snapshot /\ mark'.note = (type = "note")
      /\ mark'.checked = (type # "bookmark")
  BY <1>1, <1>2 DEF MarkRows
<1>4. mark'.type # "none"
  BY <1>3
<1>5. /\ type \in {"highlight", "note"} => snapshot # <<>>
      /\ type # "bookmark" =>
            /\ from \in Nat /\ to \in Nat /\ from <= to /\ to <= Len(block.words)
            /\ Selected(block, from, to) = snapshot
  BY <1>1 DEF Acceptable
<1>6. mark'.checked => PassageIsThere(mark')
  BY <1>3, <1>5 DEF PassageIsThere, Selected
<1>7. mark'.type = "note" => mark'.note
  BY <1>1
<1>8. QED
  BY <1>1, <1>3, <1>4, <1>5, <1>6, <1>7, MarkStep

\* An edit keeps the passage of the annotation.
LEMMA PatchMarkStep ==
    ASSUME DeskInv, NEW c \in Clients, NEW type \in {"same", "highlight", "note", "bookmark"},
           NEW note \in {"same", "some", "empty"}, PatchMark(c, type, note)
    PROVE  DeskInv'
<1> DEFINE loaded == client[c].mark
           new == [loaded EXCEPT !.type = IF type = "same" THEN @ ELSE type,
                                 !.note = IF note = "same" THEN @ ELSE note = "some"]
<1>1. /\ loaded \notin {NoMark, Deleted} /\ EndsRequest(c)
      /\ IF Patchable(new.type, new.note, new.snapshot) /\ mark # Deleted
         THEN /\ mark' = Merged(mark, loaded, new)
              /\ torn' = IF mark # loaded THEN torn \cup {"mark"} ELSE torn
         ELSE UNCHANGED <<mark, torn>>
      /\ UNCHANGED <<transcript, later, desk, chapterSet, asked>>
  BY DEF PatchMark
<1>2. loaded \in MarkRows /\ mark \in MarkRows
  BY ClientFacts DEF DeskInv, DeskTypeInv
<1>3. /\ new.type = (IF type = "same" THEN loaded.type ELSE type)
      /\ new.block = loaded.block /\ new.from = loaded.from /\ new.to = loaded.to
      /\ new.snapshot = loaded.snapshot /\ new.checked = loaded.checked
  BY <1>2 DEF MarkRows
<1>4. new \in MarkRows
  <2> DEFINE t == IF type = "same" THEN loaded.type ELSE type
             n == IF note = "same" THEN loaded.note ELSE note = "some"
  <2>1. t \in {"none", "deleted", "highlight", "note", "bookmark"} /\ n \in BOOLEAN
    BY <1>2 DEF MarkRows
  <2>2. new = [loaded EXCEPT !.type = t, !.note = n]
    BY <1>2 DEF MarkRows
  <2> HIDE DEF t, n
  <2>3. QED
    BY <1>2, <2>1, <2>2 DEF MarkRows
<1> HIDE DEF new
<1>5. /\ mark # NoMark
      /\ mark # Deleted => /\ loaded.block = mark.block /\ loaded.from = mark.from
                           /\ loaded.to = mark.to /\ loaded.snapshot = mark.snapshot
                           /\ loaded.checked = mark.checked
  BY <1>1 DEF DeskInv, LoadedInv
<1> HIDE DEF loaded
<1>6. CASE UNCHANGED <<mark, torn>>
  <2>1. client' \in [Clients -> ClientRows] /\ LoadedInv'
    BY <1>1, <1>6, EndedLoaded
  <2>2. DeskTypeInv' /\ FinishedIsComplete' /\ MarkInv'
    BY <1>1, <1>6, <2>1 DEF DeskInv, DeskTypeInv, FinishedIsComplete, MarkInv, NoteHasText,
                             PassageIsThere, Anchors, Selected
  <2>3. QED
    BY <2>1, <2>2 DEF DeskInv
<1>7. CASE /\ Patchable(new.type, new.note, new.snapshot) /\ mark # Deleted
           /\ mark' = Merged(mark, loaded, new)
           /\ torn' = IF mark # loaded THEN torn \cup {"mark"} ELSE torn
  <2>1. /\ mark' \in MarkRows
        /\ mark'.block = mark.block /\ mark'.from = mark.from /\ mark'.to = mark.to
        /\ mark'.snapshot = mark.snapshot /\ mark'.checked = mark.checked
        /\ mark'.type = mark.type \/ (mark'.type = new.type /\ new.type # loaded.type)
        /\ mark = loaded => mark'.type = new.type /\ mark'.note = new.note
    BY <1>2, <1>3, <1>4, <1>7, MergedMark
  <2>2. /\ new.type \in {"highlight", "note"} => mark.snapshot # <<>>
        /\ new.type = "note" => new.note
    BY <1>3, <1>5, <1>7 DEF Patchable
  <2>3. mark'.type \in {"highlight", "note"} => mark'.snapshot # <<>>
    BY <2>1, <2>2 DEF DeskInv, MarkInv, NoteHasText
  <2>4. mark'.type = "note" /\ "mark" \notin torn' => mark'.note
    BY <1>7, <2>1, <2>2
  <2>5. mark'.checked => PassageIsThere(mark')
    BY <2>1 DEF DeskInv, MarkInv, PassageIsThere, Selected
  <2>6. mark'.type # "none"
    <3>1. new.type # loaded.type => new.type # "none"
      BY <1>3
    <3>2. QED
      BY <1>5, <2>1, <3>1 DEF DeskInv, MarkInv
  <2>7. QED
    BY <1>1, <1>5, <1>7, <2>1, <2>3, <2>4, <2>5, <2>6, MarkStep
<1>8. QED
  BY <1>1, <1>6, <1>7

\* A deleted annotation has no passage.
LEMMA DeleteStep ==
    ASSUME DeskInv, NEW c \in Clients, DeleteMark(c)
    PROVE  DeskInv'
<1>1. /\ mark' = Deleted /\ torn' = torn \ {"mark"} /\ EndsRequest(c)
      /\ UNCHANGED <<transcript, later, desk, chapterSet, asked>>
  BY DEF DeleteMark
<1>2. mark' \in MarkRows /\ mark'.type = "deleted" /\ ~mark'.checked
  BY <1>1, EmptyRows
<1>3. "desk" \in torn => "desk" \in torn'
  BY <1>1
<1>4. QED
  BY <1>1, <1>2, <1>3, MarkStep

\* What remains leaves the rows of the reader alone, but for the chapters.
LEMMA RestStep ==
    ASSUME DeskInv, UNCHANGED <<desk, mark, torn>>, transcript' \in Versions,
           \/ \E c \in Clients : EndsRequest(c)
           \/ UNCHANGED client,
           chapterSet'.exists => chapterSet'.anchors = Anchors(chapterSet'.fingerprint)
    PROVE  DeskInv'
<1>1. client' \in [Clients -> ClientRows] /\ LoadedInv'
  <2>1. CASE UNCHANGED client
    BY <2>1 DEF DeskInv, DeskTypeInv, LoadedInv
  <2>2. CASE \E c \in Clients : EndsRequest(c)
    BY <2>2, EndedLoaded
  <2>3. QED
    BY <2>1, <2>2
<1>2. DeskTypeInv'
  BY <1>1 DEF DeskInv, DeskTypeInv, Anchors
<1>3. FinishedIsComplete' /\ MarkInv'
  BY DEF DeskInv, FinishedIsComplete, MarkInv, NoteHasText, PassageIsThere, Selected
<1>4. QED
  BY <1>1, <1>2, <1>3 DEF DeskInv

\* Chapters are put in place of those of the same transcript.
LEMMA ChaptersStep ==
    ASSUME DeskInv, NEW c \in Clients, WriteChapters(c)
    PROVE  DeskInv'
<1>1. /\ chapterSet' = [exists |-> TRUE, fingerprint |-> client[c].version,
                        anchors |-> Anchors(client[c].version)]
      /\ EndsRequest(c) /\ UNCHANGED <<transcript, desk, mark, torn>>
  BY DEF WriteChapters, Fingerprint
<1>2. QED
  BY <1>1, RestStep DEF DeskInv, DeskTypeInv

\* Every step keeps it.
LEMMA DeskInvStep ==
    ASSUME DeskInv, [DeskNext]_deskVars
    PROVE  DeskInv'
<1>1. ASSUME NEW c \in Clients, NEW phase \in {"desk", "mark", "chapters"}, BeginRequest(c, phase)
      PROVE  DeskInv'
  BY <1>1, BeginStep
<1>2. ASSUME NEW c \in Clients, OpenDocument(c) PROVE DeskInv'
  <2>1. /\ WriteDesk(c, OpenedDesk(client[c].desk)) /\ EndsRequest(c)
        /\ UNCHANGED <<transcript, mark, chapterSet>>
    BY <1>2 DEF OpenDocument
  <2>2. QED
    BY <2>1, OpenedIsRow, DeskStep
<1>3. ASSUME NEW c \in Clients, NEW wanted \in Statuses \cup {"same"},
             NEW progress \in {NotSent, 50}, PatchState(c, wanted, progress)
      PROVE  DeskInv'
  <2> DEFINE row == OpenedDesk(client[c].desk)
  <2>1. /\ WriteDesk(c, Updated(row, wanted, progress)) \/ UNCHANGED <<desk, torn>>
        /\ EndsRequest(c) /\ UNCHANGED <<transcript, mark, chapterSet>>
    BY <1>3 DEF PatchState
  <2>2. row \in DeskRows
    BY OpenedIsRow
  <2>3. Updated(row, wanted, progress) \in DeskRows /\ IsRead(Updated(row, wanted, progress))
    BY <2>2, UpdatedIsRead
  <2>4. QED
    BY <2>1, <2>3, DeskStep
<1>4. ASSUME NEW c \in Clients, NEW type \in {"highlight", "note", "bookmark"}, NEW from \in 0 .. 1,
             NEW size \in 0 .. 2, NEW snapshot \in Snapshots,
             NEW block \in BlocksIn(client[c].version),
             Annotate(c, type, block, from, from + size, snapshot)
      PROVE  DeskInv'
  BY <1>4, AnnotateStep
<1>5. ASSUME NEW c \in Clients, NEW type \in {"same", "highlight", "note", "bookmark"},
             NEW note \in {"same", "some", "empty"}, PatchMark(c, type, note)
      PROVE  DeskInv'
  BY <1>5, PatchMarkStep
<1>6. ASSUME NEW c \in Clients, DeleteMark(c) \/ WriteChapters(c) \/ Rejected(c) PROVE DeskInv'
  <2>1. CASE Rejected(c)
    BY <2>1, RestStep DEF Rejected, DeskInv, DeskTypeInv
  <2>2. QED
    BY <1>6, <2>1, DeleteStep, ChaptersStep
<1>7. ASSUME NEW v \in Versions, StoreTranscript(v) PROVE DeskInv'
  BY <1>7, RestStep DEF StoreTranscript, DeskInv, DeskTypeInv
<1>8. CASE UNCHANGED deskVars
  BY <1>8, RestStep DEF deskVars, DeskInv, DeskTypeInv
<1>9. QED
  BY <1>1, <1>2, <1>3, <1>4, <1>5, <1>6, <1>7, <1>8 DEF DeskNext, Requests

\* At first there is neither row nor annotation.
LEMMA DeskBegins == DeskInit => DeskInv
<1> SUFFICES ASSUME DeskInit PROVE DeskInv
  OBVIOUS
<1>1. /\ transcript = 1 /\ desk = NoDesk /\ mark = NoMark /\ chapterSet = NoChapters
      /\ client = [c \in Clients |-> NoRequest]
  BY DEF DeskInit
<1>2. ~chapterSet.exists
  BY <1>1 DEF NoChapters
<1>3. DeskTypeInv
  BY <1>1, <1>2, EmptyRows, DeskAssumption DEF DeskTypeInv, Versions
<1>4. FinishedIsComplete
  BY <1>1, EmptyRows DEF FinishedIsComplete, IsRead
<1>5. MarkInv
  BY <1>1, EmptyRows DEF MarkInv, NoteHasText
<1>6. LoadedInv
  BY <1>1, EmptyRows DEF LoadedInv
<1>7. QED
  BY <1>3, <1>4, <1>5, <1>6 DEF DeskInv

-----------------------------------------------------------------------------
\* Where a snapshot is found, its words are.
LEMMA FoundIsThere ==
    ASSUME NEW words, NEW snapshot, Len(words) \in Nat, Len(snapshot) \in Nat,
           Find(words, snapshot) # -1
    PROVE  LET at == Find(words, snapshot) IN
           /\ at \in 0 .. Len(words) - Len(snapshot)
           /\ SubSeq(words, at + 1, at + Len(snapshot)) = snapshot
<1> DEFINE at == {i \in 0 .. Len(words) - Len(snapshot) :
                     SubSeq(words, i + 1, i + Len(snapshot)) = snapshot}
<1>1. Find(words, snapshot) = IF at = {} THEN -1 ELSE Min(at)
  BY DEF Find
<1>2. at # {}
  BY <1>1
<1> HIDE DEF at
<1>3. \A i \in at : /\ i \in Nat /\ i \in 0 .. Len(words) - Len(snapshot)
                   /\ SubSeq(words, i + 1, i + Len(snapshot)) = snapshot
  BY DEF at
<1>4. at \subseteq Nat
  BY <1>3
<1>5. Min(at) \in at
  BY <1>2, <1>4, MinIs
<1>6. QED
  BY <1>1, <1>2, <1>3, <1>5

\* A part of a text whose characters keep their length is converted as the text is.
LEMMA PartIsConverted ==
    ASSUME NEW text \in Seq(DOMAIN Casefold), NEW from \in Nat, NEW to \in Nat, from <= to,
           to <= Len(text), KeepsLength(text, Casefold)
    PROVE  /\ KeepsLength(SubSeq(text, from + 1, to), Casefold)
           /\ Converted(SubSeq(text, from + 1, to), Casefold)
                 = [i \in 1 .. to - from |-> Casefold[text[from + i]][1]]
<1> DEFINE S == DOMAIN Casefold
           part == SubSeq(text, from + 1, to)
<1>1. \A i \in from + 1 .. to : text[i] \in S
  BY ElementOfSeq, LenProperties
<1>2. DOMAIN part = 1 .. to - from /\ \A i \in 1 .. to - from : part[i] = text[from + i]
  <2>1. /\ part \in Seq(S) /\ Len(part) = (IF from + 1 <= to THEN to - (from + 1) + 1 ELSE 0)
        /\ \A i \in 1 .. to - (from + 1) + 1 : part[i] = text[from + 1 + i - 1]
    BY <1>1, SubSeqProperties
  <2>2. to - (from + 1) + 1 = to - from /\ \A i \in 1 .. to - from : from + 1 + i - 1 = from + i
    OBVIOUS
  <2>3. Len(part) = to - from
    BY <2>1, <2>2
  <2>4. DOMAIN part = 1 .. Len(part)
    BY <2>1, LenProperties
  <2>5. QED
    BY <2>1, <2>2, <2>3, <2>4
<1>3. \A i \in 1 .. to - from : from + i \in DOMAIN text
  BY LenProperties
<1> HIDE DEF part
<1>4. KeepsLength(part, Casefold)
  BY <1>2, <1>3 DEF KeepsLength
<1>5. Converted(part, Casefold) = [i \in DOMAIN part |-> Casefold[part[i]][1]]
  BY <1>4 DEF Converted
<1>6. QED
  BY <1>2, <1>4, <1>5 DEF part

\* The conversion of a text that keeps its length.
LEMMA ConvertedIs ==
    ASSUME NEW S, NEW text \in Seq(S), NEW table, KeepsLength(text, table)
    PROVE  /\ DOMAIN Converted(text, table) = 1 .. Len(text)
           /\ Len(Converted(text, table)) = Len(text)
           /\ \A i \in 1 .. Len(text) : Converted(text, table)[i] = table[text[i]][1]
           /\ Converted(text, table) \in Seq({table[text[i]][1] : i \in 1 .. Len(text)})
<1> DEFINE T == {table[text[i]][1] : i \in 1 .. Len(text)}
           new == Converted(text, table)
<1>1. Len(text) \in Nat /\ DOMAIN text = 1 .. Len(text)
  BY LenProperties
<1>2. new = [i \in 1 .. Len(text) |-> table[text[i]][1]]
  BY <1>1 DEF Converted
<1> HIDE DEF new
<1>3. new \in [1 .. Len(text) -> T]
  BY <1>2
<1>4. new \in Seq(T) /\ DOMAIN new = 1 .. Len(text) /\ Len(new) = Len(text)
  <2>1. new \in Seq(T)
    BY <1>1, <1>3, SeqDef
  <2>2. DOMAIN new = 1 .. Len(text)
    BY <1>3
  <2>3. Len(new) \in Nat /\ DOMAIN new = 1 .. Len(new)
    BY <2>1, LenProperties
  <2>4. QED
    BY <1>1, <2>1, <2>2, <2>3
<1>5. \A i \in 1 .. Len(text) : new[i] = table[text[i]][1]
  BY <1>2
<1>6. QED
  BY <1>4, <1>5 DEF new

\* The same place of two blocks that have one anchor reads the same.
LEMMA SamePlace ==
    ASSUME NEW old \in Seq(DOMAIN Casefold), NEW new \in Seq(DOMAIN Casefold),
           Converted(old, Lowercase) = Converted(new, Lowercase),
           KeepsLength(old, Lowercase), KeepsLength(new, Lowercase),
           KeepsLength(old, Casefold), KeepsLength(new, Casefold),
           NEW from \in Nat, NEW to \in Nat, from <= to, to <= Len(old)
    PROVE  Converted(SubSeq(new, from + 1, to), Casefold)
              = Converted(SubSeq(old, from + 1, to), Casefold)
<1> DEFINE n == Len(old)
           low(text) == Converted(text, Lowercase)
<1>1. /\ n \in Nat /\ DOMAIN old = 1 .. n /\ Len(new) \in Nat /\ DOMAIN new = 1 .. Len(new)
  BY LenProperties
<1>2. Len(new) = n
  <2>1. Len(low(old)) = n /\ Len(low(new)) = Len(new)
    BY ConvertedIs
  <2>2. QED
    BY <2>1
<1>3. ASSUME NEW i \in 1 .. n
      PROVE  Casefold[old[i]][1] = Casefold[new[i]][1]
  <2> DEFINE c == old[i]
             d == new[i]
  <2>1. c \in DOMAIN Casefold /\ d \in DOMAIN Casefold
    BY <1>2, ElementOfSeq
  <2>2. Len(Lowercase[c]) = 1 /\ Len(Lowercase[d]) = 1
    BY <1>1, <1>2 DEF KeepsLength
  <2>3. Lowercase[c] \in Seq(DOMAIN Casefold) /\ Lowercase[d] \in Seq(DOMAIN Casefold)
    BY <2>1, DeskAssumption
  <2>4. low(old)[i] = Lowercase[c][1] /\ low(new)[i] = Lowercase[d][1]
    <3>1. \A k \in 1 .. Len(old) : low(old)[k] = Lowercase[old[k]][1]
      BY ConvertedIs
    <3>2. \A k \in 1 .. Len(new) : low(new)[k] = Lowercase[new[k]][1]
      BY ConvertedIs
    <3>3. QED
      BY <1>2, <3>1, <3>2
  <2> HIDE DEF c, d
  <2>5. Lowercase[c] = Lowercase[d]
    BY <2>2, <2>3, <2>4, SeqEqual
  <2>6. Casefold[c] = Casefold[d]
    BY <2>1, <2>5, DeskAssumption
  <2>7. QED
    BY <2>6 DEF c, d
<1> DEFINE shown(text) == Converted(SubSeq(text, from + 1, to), Casefold)
<1>4. /\ shown(old) = [i \in 1 .. to - from |-> Casefold[old[from + i]][1]]
      /\ shown(new) = [i \in 1 .. to - from |-> Casefold[new[from + i]][1]]
  <2>1. shown(old) = [i \in 1 .. to - from |-> Casefold[old[from + i]][1]]
    BY PartIsConverted
  <2>2. to <= Len(new)
    BY <1>2
  <2>3. shown(new) = [i \in 1 .. to - from |-> Casefold[new[from + i]][1]]
    BY <2>2, PartIsConverted
  <2>4. QED
    BY <2>1, <2>3
<1>5. to <= n
  OBVIOUS
<1> HIDE DEF shown, n, low
<1>6. \A i \in 1 .. to - from : from + i \in 1 .. n
  BY <1>1, <1>5
<1>7. \A i \in 1 .. to - from : Casefold[old[from + i]][1] = Casefold[new[from + i]][1]
  BY <1>3, <1>6
<1>8. shown(old) = shown(new)
  BY <1>4, <1>7
<1>9. QED
  BY <1>8 DEF shown

\* The places of a part of a text.
LEMMA PlacesOfPart ==
    ASSUME NEW at \in Nat, NEW n \in Nat, NEW m \in Nat, at + n <= m
    PROVE  /\ \A i \in 1 .. n : at + i \in 1 .. m /\ at + 1 + i - 1 = at + i
           /\ (at + n) - (at + 1) + 1 = n
           /\ \A i \in at + 1 .. at + n : i \in 1 .. m
OBVIOUS

\* A text that the folded block has where its own folding is found.
LEMMA FoundPlace ==
    ASSUME NEW words \in Seq(DOMAIN Casefold), NEW part \in Seq(DOMAIN Casefold),
           KeepsLength(words, Casefold), KeepsLength(part, Casefold),
           NEW at, at = Find(Converted(words, Casefold), Converted(part, Casefold)), at # -1
    PROVE  Converted(SubSeq(words, at + 1, at + Len(part)), Casefold) = Converted(part, Casefold)
<1> DEFINE folded == Converted(words, Casefold)
           sought == Converted(part, Casefold)
           n == Len(part)
           m == Len(words)
           T == {Casefold[words[i]][1] : i \in 1 .. m}
           shown == Converted(SubSeq(words, at + 1, at + n), Casefold)
<1>1. m \in Nat /\ n \in Nat
  BY LenProperties
<1>2. Len(folded) = m /\ \A i \in 1 .. m : folded[i] = Casefold[words[i]][1] /\ folded[i] \in T
  BY ConvertedIs
<1>3. Len(sought) = n /\ sought = [i \in 1 .. n |-> sought[i]]
  <2>1. Len(sought) = n /\ DOMAIN sought = 1 .. n
    BY ConvertedIs
  <2>2. sought = [i \in DOMAIN sought |-> sought[i]]
    BY DEF Converted
  <2>3. QED
    BY <2>1, <2>2
<1> HIDE DEF folded, sought, T
<1>4. at \in 0 .. m - n /\ SubSeq(folded, at + 1, at + n) = sought
  BY <1>1, <1>2, <1>3, FoundIsThere DEF folded, sought
<1> HIDE DEF m, n
<1>5. at \in Nat /\ at + n \in Nat /\ at <= at + n /\ at + n <= m /\ (at + n) - at = n
  BY <1>1, <1>4
<1>6. \A i \in 1 .. n : at + i \in 1 .. m /\ at + 1 + i - 1 = at + i
  BY <1>1, <1>5, PlacesOfPart
<1>7. (at + n) - (at + 1) + 1 = n /\ \A i \in at + 1 .. at + n : i \in 1 .. m
  BY <1>1, <1>5, PlacesOfPart
<1>8. \A i \in 1 .. n : sought[i] = folded[at + i]
  <2>1. \A i \in at + 1 .. at + n : folded[i] \in T
    BY <1>2, <1>7
  <2>2. at + 1 \in Int /\ at + n \in Int
    BY <1>5
  <2>3. \A i \in 1 .. (at + n) - (at + 1) + 1 :
           SubSeq(folded, at + 1, at + n)[i] = folded[at + 1 + i - 1]
    BY <2>1, <2>2, SubSeqProperties
  <2>4. \A i \in 1 .. n : SubSeq(folded, at + 1, at + n)[i] = folded[at + 1 + i - 1]
    BY <1>7, <2>3
  <2>5. QED
    BY <1>4, <1>6, <2>4
<1>9. \A i \in 1 .. n : sought[i] = Casefold[words[at + i]][1]
  BY <1>2, <1>6, <1>8
<1>10. shown = [i \in 1 .. (at + n) - at |-> Casefold[words[at + i]][1]]
  <2>1. at + n <= Len(words)
    BY <1>5 DEF m
  <2>2. QED
    BY <1>5, <2>1, PartIsConverted
<1>11. shown = sought
  BY <1>3, <1>5, <1>9, <1>10
<1>12. QED
  BY <1>11 DEF n, sought

\* What is shown of a passage is the passage, at its place or where it was found.
LEMMA ShownIsChecked ==
    ASSUME DeskInv
    PROVE  HighlightShowsItsText
<1> DEFINE blocks == BlocksOf[transcript]
           same == {i \in DOMAIN blocks : Anchor(blocks[i]) = Anchor(mark.block)}
           with == {i \in DOMAIN blocks : Place(mark, blocks[i]) >= 0}
           view == Reconciled(mark)
<1> SUFFICES ASSUME mark.checked, view.to > view.from,
                    KeepsLength(mark.block.words, Casefold),
                    KeepsLength(mark.block.words, Lowercase),
                    KeepsLength(view.block.words, Casefold),
                    KeepsLength(view.block.words, Lowercase)
             PROVE  Converted(Selected(view.block, view.from, view.to), Casefold)
                       = Converted(mark.snapshot, Casefold)
  BY DEF HighlightShowsItsText
<1>1. view = IF same # {}
             THEN [block |-> blocks[Min(same)], from |-> mark.from, to |-> mark.to]
             ELSE IF mark.snapshot # <<>> /\ with # {} THEN FoundIn(mark, blocks[Min(with)])
             ELSE [block |-> blocks[Nearest(blocks, mark.block.start)], from |-> 0, to |-> 0]
  BY DEF Reconciled
<1>2. /\ PassageIsThere(mark) /\ transcript \in DOMAIN BlocksOf
      /\ mark.block.words \in Seq(DOMAIN Casefold)
      /\ mark.snapshot \in Seq(DOMAIN Casefold)
  <2>1. PassageIsThere(mark) /\ transcript \in DOMAIN BlocksOf /\ mark \in MarkRows
    BY DEF DeskInv, MarkInv, DeskTypeInv, Versions
  <2>2. mark.block \in Blocks /\ mark.snapshot \in Snapshots \cup {<<>>}
    BY <2>1 DEF MarkRows
  <2>3. ASSUME NEW b \in Blocks PROVE b.words \in Seq(DOMAIN Casefold)
    <3>1. CASE b = NoMark.block
      BY <3>1, EmptySeq DEF NoMark
    <3>2. CASE \E v \in Versions : b \in BlocksIn(v)
      BY <3>2, DeskAssumption DEF BlocksIn, ToSet, Versions
    <3>3. QED
      BY <3>1, <3>2 DEF Blocks
  <2>4. mark.snapshot \in Seq(DOMAIN Casefold)
    BY <2>2, DeskAssumption, EmptySeq
  <2>5. QED
    BY <2>1, <2>2, <2>3, <2>4
<1>3. DOMAIN blocks \subseteq Nat
      /\ \A i \in DOMAIN blocks : blocks[i].words \in Seq(DOMAIN Casefold)
  BY <1>2, DeskAssumption
<1>4. CASE same # {}
  <2> DEFINE block == blocks[Min(same)]
  <2>1. Min(same) \in same
    BY <1>3, <1>4, MinIs
  <2>2. Anchor(block) = Anchor(mark.block) /\ block.words \in Seq(DOMAIN Casefold)
    BY <1>3, <2>1
  <2> HIDE DEF same, block
  <2>3. view = [block |-> block, from |-> mark.from, to |-> mark.to]
    BY <1>1, <1>4 DEF block
  <2> HIDE DEF view
  <2>4. view.block = block /\ view.from = mark.from /\ view.to = mark.to
    BY <2>3
  <2>5. Converted(mark.block.words, Lowercase) = Converted(block.words, Lowercase)
    BY <2>2 DEF Anchor
  <2>6. KeepsLength(block.words, Casefold) /\ KeepsLength(block.words, Lowercase)
    BY <2>4
  <2>7. Converted(SubSeq(block.words, mark.from + 1, mark.to), Casefold)
           = Converted(SubSeq(mark.block.words, mark.from + 1, mark.to), Casefold)
    BY <1>2, <2>2, <2>5, <2>6, SamePlace DEF PassageIsThere
  <2>8. QED
    BY <1>2, <2>4, <2>7 DEF PassageIsThere, Selected
<1>5. CASE same = {} /\ mark.snapshot # <<>> /\ with # {}
  <2> DEFINE block == blocks[Min(with)]
             at == Place(mark, block)
  <2>1. Min(with) \in with
    BY <1>3, <1>5, MinIs
  <2>2. at >= 0 /\ block.words \in Seq(DOMAIN Casefold)
    BY <1>3, <2>1
  <2>3. view = FoundIn(mark, block)
    BY <1>1, <1>5
  <2> HIDE DEF with, same, block, view
  <2>4. view.block = block /\ view.from = at /\ view.to = at + Len(mark.snapshot)
    BY <2>3 DEF FoundIn
  <2>5. KeepsLength(block.words, Casefold)
    BY <2>4
  <2>6. KeepsLength(mark.snapshot, Casefold)
    <3> DEFINE words == mark.block.words
    <3>1. /\ words \in Seq(DOMAIN Casefold) /\ KeepsLength(words, Casefold)
          /\ mark.from \in Nat /\ mark.to \in Nat /\ mark.from <= mark.to
          /\ mark.to <= Len(words) /\ mark.snapshot = SubSeq(words, mark.from + 1, mark.to)
      BY <1>2 DEF PassageIsThere, Selected
    <3> HIDE DEF words
    <3>2. QED
      BY <3>1, PartIsConverted
  <2>7. at = Find(Converted(block.words, Casefold), Converted(mark.snapshot, Casefold))
    BY DEF Place
  <2>8. at # -1
    BY <2>2
  <2> HIDE DEF at
  <2>9. Converted(SubSeq(block.words, at + 1, at + Len(mark.snapshot)), Casefold)
           = Converted(mark.snapshot, Casefold)
    BY <1>2, <2>2, <2>5, <2>6, <2>7, <2>8, FoundPlace
  <2>10. QED
    BY <2>4, <2>9 DEF Selected
<1>6. CASE same = {} /\ ~(mark.snapshot # <<>> /\ with # {})
  <2>1. view = [block |-> blocks[Nearest(blocks, mark.block.start)], from |-> 0, to |-> 0]
    BY <1>1, <1>6
  <2> HIDE DEF view
  <2>2. view.from = 0 /\ view.to = 0
    BY <2>1
  <2>3. QED
    BY <2>2
<1>7. QED
  BY <1>4, <1>5, <1>6

\* The reader agrees wherever the invariant holds.
LEMMA AgreesWhenKept == DeskInv => DeskAgrees
<1> SUFFICES ASSUME DeskInv PROVE DeskAgrees
  OBVIOUS
<1>1. FinishedIsComplete /\ NoteHasText
  BY DEF DeskInv, MarkInv
<1>2. ChaptersFit
  BY DEF ChaptersFit, ShownChapters, DeskInv, DeskTypeInv
<1>3. QED
  BY <1>1, <1>2, ShownIsChecked DEF DeskAgrees

\* Whatever requests overlap, and however often the video is transcribed again: what was
\* finished counts as read, a note has its text and a highlight its passage, what is marked in
\* the text is, up to its case, what was selected, where no character grows in conversion, and
\* the chapters are of the transcript that is shown.
THEOREM DeskAgreesAlways == DeskSpec => []DeskAgrees
<1>1. DeskInv /\ [DeskNext]_deskVars => DeskInv'
  BY DeskInvStep
<1>2. QED
  BY DeskBegins, <1>1, AgreesWhenKept, PTL DEF DeskSpec
=============================================================================

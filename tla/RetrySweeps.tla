---------------------------- MODULE RetrySweeps ----------------------------
(***************************************************************************)
(* The two scripts that retry failed attempts of many videos in one        *)
(* session: the scheduled sweep over transient failures of the providers   *)
(* and the operator's retry of failed downloads.                           *)
(*                                                                         *)
(* A script loads its candidates once.  It keeps the rows it has read      *)
(* until its next commit, and locks a video from the statement that        *)
(* writes it to that commit, or to its end.  Attempts run, users retry     *)
(* and cancel meanwhile.                                                   *)
(***************************************************************************)
EXTENDS Naturals, Sequences, FiniteSets, SequencesExt

CONSTANTS
    SweptVideos,
    Causes,    \* of failures: "transient" and "access", a refused download, among others
    Limit,     \* of candidates that a script loads
    MaxJobs    \* bound on the attempts

ASSUME SweepAssumption ==
    /\ IsFiniteSet(SweptVideos) /\ {"transient", "access"} \subseteq Causes
    /\ Limit \in Nat \ {0} /\ MaxJobs \in Nat

Sweeps == {"transient", "download"}

VARIABLES
    jobs,      \* the attempts, in the order of their creation
    status,    \* of each video
    sweep      \* what each script has read, and has still to do

sweepVars == <<jobs, status, sweep>>

NewJob(v, by, after) ==
    [video |-> v, status |-> "active", cause |-> "none", review |-> FALSE,
     hidden |-> FALSE, by |-> by, after |-> after]

\* todo: candidates. seen: rows as they were read. latest: what the allocation found.
\* retried: videos of this run. put: videos written and not committed.
Ended ==
    [at |-> "idle", todo |-> <<>>, seen |-> <<>>, latest |-> 0, retried |-> {}, put |-> {}]

SweepInit ==
    /\ jobs = [n \in 1 .. Cardinality(SweptVideos) |-> NewJob(SetToSeq(SweptVideos)[n], "user", 0)]
    /\ status = [v \in SweptVideos |-> "working"]
    /\ sweep = [s \in Sweeps |-> Ended]

-----------------------------------------------------------------------------
Attempts(v) == {j \in DOMAIN jobs : jobs[j].video = v}

IsActive(v) == \E j \in Attempts(v) : jobs[j].status = "active"

Latest(v) == CHOOSE j \in Attempts(v) : \A k \in Attempts(v) : k <= j

\* The row as this session knows it.
RowSeen(s, j) == IF j \in DOMAIN sweep[s].seen THEN sweep[s].seen[j] ELSE jobs[j]

Keep(s, js) ==
    [j \in DOMAIN sweep[s].seen \cup js |-> RowSeen(s, j)]

\* No other session has written the video and not committed.
Unlocked(s, v) == \A t \in Sweeps \ {s} : v \notin sweep[t].put

\* The attempts, with those of v that failed hidden behind the one that is added.
Superseding(v, new) ==
    Append([j \in DOMAIN jobs |->
              IF jobs[j].video = v /\ jobs[j].status = "failed"
              THEN [jobs[j] EXCEPT !.hidden = TRUE] ELSE jobs[j]], new)

-----------------------------------------------------------------------------
\* Visible failures. Only the cause tells the two queries apart: the second asks for the
\* stage of the download.
Visible(s) ==
    {j \in DOMAIN jobs : /\ jobs[j].status = "failed" /\ ~jobs[j].hidden
                         /\ s = "download" => jobs[j].cause \notin {"transient", "refused"}}

\* As the list of them in the order of their creation.
InOrder(js) == {o \in SetToSeqs(js) : \A i, k \in DOMAIN o : i < k => o[i] < o[k]}

\* The downloads in the order of creation; the others by completed_at, which is not
\* modelled, so in any order. The limit comes before the cause is looked at.
Orders(s) == IF s = "download" THEN InOrder(Visible(s)) ELSE SetToSeqs(Visible(s))

FindCandidates(s) ==
    /\ sweep[s].at = "idle" /\ Visible(s) # {}
    /\ \E all \in Orders(s) :
         LET found == SubSeq(all, 1, IF Len(all) < Limit THEN Len(all) ELSE Limit)
         IN  \E todo \in IF s = "download"
                         THEN InOrder({j \in Range(found) : jobs[j].cause = "access"})
                         ELSE {found} :
               /\ todo # <<>>
               /\ sweep' = [sweep EXCEPT ![s] =
                    [Ended EXCEPT !.at = "scan", !.todo = todo,
                                  !.seen = [j \in Range(found) |-> jobs[j]]]]
    /\ UNCHANGED <<jobs, status>>

Candidate(s) == Head(sweep[s].todo)
VideoTried(s) == jobs[Candidate(s)].video

\* What the allocation answers: the look for an active attempt is a query, the reason
\* against a retry is read from the row of the session.
Allocatable(s) == ~IsActive(VideoTried(s)) /\ ~RowSeen(s, Latest(VideoTried(s))).review

StillTransient(s) ==
    LET row == RowSeen(s, Candidate(s))
    IN  /\ row.status = "failed" /\ ~row.hidden /\ ~row.review
        /\ row.cause = "transient"
        /\ Latest(VideoTried(s)) = Candidate(s)

Eligible(s) ==
    /\ Allocatable(s)
    /\ IF s = "transient" THEN VideoTried(s) \notin sweep[s].retried /\ StillTransient(s)
       ELSE ~RowSeen(s, Candidate(s)).review

\* The video is written before the savepoint of the insert. When the insert meets the
\* unique index that stays in the transaction, for whatever commit comes next.
Flushed(s, v) == sweep[s].put \cup {v}

\* Mutant: the video is written before the failure is judged.
SkipCandidateFlushed(s) ==
    /\ sweep[s].at = "scan" /\ sweep[s].todo # <<>>
    /\ s = "transient" \/ ~Eligible(s)
    /\ sweep' = [sweep EXCEPT ![s].todo = Tail(@), ![s].put = Flushed(s, VideoTried(s)),
                              ![s].seen = Keep(s, {Candidate(s), Latest(VideoTried(s))})]
    /\ UNCHANGED <<jobs, status>>

\* A transient failure may be too old as well.
SkipCandidate(s) ==
    /\ sweep[s].at = "scan" /\ sweep[s].todo # <<>>
    /\ s = "transient" \/ ~Eligible(s)
    /\ sweep' = [sweep EXCEPT ![s].todo = Tail(@),
                              ![s].seen = Keep(s, {Candidate(s), Latest(VideoTried(s))})]
    /\ UNCHANGED <<jobs, status>>

Allocate(s) ==
    /\ sweep[s].at = "scan" /\ sweep[s].todo # <<>> /\ Eligible(s)
    /\ sweep' = [sweep EXCEPT ![s].at = "create", ![s].latest = Latest(VideoTried(s)),
                              ![s].seen = Keep(s, {Candidate(s), Latest(VideoTried(s))})]
    /\ UNCHANGED <<jobs, status>>

CreateConflicts(s) ==
    /\ sweep[s].at = "create" /\ IsActive(VideoTried(s)) /\ Unlocked(s, VideoTried(s))
    /\ sweep' = [sweep EXCEPT ![s].at = "scan", ![s].todo = Tail(@),
                              ![s].put = Flushed(s, VideoTried(s))]
    /\ UNCHANGED <<jobs, status>>

\* The insert, the hiding of the failures and the commit, after which rows are read anew.
Create(s) ==
    LET v == VideoTried(s)
    IN  /\ sweep[s].at = "create" /\ ~IsActive(v) /\ Unlocked(s, v) /\ Len(jobs) < MaxJobs
        /\ jobs' = Superseding(v, NewJob(v, s, sweep[s].latest))
        /\ status' = [u \in SweptVideos |->
                        IF u \in Flushed(s, v) THEN "pending" ELSE status[u]]
        /\ sweep' = [sweep EXCEPT ![s].at = "publish", ![s].latest = Len(jobs'),
                                  ![s].seen = <<>>, ![s].put = {}]

PublishRetry(s) ==
    /\ sweep[s].at = "publish"
    /\ sweep' = [sweep EXCEPT ![s].at = "scan", ![s].todo = Tail(@), ![s].latest = 0,
                              ![s].retried = IF s = "transient" THEN @ \cup {VideoTried(s)} ELSE @]
    /\ UNCHANGED <<jobs, status>>

\* The refusal is recorded, if its commit succeeds, and ends the script.
RetryRefused(s) ==
    /\ sweep[s].at = "publish"
    /\ \/ jobs' = [jobs EXCEPT ![sweep[s].latest].status = "failed",
                               ![sweep[s].latest].cause = "refused"]
       \/ UNCHANGED jobs
    /\ sweep' = [sweep EXCEPT ![s] = Ended]
    /\ UNCHANGED status

\* The session is closed without a commit: at the end, or because the script was killed or
\* chosen as the victim of a deadlock between the two.
LeaveSweep(s) ==
    /\ sweep[s].at # "idle"
    /\ sweep' = [sweep EXCEPT ![s] = Ended]
    /\ UNCHANGED <<jobs, status>>

-----------------------------------------------------------------------------
\* Attempts and users. A task, and the reaper of a stale one, writes attempt and video in
\* one transaction.

NotLocked(v) == \A s \in Sweeps : v \notin sweep[s].put

\* No message of an attempt goes out before its publication.
Unpublished == {sweep[s].latest : s \in {t \in Sweeps : sweep[t].at = "publish"}}

Work(j) ==
    LET v == jobs[j].video
    IN  /\ jobs[j].status = "active" /\ j \notin Unpublished /\ NotLocked(v)
        /\ \/ status' = [status EXCEPT ![v] = "working"] /\ UNCHANGED jobs
           \/ /\ status' = [status EXCEPT ![v] = "completed"]
              /\ jobs' = [jobs EXCEPT ![j].status = "completed"]
           \/ \E cause \in Causes, review \in BOOLEAN :
                /\ status' = [status EXCEPT ![v] = "failed"]
                /\ jobs' = [jobs EXCEPT ![j].status = "failed", ![j].cause = cause,
                                        ![j].review = review]
    /\ UNCHANGED sweep

\* A user's retry, by any of the requests; the message may be refused.
UserRetries(v) ==
    /\ ~IsActive(v) /\ jobs[Latest(v)].status \in {"failed", "cancelled"}
    /\ NotLocked(v) /\ Len(jobs) < MaxJobs
    /\ \E new \in {NewJob(v, "user", Latest(v)),
                   [NewJob(v, "user", Latest(v)) EXCEPT !.status = "failed",
                                                        !.cause = "refused"]} :
         jobs' = Superseding(v, new)
    /\ status' = [status EXCEPT ![v] = "pending"]
    /\ UNCHANGED sweep

\* The video is left as it is.
Cancel(j) ==
    /\ jobs[j].status = "active"
    /\ jobs' = [jobs EXCEPT ![j].status = "cancelled"]
    /\ UNCHANGED <<status, sweep>>

SweepNext ==
    \/ \E s \in Sweeps :
         \/ FindCandidates(s) \/ SkipCandidate(s) \/ Allocate(s) \/ CreateConflicts(s)
         \/ Create(s) \/ PublishRetry(s) \/ RetryRefused(s) \/ LeaveSweep(s)
    \/ \E j \in DOMAIN jobs : Work(j) \/ Cancel(j)
    \/ \E v \in SweptVideos : UserRetries(v)

\* Bounds: one script at a time, and one attempt that a user cancels or a person must review.
OneScript ==
    /\ \E s \in Sweeps : sweep'[s] = Ended
    /\ Cardinality({j \in DOMAIN jobs' : jobs'[j].status = "cancelled" \/ jobs'[j].review}) <= 1

SweepSpec == SweepInit /\ [][SweepNext]_sweepVars

-----------------------------------------------------------------------------
\* A scheduled retry follows an attempt that failed transiently and was the latest one of
\* its video when the script looked, however long the script has been running on the rows
\* it loaded; and no script retries a failure that waits for a person.
RetriesFollowFailures ==
    \A j \in DOMAIN jobs :
        LET before == jobs[jobs[j].after]
        IN  /\ jobs[j].by = "transient" => before.status = "failed" /\ before.cause = "transient"
            /\ jobs[j].by \in Sweeps => ~before.review

\* A video that waits has an attempt to wait for, or one that was cancelled or whose message
\* was refused: a script that puts a video back beside another's attempt, and commits that
\* with a later candidate, must not overwrite how that attempt ended.
PendingIsAwaited ==
    \A v \in SweptVideos : status[v] = "pending" =>
        \/ IsActive(v) \/ jobs[Latest(v)].status = "cancelled"
        \/ jobs[Latest(v)].cause = "refused"

\* The last failure of a video stays in view, of the operator and of the next sweep, however
\* many attempts of users and scripts have hidden those before.
FailureStaysInView ==
    \A v \in SweptVideos : jobs[Latest(v)].status = "failed" => ~jobs[Latest(v)].hidden

\* What the two scripts do to many videos in one session is what they may do to each: retry
\* the failure that they saw, leave no video waiting for nothing, and hide no last failure.
RetriesAreDue ==
    RetriesFollowFailures /\ PendingIsAwaited /\ FailureStaysInView

=============================================================================

-------------------------- MODULE SubscriptionPoll --------------------------
(***************************************************************************)
(* The watchlist: subscriptions of the operator and of digest lanes to     *)
(* channels, and the nightly run that reads their feeds and submits new    *)
(* uploads over HTTP.                                                      *)
(*                                                                         *)
(* A run loads the rows once and works on its copies; every commit of its  *)
(* session writes the columns that it changed, of all subscriptions.  It   *)
(* may be killed between any two steps.  Users change the rows meanwhile,  *)
(* and the pipeline works on what was submitted.                           *)
(***************************************************************************)
EXTENDS Integers, FiniteSets, Sequences, SequencesExt, FiniteSetsExt

CONSTANTS
    Watches,       \* channel_subscriptions
    LaneWatches,   \* lane_subscriptions, one of each lane
    Channels,
    ChannelOf,     \* the channel that a subscription is for
    MaxSubs,       \* bound: subscriptions at a time
    MaxVideos,     \* bound: uploads
    MaxRows,       \* bound: rows that a subscription of a channel ever has
    FeedSize,      \* entries of a feed (limit of fetch_channel_feed)
    SeenMax,       \* ids that last_seen_video_ids keeps
    MaxPerPoll,    \* max_videos_per_poll
    MaxPerRun,     \* auto_ingest_max_submissions_per_run
    DisableAfter,  \* disable_after of mark_poll_failure
    MaxSlips,      \* bound: killed runs and refused messages on one day
    MaxEdits       \* bound: requests of users

Subs == Watches \cup LaneWatches

ASSUME PollAssumption ==
    /\ ChannelOf \in [Subs -> Channels]
    /\ Watches \cap LaneWatches = {} /\ MaxSubs \in Nat
    /\ IsFiniteSet(Watches \cup LaneWatches)
    /\ MaxVideos \in Nat /\ MaxRows \in Nat \ {0} /\ MaxSlips \in Nat /\ MaxEdits \in Nat
    /\ FeedSize \in Nat \ {0} /\ MaxPerPoll \in Nat \ {0} /\ MaxPerRun \in Nat \ {0}
    /\ SeenMax \in Nat \ {0} /\ DisableAfter \in Nat \ {0}

Clips == 1..MaxVideos

VARIABLES
    uploads,   \* the channel of each video, by time of upload
    kind,      \* what the classifier finds: a regular video, a short, a premiere to come
    work,      \* what the pipeline has of each video, as a submission finds it
    items,     \* lane_video_items: the videos of each lane
    rows,      \* the subscriptions
    poll,      \* the run
    made,      \* history: attempts made for each subscription since midnight
    slips,     \* history: killed runs and refused messages since midnight
    edits,     \* requests of users so far
    held       \* history: videos of which a lane was told that they wait for a person

pollVars == <<uploads, kind, work, items, rows, poll, made, slips, edits, held>>

\* `fresh` is daily_counter_reset_at = today; `due` is what is_due_for_poll computes
\* from last_polled_at and poll_frequency_hours.
Rows == [id : 0..MaxRows, enabled : BOOLEAN, due : BOOLEAN, failures : Nat, today : Nat,
         fresh : BOOLEAN, seen : Seq(Clips)]

NewRow(id) == [id |-> id, enabled |-> TRUE, due |-> TRUE, failures |-> 0, today |-> 0,
               fresh |-> FALSE, seen |-> <<>>]

NoRun == [phase |-> "idle", lanes |-> FALSE, todo |-> <<>>, slots |-> 0,
          loaded |-> <<>>, copy |-> <<>>, sub |-> "none", entries |-> {}, video |-> 0,
          answer |-> "none", took |-> <<>>, rejected |-> <<>>, counted |-> 0, posted |-> 0]

Uploaded  == DOMAIN uploads
Feed(c)   == {v \in Uploaded : uploads[v] = c
                 /\ Cardinality({u \in Uploaded : uploads[u] = c /\ u > v}) < FeedSize}
Newest(n, vs) == {v \in vs : Cardinality({u \in vs : u > v}) < n}
Seen(row) == ToSet(row.seen)

Row    == poll.copy[poll.sub]
InLane == poll.sub \in LaneWatches
At(phase) == poll.phase = phase
Goes(phase) == [poll EXCEPT !.phase = phase]

\* The run when it is done with a subscription.
Leaves(slots) == [NoRun EXCEPT !.phase = "next", !.lanes = poll.lanes, !.todo = poll.todo,
                     !.slots = slots, !.posted = poll.posted,
                     !.loaded = poll.loaded, !.copy = poll.copy]

-----------------------------------------------------------------------------
(***************************************************************************)
(* The row after a poll.                                                   *)
(***************************************************************************)
\* Mutant: what was seen before is dropped.
SucceededForgets(row, new) == [row EXCEPT !.due = FALSE, !.failures = 0, !.seen = new]

Succeeded(row, new) ==
    [row EXCEPT !.due = FALSE, !.failures = 0,
                !.seen = SubSeq(new \o @, 1, Min({SeenMax, Len(new) + Len(@)}))]

\* Failures are counted up to the threshold; beyond it the code tells them not apart.
Failed(row) ==
    [row EXCEPT !.failures = Min({@ + 1, DisableAfter}),
                !.enabled = IF row.failures + 1 >= DisableAfter THEN FALSE ELSE @]

\* Mutant: the counter starts again with every poll.
CounterAlwaysReset(row) == [row EXCEPT !.today = 0, !.fresh = TRUE]

CounterReset(row) == IF row.fresh THEN row ELSE [row EXCEPT !.today = 0, !.fresh = TRUE]

IsDue(row) == row.enabled /\ row.due

\* The columns that the session of the run has changed, over what the rows are now.
Written(copy) ==
    [s \in Subs |-> IF copy[s] = poll.loaded[s] THEN rows[s] ELSE
        [f \in DOMAIN rows[s] |-> IF copy[s][f] = poll.loaded[s][f] THEN rows[s][f]
                                                                   ELSE copy[s][f]]]

\* Rows that are gone: an UPDATE that matches nothing fails the commit and the run.
Matches(copy) ==
    \A s \in Subs : copy[s] # poll.loaded[s] => rows[s].id = poll.loaded[s].id

\* A commit of the run's session; `next` is the run after it, `lane` the lane items.
Commit(copy, next, lane) ==
    IF Matches(copy)
    THEN /\ rows' = Written(copy)
         /\ poll' = [next EXCEPT !.loaded = copy, !.copy = copy]
         /\ items' = lane
    ELSE /\ poll' = NoRun
         /\ UNCHANGED <<rows, items>>

CopyWith(row) == [poll.copy EXCEPT ![poll.sub] = row]

-----------------------------------------------------------------------------
(***************************************************************************)
(* _run_poll: first the watchlist, then the lanes.                         *)
(***************************************************************************)
\* The subscriptions that exist, as a query returns them (by last_polled_at in the code).
Loads(subs) == SetToSeqs({s \in subs : rows[s].id # 0})

Begin ==
    /\ At("idle")
    /\ \E todo \in Loads(Watches) :
          poll' = [NoRun EXCEPT !.phase = "next", !.todo = todo, !.slots = MaxPerRun,
                                !.loaded = rows, !.copy = rows]
    /\ UNCHANGED <<uploads, kind, work, items, rows, made, slips, edits, held>>

Skip ==
    /\ At("next") /\ poll.todo # <<>>
    /\ ~IsDue(poll.copy[Head(poll.todo)])
    /\ poll' = [poll EXCEPT !.todo = Tail(@)]
    /\ UNCHANGED <<uploads, kind, work, items, rows, made, slips, edits, held>>

Take ==
    /\ At("next") /\ poll.todo # <<>>
    /\ IsDue(poll.copy[Head(poll.todo)])
    /\ poll.slots > 0
    /\ poll' = [poll EXCEPT !.phase = "fetch", !.sub = Head(poll.todo), !.todo = Tail(@)]
    /\ UNCHANGED <<uploads, kind, work, items, rows, made, slips, edits, held>>

\* The loop ends, or is left when the slots are used up or the download circuit is open
\* (any answer of it); the rows of the lanes are loaded now.
Stop ==
    /\ At("next")
    /\ \/ poll.todo = <<>>
       \/ poll.todo # <<>> /\ IsDue(poll.copy[Head(poll.todo)])
    /\ \E todo \in Loads(LaneWatches) :
          poll' = IF poll.lanes THEN NoRun
                  ELSE [poll EXCEPT !.lanes = TRUE, !.todo = todo,
                       !.loaded = [s \in Subs |-> IF s \in LaneWatches THEN rows[s] ELSE poll.loaded[s]],
                       !.copy = [s \in Subs |-> IF s \in LaneWatches THEN rows[s] ELSE poll.copy[s]]]
    /\ UNCHANGED <<uploads, kind, work, items, rows, made, slips, edits, held>>

-----------------------------------------------------------------------------
(***************************************************************************)
(* _process_one_subscription, _process_one_lane_subscription.              *)
(***************************************************************************)
FeedFails ==
    /\ At("fetch")
    /\ Commit(CopyWith(Failed(Row)), Leaves(poll.slots), items)
    /\ UNCHANGED <<uploads, kind, work, made, slips, edits, held>>

NewEntries == Feed(ChannelOf[poll.sub]) \ Seen(Row)

FeedHasNothing ==
    /\ At("fetch") /\ NewEntries = {}
    /\ Commit(CopyWith(Succeeded(Row, <<>>)), Leaves(poll.slots), items)
    /\ UNCHANGED <<uploads, kind, work, made, slips, edits, held>>

\* Mutant: the day's counter is not looked at.
AllowedPerPoll(row) == IF InLane THEN MaxPerPoll ELSE Min({MaxPerPoll, poll.slots})

\* A lane has its daily share looked at, and the slots of the run at each entry.
Allowed(row) ==
    LET left == Max({0, MaxPerPoll - row.today})
    IN  IF InLane THEN left ELSE Min({left, Max({0, poll.slots})})

\* The counter is reset in the copy, to be written by whatever commit comes next.
FeedHasEntries ==
    LET row == CounterReset(Row) IN
    /\ At("fetch") /\ NewEntries # {}
    /\ poll' = IF Allowed(row) = 0 /\ ~InLane
               THEN [Leaves(poll.slots) EXCEPT !.copy = CopyWith(row)]
               ELSE [Goes("entries") EXCEPT !.copy = CopyWith(row),
                                            !.entries = Newest(Allowed(row), NewEntries)]
    /\ UNCHANGED <<uploads, kind, work, items, rows, made, slips, edits, held>>

\* The next entry, newest first; a lane stops when the slots of the run are used up.
Entry == Max(poll.entries)
HasEntry == At("entries") /\ poll.entries # {} /\ (InLane => poll.counted < poll.slots)
Without(v) == [poll EXCEPT !.entries = @ \ {v}]

\* A short, or a clip below the floor, will never be wanted.
Reject ==
    /\ HasEntry /\ kind[Entry] = "short"
    /\ poll' = [Without(Entry) EXCEPT !.rejected = Append(@, Entry)]
    /\ UNCHANGED <<uploads, kind, work, items, rows, made, slips, edits, held>>

\* What is left of a video that is live or to be published.
Deferred(v) == Without(v)

Defer ==
    /\ HasEntry /\ kind[Entry] = "upcoming"
    /\ poll' = Deferred(Entry)
    /\ UNCHANGED <<uploads, kind, work, items, rows, made, slips, edits, held>>

\* The video is one of the lane's.
AlreadyAttached ==
    /\ HasEntry /\ InLane /\ Entry \in items[poll.sub]
    /\ poll' = [Without(Entry) EXCEPT !.phase = "attached", !.video = Entry]
    /\ UNCHANGED <<uploads, kind, work, items, rows, made, slips, edits, held>>

\* The pipeline has the video already.
Attach ==
    /\ HasEntry /\ InLane /\ Entry \notin items[poll.sub]
    /\ work[Entry] \in {"active", "completed"}
    /\ Commit(poll.copy,
              [Without(Entry) EXCEPT !.phase = "attached", !.video = Entry],
              [items EXCEPT ![poll.sub] = @ \cup {Entry}])
    /\ UNCHANGED <<uploads, kind, work, made, slips, edits, held>>

\* POST /api/videos.  A lookup may fail before anything is done (400), and the queue may
\* refuse an attempt that is committed (503).  A classifier that fails lets all pass.
Submit ==
    LET v == Entry
        Answers(answer, state) ==
            /\ slips' = slips + (IF answer = "error" /\ state # work[v] THEN 1 ELSE 0)
            /\ slips' <= MaxSlips
            /\ work' = [work EXCEPT ![v] = state]
            /\ made' = [made EXCEPT ![poll.sub] = IF state = work[v] THEN @ ELSE @ + 1]
            /\ poll' = [Without(v) EXCEPT !.phase = "answered", !.video = v, !.answer = answer,
                           !.posted = IF state = work[v] THEN @ ELSE @ + 1] IN
    /\ HasEntry
    /\ InLane => v \notin items[poll.sub] /\ work[v] \notin {"active", "completed"}
    /\ \/ Answers("error", work[v])
       \/ work[v] \in {"none", "failed"} /\ \E answer \in {"ok", "error"} : Answers(answer, "active")
       \/ work[v] \in {"active", "completed"} /\ Answers("ok", work[v])
       \/ work[v] = "review" /\ Answers("blocked", work[v])
    /\ UNCHANGED <<uploads, kind, items, rows, edits, held>>

\* What one more ingested video makes of the row.
Counted(row) == [row EXCEPT !.today = @ + 1]

\* The job is tagged in a commit of the session; a lane then adds its item.
Tag ==
    /\ At("answered") /\ poll.answer = "ok"
    /\ Commit(poll.copy, Goes("tagged"), items)
    /\ UNCHANGED <<uploads, kind, work, made, slips, edits, held>>

LaneItem ==
    /\ At("tagged") /\ InLane
    /\ Commit(poll.copy, [poll EXCEPT !.phase = "attached", !.counted = @ + 1],
              [items EXCEPT ![poll.sub] = @ \cup {poll.video}])
    /\ UNCHANGED <<uploads, kind, work, made, slips, edits, held>>

\* The entry is counted in memory.
CountEntry ==
    /\ At("attached") \/ (At("tagged") /\ ~InLane)
    /\ poll' = [poll EXCEPT !.phase = "entries", !.copy = CopyWith(Counted(Row)),
                            !.took = Append(@, poll.video),
                            !.video = 0, !.answer = "none",
                            !.counted = IF InLane THEN @ ELSE @ + 1]
    /\ UNCHANGED <<uploads, kind, work, items, rows, made, slips, edits, held>>

\* 409: the video waits for a person; it is seen, and nothing is counted or attached.
Blocked ==
    /\ At("answered") /\ poll.answer = "blocked"
    /\ poll' = [poll EXCEPT !.phase = "entries", !.took = Append(@, poll.video),
                            !.video = 0, !.answer = "none"]
    /\ held' = IF InLane THEN [held EXCEPT ![poll.sub] = @ \cup {poll.video}] ELSE held
    /\ UNCHANGED <<uploads, kind, work, items, rows, made, slips, edits>>

\* Any other answer ends the poll of this subscription with nothing marked seen.  The
\* result of a watch then says that nothing was ingested; that of a lane counts on.
SubmitFails ==
    /\ At("answered") /\ poll.answer = "error"
    /\ Commit(CopyWith(Failed(Row)),
              Leaves(IF InLane THEN poll.slots - poll.counted ELSE poll.slots), items)
    /\ UNCHANGED <<uploads, kind, work, made, slips, edits, held>>

\* Mutant: everything that the feed showed is marked.
MarkedAll == SetToSeq(NewEntries)

Marked == poll.took \o poll.rejected

Finish ==
    /\ At("entries") /\ ~HasEntry
    /\ Commit(CopyWith(Succeeded(Row, Marked)),
              Leaves(poll.slots - poll.counted), items)
    /\ UNCHANGED <<uploads, kind, work, made, slips, edits, held>>

RunKilled ==
    /\ ~At("idle") /\ slips < MaxSlips
    /\ poll' = NoRun
    /\ slips' = slips + 1
    /\ UNCHANGED <<uploads, kind, work, items, rows, made, edits, held>>

-----------------------------------------------------------------------------
(***************************************************************************)
(* The requests of users, the pipeline and the world.                      *)
(***************************************************************************)
\* The world moves where the run looks at it next: an upload before a feed is read, the
\* state of a video before an entry is looked at, the hour before rows are loaded.
Upload(c, k) ==
    /\ At("idle") \/ At("fetch")
    /\ Len(uploads) < MaxVideos
    /\ uploads' = Append(uploads, c)
    /\ kind' = [kind EXCEPT ![Len(uploads) + 1] = k]
    /\ UNCHANGED <<work, items, rows, poll, made, slips, edits, held>>

Airs(v) ==
    /\ At("idle") \/ At("entries")
    /\ v \in Uploaded /\ kind[v] = "upcoming"
    /\ kind' = [kind EXCEPT ![v] = "regular"]
    /\ UNCHANGED <<uploads, work, items, rows, poll, made, slips, edits, held>>

PipelineEnds(v) ==
    /\ At("idle") \/ At("entries")
    /\ work[v] = "active"
    /\ \E state \in {"completed", "failed", "review"} : work' = [work EXCEPT ![v] = state]
    /\ UNCHANGED <<uploads, kind, items, rows, poll, made, slips, edits, held>>

\* POST /api/jobs/{id}/retry with the operator's override: a video that waits for a person
\* is worked on once more.
PersonRetries(v) ==
    /\ At("idle") \/ At("entries")
    /\ work[v] = "review"
    /\ work' = [work EXCEPT ![v] = "active"]
    /\ UNCHANGED <<uploads, kind, items, rows, poll, made, slips, edits, held>>

BecomesDue(s) ==
    /\ At("idle")
    /\ rows[s].id # 0 /\ ~rows[s].due
    /\ rows' = [rows EXCEPT ![s].due = TRUE]
    /\ UNCHANGED <<uploads, kind, work, items, poll, made, slips, edits, held>>

\* A run does not span midnight (a bound).
NewDay ==
    /\ At("idle")
    /\ rows' = [s \in Subs |-> [rows[s] EXCEPT !.fresh = FALSE]]
    /\ made' = [s \in Subs |-> 0]
    /\ slips' = 0
    /\ UNCHANGED <<uploads, kind, work, items, poll, edits, held>>

Edit == edits < MaxEdits /\ edits' = edits + 1

\* create_or_enable_subscription, create_or_enable_lane_subscription, and PATCH.
Enable(s) ==
    /\ Edit
    /\ rows[s].id # 0
    /\ rows' = [rows EXCEPT ![s].enabled = TRUE]
    /\ UNCHANGED <<uploads, kind, work, items, poll, made, slips, held>>

Disable(s) ==
    /\ Edit
    /\ rows[s].id # 0
    /\ rows' = [rows EXCEPT ![s].enabled = FALSE]
    /\ UNCHANGED <<uploads, kind, work, items, poll, made, slips, held>>

\* PATCH with reset_failures, which the subscriptions of lanes do not have.
ResetFailures(s) ==
    /\ Edit
    /\ s \in Watches /\ rows[s].id # 0
    /\ rows' = [rows EXCEPT ![s].failures = 0]
    /\ UNCHANGED <<uploads, kind, work, items, poll, made, slips, held>>

\* A deleted subscription; `id` of a row that is gone is 0.
DeleteRow(s) ==
    /\ Edit
    /\ s \in Watches /\ rows[s].id \in 1 .. MaxRows - 1
    /\ rows' = [rows EXCEPT ![s] = NewRow(0)]
    /\ UNCHANGED <<uploads, kind, work, items, poll, made, slips, held>>

Subscribe(s) ==
    /\ Edit
    /\ s \in Watches /\ rows[s].id = 0
    /\ Cardinality({t \in Subs : rows[t].id # 0}) < MaxSubs
    /\ rows' = [rows EXCEPT ![s] = NewRow(MaxRows)]
    /\ made' = [made EXCEPT ![s] = 0]
    /\ UNCHANGED <<uploads, kind, work, items, poll, slips, held>>

-----------------------------------------------------------------------------
PollInit ==
    /\ uploads = <<>>
    /\ kind = [v \in Clips |-> "regular"]
    /\ work = [v \in Clips |-> "none"]
    /\ items = [s \in LaneWatches |-> {}]
    /\ \E start \in {S \in SUBSET Subs : Cardinality(S) = MaxSubs} :
          rows = [s \in Subs |-> NewRow(IF s \in start THEN 1 ELSE 0)]
    /\ poll = NoRun
    /\ made = [s \in Subs |-> 0]
    /\ slips = 0
    /\ edits = 0
    /\ held = [s \in LaneWatches |-> {}]

RunSteps ==
    \/ Begin \/ Skip \/ Take \/ Stop
    \/ FeedFails \/ FeedHasNothing \/ FeedHasEntries
    \/ Reject \/ Defer \/ AlreadyAttached \/ Attach \/ Submit \/ Tag \/ LaneItem \/ CountEntry
    \/ Blocked \/ SubmitFails \/ Finish \/ RunKilled

World ==
    \/ \E c \in Channels, k \in {"regular", "short", "upcoming"} : Upload(c, k)
    \/ \E v \in Clips : Airs(v) \/ PipelineEnds(v) \/ PersonRetries(v)
    \/ NewDay
    \/ \E s \in Subs : BecomesDue(s) \/ Enable(s) \/ Disable(s) \/ ResetFailures(s)
                       \/ DeleteRow(s) \/ Subscribe(s)

PollNext == RunSteps \/ World

PollSpec == PollInit /\ [][PollNext]_pollVars

\* Bound of the checks: one slip, one edit or one video whose attempt failed or waits
\* for a person.
OneMishap ==
    slips' + edits' + Cardinality({v \in Clips : work'[v] \in {"failed", "review"}
                                     \/ \E s \in LaneWatches : v \in held'[s]}) <= 1

-----------------------------------------------------------------------------
PollTypeOK ==
    /\ uploads \in Seq(Channels) /\ Len(uploads) <= MaxVideos
    /\ kind \in [Clips -> {"regular", "short", "upcoming"}]
    /\ work \in [Clips -> {"none", "active", "completed", "failed", "review"}]
    /\ items \in [LaneWatches -> SUBSET Clips] /\ held \in [LaneWatches -> SUBSET Clips]
    /\ rows \in [Subs -> Rows]
    /\ \A s \in Subs : rows[s].today <= MaxPerPoll /\ Len(rows[s].seen) <= SeenMax
    /\ poll.slots \in 0..MaxPerRun

\* What is marked seen was handled: an attempt was made for the video, or it is a short.
\* A video that the cap cut off, that failed to be submitted or that is to be published is
\* offered again by the next poll (mark_poll_success at the end of a poll).
SeenIsHandled ==
    \A s \in Subs : \A v \in Seen(rows[s]) : work[v] # "none" \/ kind[v] = "short"

\* A lane has an item for every video it has seen, except shorts and the videos that waited
\* for a person when the lane submitted them: those stay without an item also when the
\* person retries them and they are completed (_process_one_lane_subscription marks them seen).
LaneSeenIsAttached ==
    \A s \in LaneWatches : \A v \in Seen(rows[s]) :
        v \in items[s] \/ kind[v] = "short" \/ v \in held[s]

\* What a watch or a lane has seen is done with: whatever run was killed, capped or refused in
\* between, nothing is marked seen that no attempt was made for, or that the lane neither has
\* nor was told to wait for (mark_poll_success, _process_one_subscription).
NothingIsMissed ==
    SeenIsHandled /\ LaneSeenIsAttached

\* A video that was seen is not new again while its feed still shows it, although only
\* the last ids are kept and older videos are handled after newer ones.
IdsAreKept ==
    \A s \in Subs : \A v \in Seen(rows[s]) :
       v \in Seen(rows'[s]) \/ v \notin Feed(ChannelOf[s])
       \/ rows'[s].id # rows[s].id

\* A day makes at most max_videos_per_poll attempts for a subscription, and two more for
\* every run that was killed or message that the queue refused: the attempt just made, and
\* the one before it, which is counted in memory until the next job is tagged.
DailyLimitKept ==
    \A s \in Subs : made[s] <= MaxPerPoll + 2 * slips

\* "One poll cannot exceed the configured global submission cap" (docs/tasks/T081).
RunWithinCap == poll.posted <= MaxPerRun
=============================================================================

----------------------------- MODULE LaneDigests -----------------------------
(***************************************************************************)
(* Digests of recipient lanes.  A lane follows videos of its own through   *)
(* items, each linked to the processing attempt that it waits for.  The    *)
(* scheduled digest and the commands of the bot gather, send and mark the  *)
(* items in steps, while the pipeline goes on; Telegram may refuse a       *)
(* message, or accept it without the sender learning of it.                *)
(***************************************************************************)
EXTENDS Integers, Sequences, FiniteSets, SequencesExt

CONSTANTS
    Lanes, LaneVideos,
    Scheduled,    \* the task lane_digests, over all lanes
    Commands,     \* runs of /digest and /lane_digest, over one lane
    MaxAttempts   \* bound: attempts of a video

ASSUME LaneAssumption == MaxAttempts \in Nat \ {0} /\ Scheduled \cap Commands = {}

Runs == Scheduled \cup Commands

VARIABLES
    attempts,  \* for each video the status of its attempts, oldest first
    links,     \* the items: for a lane and a video the attempt linked, NoItem without an item
    recent,    \* <<lane, video>>: first seen within the window of the digest
    delivered, \* digest_delivered_at is set
    chats,     \* the lanes whose telegram_chat_id is known
    run,       \* what each digest run is doing
    told,      \* history: a confirmed message counted the video among those ready
    unmarked   \* history: told by a run that died before its commit

laneVars == <<attempts, links, recent, delivered, chats, run, told, unmarked>>

NoItem == -1
NoJob  == 0      \* the item of a video that was completed before
Pairs  == Lanes \X LaneVideos

NoDigest == [phase |-> "idle", todo |-> {}, known |-> {}, lane |-> CHOOSE l \in Lanes : TRUE,
             ready |-> {}, others |-> {}]

\* videos.status as the last attempt left it; a video that was never processed is pending.
VideoStatus(v) == IF attempts[v] = <<>> THEN "active" ELSE Last(attempts[v])

JobStatus(l, v) == IF links[<<l, v>>] = NoJob THEN "none" ELSE attempts[v][links[<<l, v>>]]

Items(l) == {v \in LaneVideos : links[<<l, v>>] # NoItem /\ <<l, v>> \in recent}

\* gather_lane_digest_inputs.
FailedItems(l) == {v \in Items(l) : "failed" \in {VideoStatus(v), JobStatus(l, v)}}

Ready(l) == {v \in Items(l) \ FailedItems(l) : VideoStatus(v) = "completed" /\ <<l, v>> \notin delivered}

Pair(l, S) == {l} \X S

\* What other runs have told the lane and not committed yet.
Underway(l) == UNION {Pair(l, run[q].ready) : q \in {p \in Runs : run[p].phase = "mark" /\ run[p].lane = l}}

\* A run turns to its next lane.
NextLane(r) == [NoDigest EXCEPT !.phase = "gather", !.todo = run[r].todo, !.known = run[r].known]
-----------------------------------------------------------------------------
\* A scheduled run loads the lanes and their chats once; a command has one lane.
StartRun(r) ==
    /\ run[r].phase = "idle"
    /\ IF r \in Scheduled
       THEN run' = [run EXCEPT ![r] = [NoDigest EXCEPT !.phase = "gather", !.todo = Lanes, !.known = chats]]
       ELSE \E l \in Lanes :
               run' = [run EXCEPT ![r] = [NoDigest EXCEPT !.phase = "gather", !.todo = {l}, !.known = chats]]
    /\ UNCHANGED <<attempts, links, recent, delivered, chats, told, unmarked>>

\* deliver_lane_digest, for the next lane: without a chat nothing is gathered.
Gather(r, l) ==
    /\ run[r].phase = "gather" /\ l \in run[r].todo
    /\ run' = [run EXCEPT ![r].todo = @ \ {l},
                          ![r].lane = IF l \in run[r].known THEN l ELSE @,
                          ![r].phase = IF l \in run[r].known THEN "send" ELSE "gather",
                          ![r].ready = IF l \in run[r].known THEN Ready(l) ELSE {},
                          ![r].others = IF l \in run[r].known THEN Underway(l) ELSE {}]
    /\ UNCHANGED <<attempts, links, recent, delivered, chats, told, unmarked>>

\* One message: confirmed, refused, or accepted and not confirmed.
SendDigest(r) ==
    LET l == run[r].lane
        now == Pair(l, run[r].ready) IN
    /\ run[r].phase = "send"
    /\ \/ /\ told' = told \cup now
          /\ run' = [q \in Runs |->
                IF q = r THEN [run[r] EXCEPT !.phase = "mark"]
                ELSE [run[q] EXCEPT !.others = IF run[q].phase = "send" /\ run[q].lane = l
                                              THEN @ \cup now ELSE @]]
       \/ /\ run' = [run EXCEPT ![r] = NextLane(r)]
          /\ UNCHANGED told
    /\ UNCHANGED <<attempts, links, recent, delivered, chats, unmarked>>

\* Mutant: what is ready by the time of the commit is marked.
MarkedItemsNow(r) == Pair(run[r].lane, Ready(run[r].lane))

MarkedItems(r) == Pair(run[r].lane, run[r].ready)

Mark(r) ==
    /\ run[r].phase = "mark"
    /\ delivered' = delivered \cup MarkedItems(r)
    /\ run' = [run EXCEPT ![r] = NextLane(r)]
    /\ UNCHANGED <<attempts, links, recent, chats, told, unmarked>>

FinishRun(r) ==
    /\ run[r].phase = "gather" /\ run[r].todo = {}
    /\ run' = [run EXCEPT ![r] = NoDigest]
    /\ UNCHANGED <<attempts, links, recent, delivered, chats, told, unmarked>>

\* The process of a run ends, or a statement fails: the lanes that are left get no digest.
RunDies(r) ==
    /\ run[r].phase # "idle"
    /\ unmarked' = IF run[r].phase = "mark" THEN unmarked \cup Pair(run[r].lane, run[r].ready)
                   ELSE unmarked
    /\ run' = [run EXCEPT ![r] = NoDigest]
    /\ UNCHANGED <<attempts, links, recent, delivered, chats, told>>
-----------------------------------------------------------------------------
\* A private message to the bot records the chat (resolve_lane_access, provision_digest_lane).
Greet(l) ==
    /\ l \notin chats
    /\ chats' = chats \cup {l}
    /\ UNCHANGED <<attempts, links, recent, delivered, run, told, unmarked>>

\* The poller attaches an item: linked to the attempt under way, to none if the video is
\* completed, and otherwise to the attempt that it submits (_attach_or_submit_lane_entry).
AttachItem(l, v) ==
    LET s == attempts[v] IN
    /\ links[<<l, v>>] = NoItem
    /\ \/ /\ s # <<>> /\ Last(s) = "active"
          /\ links' = [links EXCEPT ![<<l, v>>] = Len(s)]
          /\ UNCHANGED attempts
       \/ /\ s # <<>> /\ Last(s) = "completed"
          /\ links' = [links EXCEPT ![<<l, v>>] = NoJob]
          /\ UNCHANGED attempts
       \/ /\ s # <<>> => Last(s) = "failed"
          /\ Len(s) < MaxAttempts
          /\ links' = [links EXCEPT ![<<l, v>>] = Len(s) + 1]
          /\ attempts' = [attempts EXCEPT ![v] = Append(@, "active")]
    /\ recent' = recent \cup {<<l, v>>}
    /\ UNCHANGED <<delivered, chats, run, told, unmarked>>

\* A new attempt by any other way: no item is linked to it.
Process(v) ==
    /\ Len(attempts[v]) < MaxAttempts
    /\ attempts[v] # <<>> => Last(attempts[v]) = "failed"
    /\ attempts' = [attempts EXCEPT ![v] = Append(@, "active")]
    /\ UNCHANGED <<links, recent, delivered, chats, run, told, unmarked>>

\* /lane_retry posts a retry of the item's job and links this lane's item to the new one.
LaneRetry(l, v) ==
    /\ links[<<l, v>>] > NoJob
    /\ Len(attempts[v]) < MaxAttempts
    /\ Last(attempts[v]) = "failed"
    /\ attempts' = [attempts EXCEPT ![v] = Append(@, "active")]
    /\ links' = [links EXCEPT ![<<l, v>>] = Len(attempts[v]) + 1]
    /\ UNCHANGED <<recent, delivered, chats, run, told, unmarked>>

\* The attempt ends; the pipeline writes the attempt and the video together.
Settle(v) ==
    /\ attempts[v] # <<>> /\ Last(attempts[v]) = "active"
    /\ \E s \in {"completed", "failed"} :
          attempts' = [attempts EXCEPT ![v][Len(attempts[v])] = s]
    /\ UNCHANGED <<links, recent, delivered, chats, run, told, unmarked>>

\* The item leaves the window.
Ages(p) ==
    /\ p \in recent
    /\ recent' = recent \ {p}
    /\ UNCHANGED <<attempts, links, delivered, chats, run, told, unmarked>>

LaneInit ==
    /\ attempts = [v \in LaneVideos |-> <<>>]
    /\ links = [p \in Pairs |-> NoItem]
    /\ recent = {} /\ delivered = {} /\ chats = {}
    /\ run = [r \in Runs |-> NoDigest]
    /\ told = {} /\ unmarked = {}

LaneNext ==
    \/ \E r \in Runs :
          \/ StartRun(r) \/ SendDigest(r) \/ Mark(r) \/ FinishRun(r) \/ RunDies(r)
          \/ \E l \in Lanes : Gather(r, l)
    \/ \E l \in Lanes : Greet(l)
    \/ \E v \in LaneVideos : Process(v) \/ Settle(v)
    \/ \E l \in Lanes, v \in LaneVideos : AttachItem(l, v) \/ LaneRetry(l, v)
    \/ \E p \in Pairs : Ages(p)

LaneSpec == LaneInit /\ [][LaneNext]_laneVars

-----------------------------------------------------------------------------
\* What is marked as delivered was counted as ready in a message that Telegram confirmed,
\* also when videos complete while the message is under way (deliver_lane_digest).
DeliveredWasTold == delivered \subseteq told

\* A recipient hears of a video as ready once, unless the run that said so died before its
\* commit or another run of the same lane overlapped (deliver_lane_digest).  A message that
\* Telegram accepted and did not confirm counts as not sent (_send of telegram_notify returns
\* False on a timeout), so that the next run sends it again.
ToldOnce ==
    \A r \in Runs : SendDigest(r) /\ run'[r].phase = "mark" =>
       Pair(run[r].lane, run[r].ready) \cap told \subseteq unmarked \cup run[r].others

\* Marked and told agree after every step, and no step tells a recipient again of what was
\* confirmed, with the exceptions above (deliver_lane_digest).
DigestsAreTold ==
    [][DeliveredWasTold' /\ ToldOnce]_laneVars
=============================================================================

----------------------- MODULE SubscriptionPoll_proofs -----------------------
(***************************************************************************)
(* Proofs about the watchlist and its nightly run, for any number of       *)
(* subscriptions, lanes, channels and videos.                              *)
(*                                                                         *)
(* TypeInv gives the types, of the run by phase.  On it rest four          *)
(* invariants that do not need one another: SeenInv follows a video from   *)
(* the feed to the list that marks it seen, CountInv bounds the counters   *)
(* of rows, copies and run, LimitInv compares what was made with what the  *)
(* rows or the run's copies have counted, and IdsInv says in which order   *)
(* the ids of the feed are listed.                                         *)
(***************************************************************************)
EXTENDS SubscriptionPoll, FiniteSetTheorems, WellFoundedInduction, NaturalsInduction, TLAPS

-----------------------------------------------------------------------------
\* The phases of a run.
Phases == {"idle", "next", "fetch", "entries", "answered", "tagged", "attached"}

\* What a run carries.
Runs == [phase : Phases, lanes : BOOLEAN, todo : Seq(Subs), slots : Int,
         loaded : {<<>>} \cup [Subs -> Rows], copy : {<<>>} \cup [Subs -> Rows],
         sub : Subs \cup {"none"}, entries : SUBSET Clips, video : Clips \cup {0},
         answer : {"none", "ok", "error", "blocked"}, took : Seq(Clips), rejected : Seq(Clips),
         counted : Nat, posted : Nat]

\* A run at work has rows; one that is at a subscription has one, and then a video.
RunOK(r) ==
    /\ r \in Runs
    /\ r.phase # "idle" => r.loaded \in [Subs -> Rows] /\ r.copy \in [Subs -> Rows]
    /\ r.phase \notin {"idle", "next"} => r.sub \in Subs
    /\ r.phase \in {"answered", "tagged", "attached"} => r.video \in Clips

TypeInv ==
    /\ uploads \in Seq(Channels) /\ Len(uploads) <= MaxVideos
    /\ kind \in [Clips -> {"regular", "short", "upcoming"}]
    /\ work \in [Clips -> {"none", "active", "completed", "failed", "review"}]
    /\ items \in [LaneWatches -> SUBSET Clips]
    /\ rows \in [Subs -> Rows]
    /\ made \in [Subs -> Nat] /\ slips \in Nat
    /\ held \in [LaneWatches -> SUBSET Clips]
    /\ RunOK(poll)

-----------------------------------------------------------------------------
\* The smaller of two numbers.
LEMMA MinOfTwo ==
    ASSUME NEW a \in Int, NEW b \in Int
    PROVE  Min({a, b}) = IF a <= b THEN a ELSE b
<1> DEFINE m == IF a <= b THEN a ELSE b
<1>1. m \in {a, b} /\ \A y \in {a, b} : m <= y
  OBVIOUS
<1>2. Min({a, b}) \in {a, b} /\ \A y \in {a, b} : Min({a, b}) <= y
  BY <1>1 DEF Min
<1>3. QED
  BY <1>2

\* The larger of two numbers.
LEMMA MaxOfTwo ==
    ASSUME NEW a \in Int, NEW b \in Int
    PROVE  Max({a, b}) = IF a >= b THEN a ELSE b
<1> DEFINE m == IF a >= b THEN a ELSE b
<1>1. m \in {a, b} /\ \A y \in {a, b} : m >= y
  OBVIOUS
<1>2. Max({a, b}) \in {a, b} /\ \A y \in {a, b} : Max({a, b}) >= y
  BY <1>1 DEF Max
<1>3. QED
  BY <1>2

\* A set of numbers that is not empty has a smallest one ...
LEMMA SmallestExists ==
    ASSUME NEW T, T \subseteq Nat, T # {}
    PROVE  \E x \in T : \A y \in T : x <= y
<1> DEFINE R == OpToRel(<, Nat)
<1>1. IsWellFoundedOn(R, Nat)
  BY NatLessThanWellFounded
<1>2. \A x, y \in Nat : y < x => <<y, x>> \in R
  BY DEF OpToRel
<1> HIDE DEF R
<1>3. \E x \in T : \A y \in T : ~(<<y, x>> \in R)
  BY <1>1, WFMin, Zenon
<1>4. PICK x \in T : \A y \in T : ~(<<y, x>> \in R)
  BY <1>3
<1>5. x \in Nat /\ \A y \in T : y \in Nat
  OBVIOUS
<1>6. \A y \in T : ~(y < x)
  BY <1>2, <1>4, <1>5
<1>7. \A y \in T : x <= y
  BY <1>6, <1>5
<1>8. QED
  BY <1>7

\* ... and videos have a newest one.
LEMMA NewestExists ==
    ASSUME NEW T, T \subseteq Clips, T # {}
    PROVE  Max(T) \in T /\ \A y \in T : y <= Max(T)
<1> DEFINE D == {MaxVideos - x : x \in T}
<1>0. MaxVideos \in Nat /\ \A x \in T : x \in 1..MaxVideos
  BY PollAssumption DEF Clips
<1>1. D \subseteq Nat /\ D # {}
  BY <1>0
<1>2. PICK d \in D : \A y \in D : d <= y
  BY <1>1, SmallestExists
<1>3. PICK m \in T : d = MaxVideos - m
  BY <1>2
<1>4. \A y \in T : m >= y
  <2> SUFFICES ASSUME NEW y \in T PROVE m >= y
    OBVIOUS
  <2>1. MaxVideos - m <= MaxVideos - y
    BY <1>2, <1>3
  <2>2. QED
    BY <1>0, <2>1
<1>5. \A y \in T : Max(T) >= y
  BY <1>4 DEF Max
<1>6. Max(T) \in T
  BY <1>4 DEF Max
<1>7. QED
  BY <1>0, <1>5, <1>6

-----------------------------------------------------------------------------
\* A list of no videos.
LEMMA EmptySeq == <<>> \in Seq(Clips)
OBVIOUS

\* What a poll makes of a row is a row.
LEMMA PolledRows ==
    ASSUME NEW row \in Rows, NEW new \in Seq(Clips)
    PROVE  /\ Succeeded(row, new) \in Rows
           /\ Failed(row) \in Rows
           /\ CounterReset(row) \in Rows
           /\ Counted(row) \in Rows
<1>0. /\ row = [id |-> row.id, enabled |-> row.enabled, due |-> row.due, failures |-> row.failures,
                today |-> row.today, fresh |-> row.fresh, seen |-> row.seen]
      /\ row.id \in 0..MaxRows /\ row.enabled \in BOOLEAN /\ row.due \in BOOLEAN
      /\ row.failures \in Nat /\ row.today \in Nat /\ row.fresh \in BOOLEAN /\ row.seen \in Seq(Clips)
  BY DEF Rows
<1>1. Failed(row) \in Rows
  <2> DEFINE n == Min({row.failures + 1, DisableAfter})
  <2>0. row.failures + 1 \in Int /\ DisableAfter \in Int /\ DisableAfter \in Nat
    BY <1>0, PollAssumption
  <2>1. n \in Nat
    <3>1. n = IF row.failures + 1 <= DisableAfter THEN row.failures + 1 ELSE DisableAfter
      BY <2>0, MinOfTwo, Zenon
    <3>2. QED
      BY <1>0, <2>0, <3>1
  <2> DEFINE off == IF row.failures + 1 >= DisableAfter THEN FALSE ELSE row.enabled
  <2>2. off \in BOOLEAN
    BY <1>0
  <2>3. Failed(row) = [row EXCEPT !.failures = n, !.enabled = off]
    BY DEF Failed
  <2> HIDE DEF n, off
  <2>4. QED
    BY <2>1, <2>2, <2>3 DEF Rows
<1>2. Succeeded(row, new) \in Rows
  <2> DEFINE all == new \o row.seen
             n   == Min({SeenMax, Len(new) + Len(row.seen)})
  <2>1. all \in Seq(Clips) /\ Len(all) = Len(new) + Len(row.seen)
    BY <1>0
  <2>2. SeenMax \in Nat /\ SeenMax \in Int /\ Len(new) + Len(row.seen) \in Nat
        /\ Len(new) + Len(row.seen) \in Int
    BY <1>0, PollAssumption
  <2>3. n = IF SeenMax <= Len(new) + Len(row.seen) THEN SeenMax ELSE Len(new) + Len(row.seen)
    BY <2>2, MinOfTwo, Zenon
  <2>4. Succeeded(row, new) = [row EXCEPT !.due = FALSE, !.failures = 0, !.seen = SubSeq(all, 1, n)]
    BY DEF Succeeded
  <2> HIDE DEF all, n
  <2>5. n \in 0 .. Len(all)
    BY <2>1, <2>2, <2>3
  <2>6. SubSeq(all, 1, n) \in Seq(Clips)
    BY <2>1, <2>5
  <2> DEFINE kept == SubSeq(all, 1, n)
  <2> HIDE DEF kept
  <2>7. Succeeded(row, new) = [id |-> row.id, enabled |-> row.enabled, due |-> FALSE, failures |-> 0,
                               today |-> row.today, fresh |-> row.fresh, seen |-> kept]
    BY <1>0, <2>4 DEF kept
  <2>8. QED
    BY <1>0, <2>6, <2>7 DEF Rows, kept
<1>3. CounterReset(row) \in Rows
  BY DEF CounterReset, Rows
<1>4. Counted(row) \in Rows
  BY DEF Counted, Rows
<1>5. QED
  BY <1>1, <1>2, <1>3, <1>4

\* The row that a commit writes, column by column.
LEMMA WrittenColumns ==
    ASSUME NEW now \in Rows, NEW old \in Rows, NEW new \in Rows
    PROVE  LET row == [f \in DOMAIN now |-> IF new[f] = old[f] THEN now[f] ELSE new[f]]
           IN  row = [id       |-> IF new.id = old.id THEN now.id ELSE new.id,
                      enabled  |-> IF new.enabled = old.enabled THEN now.enabled ELSE new.enabled,
                      due      |-> IF new.due = old.due THEN now.due ELSE new.due,
                      failures |-> IF new.failures = old.failures THEN now.failures ELSE new.failures,
                      today    |-> IF new.today = old.today THEN now.today ELSE new.today,
                      fresh    |-> IF new.fresh = old.fresh THEN now.fresh ELSE new.fresh,
                      seen     |-> IF new.seen = old.seen THEN now.seen ELSE new.seen]
BY DEF Rows

\* What is kept of the ids was there, or is new.
LEMMA KeptIds ==
    ASSUME NEW row \in Rows, NEW new \in Seq(Clips)
    PROVE  Seen(Succeeded(row, new)) \subseteq ToSet(new) \cup Seen(row)
<1> DEFINE all == new \o row.seen
           n   == Min({SeenMax, Len(new) + Len(row.seen)})
<1>1. row.seen \in Seq(Clips)
  BY DEF Rows
<1>2. /\ all \in Seq(Clips) /\ Len(all) = Len(new) + Len(row.seen)
      /\ \A i \in 1 .. Len(all) : all[i] = IF i <= Len(new) THEN new[i] ELSE row.seen[i - Len(new)]
  BY <1>1
<1>3. SeenMax \in Nat /\ SeenMax \in Int /\ Len(new) + Len(row.seen) \in Nat
      /\ Len(new) + Len(row.seen) \in Int
  BY <1>1, PollAssumption
<1>4. n = IF SeenMax <= Len(new) + Len(row.seen) THEN SeenMax ELSE Len(new) + Len(row.seen)
  BY <1>3, MinOfTwo, Zenon
<1>5. Succeeded(row, new).seen = SubSeq(all, 1, n)
  BY DEF Succeeded, Rows
<1> HIDE DEF all, n
<1>6. n \in 0 .. Len(all)
  BY <1>2, <1>3, <1>4
<1>7. Len(SubSeq(all, 1, n)) = n /\ \A i \in 1 .. n : SubSeq(all, 1, n)[i] = all[i]
  BY <1>2, <1>6
<1>8. SubSeq(all, 1, n) \in Seq(Clips)
  BY <1>2, <1>6
<1> DEFINE kept == SubSeq(all, 1, n)
<1> HIDE DEF kept
<1>9. \A i \in DOMAIN kept : i \in 1 .. Len(all) /\ kept[i] = all[i]
  BY <1>6, <1>7, <1>8, <1>2 DEF kept
<1>10. ASSUME NEW i \in DOMAIN kept PROVE kept[i] \in ToSet(new) \cup Seen(row)
  <2>1. i \in 1 .. Len(all) /\ kept[i] = all[i]
    BY <1>9
  <2>2. CASE i <= Len(new)
    BY <1>2, <2>1, <2>2 DEF ToSet
  <2>3. CASE ~(i <= Len(new))
    <3>1. i - Len(new) \in 1 .. Len(row.seen) /\ kept[i] = row.seen[i - Len(new)]
      BY <1>1, <1>2, <2>1, <2>3
    <3>2. QED
      BY <1>1, <3>1 DEF ToSet, Seen
  <2>4. QED
    BY <2>2, <2>3
<1>11. QED
  BY <1>5, <1>10 DEF kept, ToSet, Seen

-----------------------------------------------------------------------------
(***************************************************************************)
(* Types.                                                                  *)
(***************************************************************************)
\* A commit writes rows.
LEMMA WrittenRows ==
    ASSUME TypeInv, NEW copy \in [Subs -> Rows], ~At("idle")
    PROVE  Written(copy) \in [Subs -> Rows]
<1>1. rows \in [Subs -> Rows] /\ poll.loaded \in [Subs -> Rows]
  BY DEF TypeInv, RunOK, At
<1> SUFFICES ASSUME NEW s \in Subs PROVE Written(copy)[s] \in Rows
  BY DEF Written
<1> DEFINE row == [f \in DOMAIN rows[s] |-> IF copy[s][f] = poll.loaded[s][f] THEN rows[s][f]
                                                                         ELSE copy[s][f]]
<1>2. Written(copy)[s] = IF copy[s] = poll.loaded[s] THEN rows[s] ELSE row
  BY DEF Written
<1>3. rows[s] \in Rows /\ copy[s] \in Rows /\ poll.loaded[s] \in Rows
  BY <1>1
<1>4. row \in Rows
  BY <1>3, WrittenColumns DEF Rows
<1>5. QED
  BY <1>2, <1>3, <1>4

\* A commit leaves rows, items and run with their types, whether it is matched or fails.
LEMMA CommitTypes ==
    ASSUME TypeInv, ~At("idle"), NEW copy \in [Subs -> Rows], NEW next, NEW lane,
           RunOK([next EXCEPT !.loaded = copy, !.copy = copy]),
           lane \in [LaneWatches -> SUBSET Clips],
           Commit(copy, next, lane)
    PROVE  rows' \in [Subs -> Rows] /\ items' \in [LaneWatches -> SUBSET Clips] /\ RunOK(poll')
<1>1. RunOK(NoRun)
  BY DEF RunOK, Runs, NoRun, Phases
<1>2. QED
  BY <1>1, WrittenRows DEF Commit, TypeInv

\* The run in progress, and its row.
LEMMA RunHasRows ==
    ASSUME TypeInv, ~At("idle")
    PROVE  /\ poll.loaded \in [Subs -> Rows] /\ poll.copy \in [Subs -> Rows]
           /\ poll \in Runs /\ RunOK(NoRun)
           /\ ~At("next") => poll.sub \in Subs /\ Row \in Rows
           /\ \A slots \in Int : RunOK(Leaves(slots))
<1>1. RunOK(NoRun)
  BY DEF RunOK, Runs, NoRun, Phases
<1>2. /\ poll.loaded \in [Subs -> Rows] /\ poll.copy \in [Subs -> Rows] /\ poll \in Runs
      /\ ~At("next") => poll.sub \in Subs /\ Row \in Rows
  BY DEF TypeInv, RunOK, At, Row, Runs, Phases
<1>3. ASSUME NEW slots \in Int PROVE RunOK(Leaves(slots))
  <2>1. NoRun \in Runs
    BY <1>1 DEF RunOK
  <2>2. Leaves(slots) \in Runs /\ Leaves(slots).phase = "next"
        /\ Leaves(slots).loaded = poll.loaded /\ Leaves(slots).copy = poll.copy
    BY <1>2, <2>1 DEF Leaves, Runs, Phases
  <2>3. QED
    BY <1>2, <2>2 DEF RunOK
<1>4. QED
  BY <1>1, <1>2, <1>3

\* Ends of the poll of a subscription, which commit its row.
LEMMA LeavesTypes ==
    ASSUME TypeInv, ~At("idle"), ~At("next"), NEW row \in Rows, NEW slots \in Int,
           Commit(CopyWith(row), Leaves(slots), items)
    PROVE  rows' \in [Subs -> Rows] /\ items' \in [LaneWatches -> SUBSET Clips] /\ RunOK(poll')
<1>1. CopyWith(row) \in [Subs -> Rows]
  BY RunHasRows DEF CopyWith
<1>2. RunOK(Leaves(slots)) /\ Leaves(slots).phase = "next"
  BY RunHasRows DEF Leaves, NoRun
<1>3. RunOK([Leaves(slots) EXCEPT !.loaded = CopyWith(row), !.copy = CopyWith(row)])
  BY <1>1, <1>2 DEF RunOK, Runs
<1>4. QED
  BY <1>1, <1>3, CommitTypes DEF TypeInv

\* Commits within the poll of a subscription.
LEMMA GoesTypes ==
    ASSUME TypeInv, ~At("idle"), NEW next, RunOK(next), next.phase # "idle",
           NEW lane \in [LaneWatches -> SUBSET Clips],
           Commit(poll.copy, next, lane)
    PROVE  rows' \in [Subs -> Rows] /\ items' \in [LaneWatches -> SUBSET Clips] /\ RunOK(poll')
<1>1. poll.copy \in [Subs -> Rows]
  BY RunHasRows
<1>2. RunOK([next EXCEPT !.loaded = poll.copy, !.copy = poll.copy])
  BY <1>1 DEF RunOK, Runs
<1>3. QED
  BY <1>1, <1>2, CommitTypes

\* The subscriptions of a run are a sequence of them.
LEMMA LoadsTypes ==
    ASSUME NEW S \in SUBSET Subs, NEW todo \in Loads(S)
    PROVE  todo \in Seq(Subs)
<1> DEFINE T == {s \in S : rows[s].id # 0}
<1>1. IsFiniteSet(T) /\ Cardinality(T) \in Nat
  <2>1. IsFiniteSet(Subs)
    BY PollAssumption DEF Subs
  <2>2. IsFiniteSet(T)
    BY <2>1, FS_Subset
  <2>3. QED
    BY <2>2, FS_CardinalityType
<1>2. todo \in [1 .. Cardinality(T) -> T]
  BY DEF Loads, SetToSeqs
<1> DEFINE n == Cardinality(T)
<1>3. todo \in [1 .. n -> Subs] /\ n \in Nat
  BY <1>1, <1>2
<1> HIDE DEF n
<1>4. QED
  BY <1>3

\* An entry is a video.
LEMMA EntryIsOne ==
    ASSUME TypeInv, HasEntry
    PROVE  /\ Entry \in poll.entries /\ Entry \in Clips /\ At("entries") /\ ~At("idle") /\ ~At("next")
           /\ \A y \in poll.entries : y <= Entry
<1>1. poll.entries \subseteq Clips /\ poll.entries # {} /\ At("entries")
  BY DEF TypeInv, RunOK, Runs, HasEntry
<1>2. QED
  BY <1>1, NewestExists DEF Entry, At

\* The queries of a run.
LEMMA QueryTypes ==
    ASSUME TypeInv, Begin \/ Skip \/ Take \/ Stop
    PROVE  RunOK(poll')
<1>1. ASSUME Begin PROVE RunOK(poll')
  <2>1. PICK todo \in Loads(Watches) :
          poll' = [NoRun EXCEPT !.phase = "next", !.todo = todo, !.slots = MaxPerRun,
                                !.loaded = rows, !.copy = rows]
    BY <1>1 DEF Begin
  <2>2. todo \in Seq(Subs)
    BY LoadsTypes DEF Subs
  <2>3. rows \in [Subs -> Rows] /\ MaxPerRun \in Int
    BY PollAssumption DEF TypeInv
  <2>4. NoRun \in Runs
    BY DEF Runs, NoRun, Phases
  <2>5. poll' \in Runs /\ poll'.phase = "next" /\ poll'.loaded = rows /\ poll'.copy = rows
    BY <2>1, <2>2, <2>3, <2>4 DEF Runs, Phases
  <2>6. QED
    BY <2>3, <2>5 DEF RunOK
<1>2. ASSUME Skip \/ Take PROVE RunOK(poll')
  <2>1. poll \in Runs /\ poll.loaded \in [Subs -> Rows] /\ poll.copy \in [Subs -> Rows] /\ poll.phase = "next"
    BY <1>2, RunHasRows DEF Skip, Take, At
  <2>2. poll.todo \in Seq(Subs) /\ poll.todo # <<>>
    BY <1>2, <2>1 DEF Skip, Take, Runs
  <2>3. Tail(poll.todo) \in Seq(Subs) /\ Head(poll.todo) \in Subs
    BY <2>2
  <2>4. QED
    BY <1>2, <2>1, <2>3 DEF Skip, Take, RunOK, Runs, Phases
<1>3. ASSUME Stop PROVE RunOK(poll')
  <2>1. poll \in Runs /\ poll.loaded \in [Subs -> Rows] /\ poll.copy \in [Subs -> Rows] /\ poll.phase = "next"
    BY <1>3, RunHasRows DEF Stop, At
  <2> DEFINE loaded == [s \in Subs |-> IF s \in LaneWatches THEN rows[s] ELSE poll.loaded[s]]
             copy   == [s \in Subs |-> IF s \in LaneWatches THEN rows[s] ELSE poll.copy[s]]
  <2>2. PICK todo \in Loads(LaneWatches) :
          poll' = IF poll.lanes THEN NoRun
                  ELSE [poll EXCEPT !.lanes = TRUE, !.todo = todo, !.loaded = loaded, !.copy = copy]
    BY <1>3 DEF Stop
  <2>3. todo \in Seq(Subs)
    BY LoadsTypes DEF Subs
  <2>4. loaded \in [Subs -> Rows] /\ copy \in [Subs -> Rows]
    BY <2>1 DEF TypeInv
  <2> HIDE DEF loaded, copy
  <2>5. RunOK(NoRun)
    BY <1>3, RunHasRows DEF Stop, At
  <2>6. QED
    BY <2>1, <2>2, <2>3, <2>4, <2>5 DEF RunOK, Runs, Phases
<1>4. QED
  BY <1>1, <1>2, <1>3

\* The ends of the poll of a subscription.
LEMMA EndTypes ==
    ASSUME TypeInv, FeedFails \/ FeedHasNothing \/ SubmitFails \/ Finish
    PROVE  rows' \in [Subs -> Rows] /\ items' \in [LaneWatches -> SUBSET Clips] /\ RunOK(poll')
<1>1. ~At("idle") /\ ~At("next")
  BY DEF FeedFails, FeedHasNothing, SubmitFails, Finish, At
<1>2. /\ poll \in Runs /\ Row \in Rows
      /\ poll.slots \in Int /\ poll.counted \in Int
      /\ poll.took \in Seq(Clips) /\ poll.rejected \in Seq(Clips)
  BY <1>1, RunHasRows DEF Runs
<1>3. <<>> \in Seq(Clips) /\ Marked \in Seq(Clips)
  BY <1>2 DEF Marked
<1>4. Failed(Row) \in Rows /\ Succeeded(Row, <<>>) \in Rows /\ Succeeded(Row, Marked) \in Rows
  BY <1>2, <1>3, PolledRows
<1>5. \E row \in Rows, slots \in Int : Commit(CopyWith(row), Leaves(slots), items)
  <2>1. CASE FeedFails
    BY <1>2, <1>4, <2>1 DEF FeedFails
  <2>2. CASE FeedHasNothing
    BY <1>2, <1>4, <2>2 DEF FeedHasNothing
  <2>3. CASE Finish
    <3>1. poll.slots - poll.counted \in Int
      BY <1>2
    <3>2. QED
      BY <1>4, <2>3, <3>1 DEF Finish
  <2>4. CASE SubmitFails
    <3> DEFINE slots == IF InLane THEN poll.slots - poll.counted ELSE poll.slots
    <3>1. slots \in Int
      BY <1>2
    <3>2. Commit(CopyWith(Failed(Row)), Leaves(slots), items)
      BY <2>4 DEF SubmitFails
    <3> HIDE DEF slots
    <3>3. QED
      BY <1>4, <3>1, <3>2
  <2>5. QED
    BY <2>1, <2>2, <2>3, <2>4
<1>6. QED
  BY <1>1, <1>5, LeavesTypes

\* Feeds are of videos.
LEMMA NewEntriesAreClips ==
    ASSUME TypeInv
    PROVE  NewEntries \subseteq Clips
<1>1. DOMAIN uploads = 1 .. Len(uploads) /\ Len(uploads) \in Nat /\ Len(uploads) <= MaxVideos
  BY DEF TypeInv
<1>2. Uploaded \subseteq Clips
  BY <1>1, PollAssumption DEF Uploaded, Clips
<1>3. QED
  BY <1>2 DEF NewEntries, Feed

\* The steps between the feed and the end of a poll.
LEMMA EntryTypes ==
    ASSUME TypeInv,
           \/ FeedHasEntries \/ Reject \/ Defer \/ AlreadyAttached \/ Attach
           \/ Tag \/ LaneItem \/ CountEntry \/ Blocked \/ RunKilled
    PROVE  rows' \in [Subs -> Rows] /\ items' \in [LaneWatches -> SUBSET Clips] /\ RunOK(poll')
<1>1. ~At("idle") /\ (~RunKilled => ~At("next"))
  BY DEF FeedHasEntries, Reject, Defer, AlreadyAttached, Attach, Tag, LaneItem, CountEntry, Blocked,
      RunKilled, HasEntry, At
<1>2. /\ poll \in Runs /\ poll.loaded \in [Subs -> Rows] /\ poll.copy \in [Subs -> Rows]
      /\ RunOK(NoRun) /\ RunOK(poll)
      /\ rows \in [Subs -> Rows] /\ items \in [LaneWatches -> SUBSET Clips]
  BY <1>1, RunHasRows DEF TypeInv
<1>3. ~RunKilled => poll.sub \in Subs /\ Row \in Rows
  BY <1>1, RunHasRows
<1>4. CASE FeedHasEntries
  <2> DEFINE row == CounterReset(Row)
             found == Newest(Allowed(row), NewEntries)
  <2>1. At("fetch") /\ row \in Rows /\ poll.sub \in Subs
    <3>1. At("fetch") /\ ~At("next")
      BY <1>4 DEF FeedHasEntries, At
    <3>2. poll.sub \in Subs /\ Row \in Rows
      BY <1>1, <3>1, RunHasRows
    <3>3. row \in Rows
      BY <3>2, EmptySeq, PolledRows
    <3>4. QED
      BY <3>1, <3>2, <3>3
  <2>2. CopyWith(row) \in [Subs -> Rows]
    BY <1>2, <2>1 DEF CopyWith
  <2>3. found \in SUBSET Clips
    BY NewEntriesAreClips DEF Newest
  <2>4. \/ poll' = [Leaves(poll.slots) EXCEPT !.copy = CopyWith(row)]
        \/ poll' = [Goes("entries") EXCEPT !.copy = CopyWith(row), !.entries = found]
    BY <1>4 DEF FeedHasEntries
  <2> HIDE DEF row, found
  <2>5. ASSUME poll' = [Leaves(poll.slots) EXCEPT !.copy = CopyWith(row)] PROVE RunOK(poll')
    <3>1. RunOK(Leaves(poll.slots)) /\ Leaves(poll.slots).phase = "next"
      BY <1>1, <1>2, RunHasRows DEF Runs, Leaves, NoRun
    <3>2. QED
      BY <2>2, <2>5, <3>1 DEF RunOK, Runs
  <2>6. ASSUME poll' = [Goes("entries") EXCEPT !.copy = CopyWith(row), !.entries = found] PROVE RunOK(poll')
    BY <1>2, <2>1, <2>2, <2>3, <2>6 DEF RunOK, Runs, Phases, Goes
  <2>7. QED
    BY <1>2, <1>4, <2>4, <2>5, <2>6 DEF FeedHasEntries
<1>5. CASE Reject \/ Defer \/ AlreadyAttached
  <2>1. Entry \in Clips /\ poll.sub \in Subs /\ poll.phase = "entries"
    BY <1>1, <1>5, EntryIsOne, RunHasRows DEF Reject, Defer, AlreadyAttached, At
  <2>2. poll.rejected \in Seq(Clips)
    BY <1>2 DEF Runs
  <2>3. Append(poll.rejected, Entry) \in Seq(Clips)
    BY <2>1, <2>2
  <2>4. Without(Entry) \in Runs /\ Without(Entry).phase = "entries" /\ Without(Entry).sub = poll.sub
        /\ Without(Entry).copy = poll.copy /\ Without(Entry).loaded = poll.loaded
    BY <1>2, <2>1 DEF Without, Runs
  <2>5. ASSUME poll' = [Without(Entry) EXCEPT !.rejected = Append(@, Entry)] PROVE RunOK(poll')
    <3>1. poll' = [Without(Entry) EXCEPT !.rejected = Append(poll.rejected, Entry)]
      BY <1>2, <2>5 DEF Without, Runs
    <3>2. QED
      BY <1>2, <2>1, <2>3, <2>4, <3>1 DEF RunOK, Runs
  <2>6. ASSUME poll' = Without(Entry) PROVE RunOK(poll')
    BY <1>2, <2>1, <2>4, <2>6 DEF RunOK
  <2>7. ASSUME poll' = [Without(Entry) EXCEPT !.phase = "attached", !.video = Entry] PROVE RunOK(poll')
    BY <1>2, <2>1, <2>4, <2>7 DEF RunOK, Runs, Phases
  <2>8. QED
    BY <1>2, <1>5, <2>5, <2>6, <2>7 DEF Reject, Defer, AlreadyAttached, Deferred
<1>6. CASE Attach
  <2>1. Entry \in Clips /\ poll.sub \in Subs /\ poll.phase = "entries"
    BY <1>1, <1>6, EntryIsOne, RunHasRows DEF Attach, At
  <2>2. Without(Entry) \in Runs /\ Without(Entry).phase = "entries" /\ Without(Entry).sub = poll.sub
        /\ Without(Entry).copy = poll.copy /\ Without(Entry).loaded = poll.loaded
    BY <1>2, <2>1 DEF Without, Runs
  <2> DEFINE next == [Without(Entry) EXCEPT !.phase = "attached", !.video = Entry]
             lane == [items EXCEPT ![poll.sub] = @ \cup {Entry}]
  <2>3. RunOK(next) /\ next.phase # "idle"
    BY <1>2, <2>1, <2>2 DEF RunOK, Runs, Phases
  <2>4. lane \in [LaneWatches -> SUBSET Clips]
    BY <1>2, <2>1
  <2>5. Commit(poll.copy, next, lane)
    BY <1>6 DEF Attach
  <2> HIDE DEF next, lane
  <2>6. QED
    BY <1>1, <2>3, <2>4, <2>5, GoesTypes
<1>7. CASE Tag
  <2>1. poll.phase = "answered" /\ poll.video \in Clips /\ poll.sub \in Subs
    BY <1>1, <1>2, <1>7, RunHasRows DEF Tag, At, RunOK
  <2>2. RunOK(Goes("tagged")) /\ Goes("tagged").phase # "idle"
    BY <1>2, <2>1 DEF Goes, RunOK, Runs, Phases
  <2>3. QED
    BY <1>1, <1>2, <1>7, <2>2, GoesTypes DEF Tag
<1>8. CASE LaneItem
  <2>1. poll.phase = "tagged" /\ poll.video \in Clips /\ poll.sub \in Subs
    BY <1>1, <1>2, <1>8, RunHasRows DEF LaneItem, At, RunOK
  <2> DEFINE next == [poll EXCEPT !.phase = "attached", !.counted = @ + 1]
             lane == [items EXCEPT ![poll.sub] = @ \cup {poll.video}]
  <2>0. poll.counted + 1 \in Nat
    BY <1>2 DEF Runs
  <2>2. RunOK(next) /\ next.phase # "idle"
    BY <1>2, <2>0, <2>1 DEF RunOK, Runs, Phases
  <2>3. lane \in [LaneWatches -> SUBSET Clips]
    BY <1>2, <2>1
  <2>4. Commit(poll.copy, next, lane)
    BY <1>8 DEF LaneItem
  <2> HIDE DEF next, lane
  <2>5. QED
    BY <1>1, <2>2, <2>3, <2>4, GoesTypes
<1>9. CASE CountEntry \/ Blocked
  <2>1. poll.phase \in {"answered", "tagged", "attached"} /\ poll.video \in Clips /\ poll.sub \in Subs
        /\ Row \in Rows
    BY <1>1, <1>2, <1>9, RunHasRows DEF CountEntry, Blocked, At, RunOK
  <2>0. Counted(Row) \in Rows
    BY <2>1, EmptySeq, PolledRows
  <2>2. CopyWith(Counted(Row)) \in [Subs -> Rows]
    BY <1>2, <2>0, <2>1 DEF CopyWith
  <2>3. Append(poll.took, poll.video) \in Seq(Clips)
    <3>1. poll.took \in Seq(Clips)
      BY <1>2 DEF Runs
    <3>2. QED
      BY <2>1, <3>1
  <2> DEFINE copy == CopyWith(Counted(Row))
             took == Append(poll.took, poll.video)
             counted == IF InLane THEN poll.counted ELSE poll.counted + 1
  <2>4. counted \in Nat
    BY <1>2 DEF Runs
  <2>5. \/ poll' = [poll EXCEPT !.phase = "entries", !.copy = copy, !.took = took, !.video = 0,
                               !.answer = "none", !.counted = counted]
        \/ poll' = [poll EXCEPT !.phase = "entries", !.took = took, !.video = 0, !.answer = "none"]
    BY <1>2, <1>9 DEF CountEntry, Blocked, Runs
  <2>6. copy \in [Subs -> Rows] /\ took \in Seq(Clips)
    BY <2>2, <2>3
  <2> HIDE DEF copy, took, counted
  <2>7. RunOK(poll')
    <3>1. CASE poll' = [poll EXCEPT !.phase = "entries", !.copy = copy, !.took = took, !.video = 0,
                                    !.answer = "none", !.counted = counted]
      <4>1. poll' \in Runs /\ poll'.sub = poll.sub /\ poll'.phase = "entries"
            /\ poll'.loaded = poll.loaded /\ poll'.copy = copy
        BY <1>2, <2>4, <2>6, <3>1 DEF Runs, Phases
      <4>2. QED
        BY <1>2, <2>1, <2>6, <4>1 DEF RunOK
    <3>2. CASE poll' = [poll EXCEPT !.phase = "entries", !.took = took, !.video = 0, !.answer = "none"]
      <4>1. poll' \in Runs /\ poll'.sub = poll.sub /\ poll'.phase = "entries"
            /\ poll'.loaded = poll.loaded /\ poll'.copy = poll.copy
        BY <1>2, <2>6, <3>2 DEF Runs, Phases
      <4>2. QED
        BY <1>2, <2>1, <4>1 DEF RunOK
    <3>3. QED
      BY <2>5, <3>1, <3>2
  <2>8. QED
    BY <1>2, <1>9, <2>7 DEF CountEntry, Blocked
<1>10. CASE RunKilled
  BY <1>2, <1>10 DEF RunKilled
<1>11. QED
  BY <1>4, <1>5, <1>6, <1>7, <1>8, <1>9, <1>10

\* What the answer to a submission can be, and what each does.
LEMMA SubmitCases ==
    ASSUME TypeInv, Submit
    PROVE  \E answer \in {"ok", "error", "blocked"}, state \in {"none", "active", "completed", "failed", "review"} :
             /\ poll' = [Without(Entry) EXCEPT !.phase = "answered", !.video = Entry, !.answer = answer,
                            !.posted = IF state = work[Entry] THEN @ ELSE @ + 1]
             /\ slips' = slips + (IF answer = "error" /\ state # work[Entry] THEN 1 ELSE 0)
             /\ work' = [work EXCEPT ![Entry] = state]
             /\ made' = [made EXCEPT ![poll.sub] = IF state = work[Entry] THEN @ ELSE @ + 1]
             /\ state # work[Entry] => state = "active" /\ work[Entry] \in {"none", "failed"}
             /\ answer = "ok" => state \in {"active", "completed"}
             /\ answer = "blocked" => state = "review"
<1>1. HasEntry /\ Entry \in Clips
  BY EntryIsOne DEF Submit
<1>2. work[Entry] \in {"none", "active", "completed", "failed", "review"}
  BY <1>1 DEF TypeInv
<1>3. QED
  BY <1>2 DEF Submit

\* A submission keeps the types.
LEMMA SubmitTypes ==
    ASSUME TypeInv, Submit
    PROVE  /\ work' \in [Clips -> {"none", "active", "completed", "failed", "review"}]
           /\ made' \in [Subs -> Nat] /\ slips' \in Nat /\ RunOK(poll')
<1>1. PICK answer \in {"ok", "error", "blocked"}, state \in {"none", "active", "completed", "failed", "review"} :
         /\ poll' = [Without(Entry) EXCEPT !.phase = "answered", !.video = Entry, !.answer = answer,
                        !.posted = IF state = work[Entry] THEN @ ELSE @ + 1]
         /\ slips' = slips + (IF answer = "error" /\ state # work[Entry] THEN 1 ELSE 0)
         /\ work' = [work EXCEPT ![Entry] = state]
         /\ made' = [made EXCEPT ![poll.sub] = IF state = work[Entry] THEN @ ELSE @ + 1]
  BY SubmitCases
<1>2. HasEntry /\ Entry \in Clips /\ At("entries") /\ ~At("idle") /\ ~At("next")
  BY EntryIsOne DEF Submit
<1>3. /\ poll \in Runs /\ poll.loaded \in [Subs -> Rows] /\ poll.copy \in [Subs -> Rows]
      /\ poll.sub \in Subs /\ poll.posted \in Nat
  BY <1>2, RunHasRows DEF Runs
<1>4. made \in [Subs -> Nat] /\ slips \in Nat
      /\ work \in [Clips -> {"none", "active", "completed", "failed", "review"}]
  BY DEF TypeInv
<1> DEFINE posted == IF state = work[Entry] THEN poll.posted ELSE poll.posted + 1
<1>5. posted \in Nat
  BY <1>3
<1>6. poll' = [Without(Entry) EXCEPT !.phase = "answered", !.video = Entry, !.answer = answer, !.posted = posted]
  BY <1>1, <1>3 DEF Without, Runs
<1> HIDE DEF posted
<1>7. Without(Entry) \in Runs /\ Without(Entry).sub = poll.sub
      /\ Without(Entry).copy = poll.copy /\ Without(Entry).loaded = poll.loaded
  BY <1>3 DEF Without, Runs
<1>8. RunOK(poll')
  BY <1>2, <1>3, <1>5, <1>6, <1>7 DEF RunOK, Runs, Phases
<1>9. made' \in [Subs -> Nat]
  BY <1>1, <1>3, <1>4
<1>10. slips' \in Nat
  BY <1>1, <1>4
<1>11. QED
  BY <1>1, <1>4, <1>8, <1>9, <1>10

\* A run is in order or not whatever becomes of the world.
LEMMA WorldTypes ==
    ASSUME TypeInv, World
    PROVE  TypeInv'
<1>1. /\ uploads \in Seq(Channels) /\ Len(uploads) <= MaxVideos
      /\ kind \in [Clips -> {"regular", "short", "upcoming"}]
      /\ work \in [Clips -> {"none", "active", "completed", "failed", "review"}]
      /\ items \in [LaneWatches -> SUBSET Clips]
      /\ rows \in [Subs -> Rows] /\ made \in [Subs -> Nat] /\ slips \in Nat
      /\ held \in [LaneWatches -> SUBSET Clips] /\ RunOK(poll)
  BY DEF TypeInv
<1>2. NewRow(0) \in Rows /\ NewRow(MaxRows) \in Rows
  BY EmptySeq, PollAssumption DEF NewRow, Rows
<1>3. ASSUME UNCHANGED poll PROVE RunOK(poll')
  BY <1>1, <1>3
<1>4. ASSUME NEW c \in Channels, NEW k \in {"regular", "short", "upcoming"}, Upload(c, k)
      PROVE  TypeInv'
  <2>1. uploads' \in Seq(Channels) /\ Len(uploads') <= MaxVideos
    <3>1. Len(uploads') = Len(uploads) + 1 /\ uploads' \in Seq(Channels)
      BY <1>1, <1>4 DEF Upload
    <3>2. Len(uploads) < MaxVideos /\ Len(uploads) \in Nat /\ MaxVideos \in Nat
      BY <1>1, <1>4, PollAssumption DEF Upload
    <3>3. QED
      BY <3>1, <3>2
  <2>2. kind' \in [Clips -> {"regular", "short", "upcoming"}]
    BY <1>1, <1>4 DEF Upload
  <2>3. QED
    BY <1>1, <1>3, <1>4, <2>1, <2>2 DEF Upload, TypeInv
<1>5. ASSUME NEW v \in Clips, Airs(v) \/ PipelineEnds(v) \/ PersonRetries(v) PROVE TypeInv'
  <2>1. kind' \in [Clips -> {"regular", "short", "upcoming"}]
    BY <1>1, <1>5 DEF Airs, PipelineEnds, PersonRetries
  <2>2. work' \in [Clips -> {"none", "active", "completed", "failed", "review"}]
    BY <1>1, <1>5 DEF Airs, PipelineEnds, PersonRetries
  <2>3. QED
    BY <1>1, <1>3, <1>5, <2>1, <2>2 DEF Airs, PipelineEnds, PersonRetries, TypeInv
<1>6. ASSUME NewDay PROVE TypeInv'
  <2>1. rows' \in [Subs -> Rows]
    <3>1. \A s \in Subs : [rows[s] EXCEPT !.fresh = FALSE] \in Rows
      BY <1>1 DEF Rows
    <3>2. QED
      BY <1>6, <3>1 DEF NewDay
  <2>2. made' \in [Subs -> Nat] /\ slips' \in Nat
    BY <1>6 DEF NewDay
  <2>3. QED
    BY <1>1, <1>3, <1>6, <2>1, <2>2 DEF NewDay, TypeInv
<1>7. ASSUME NEW s \in Subs, BecomesDue(s) \/ Enable(s) \/ Disable(s) \/ ResetFailures(s)
      PROVE  TypeInv'
  <2>1. /\ [rows[s] EXCEPT !.due = TRUE] \in Rows
        /\ [rows[s] EXCEPT !.enabled = TRUE] \in Rows
        /\ [rows[s] EXCEPT !.enabled = FALSE] \in Rows
        /\ [rows[s] EXCEPT !.failures = 0] \in Rows
    BY <1>1 DEF Rows
  <2>2. \E row \in Rows : rows' = [rows EXCEPT ![s] = row]
    BY <1>7, <2>1 DEF BecomesDue, Enable, Disable, ResetFailures
  <2>3. rows' \in [Subs -> Rows]
    BY <1>1, <2>2
  <2>4. QED
    BY <1>1, <1>3, <1>7, <2>3 DEF BecomesDue, Enable, Disable, ResetFailures, TypeInv
<1>8. ASSUME NEW s \in Subs, DeleteRow(s) \/ Subscribe(s) PROVE TypeInv'
  <2>1. rows' \in [Subs -> Rows]
    BY <1>1, <1>2, <1>8 DEF DeleteRow, Subscribe
  <2>2. made' \in [Subs -> Nat]
    BY <1>1, <1>8 DEF DeleteRow, Subscribe
  <2>3. QED
    BY <1>1, <1>3, <1>8, <2>1, <2>2 DEF DeleteRow, Subscribe, TypeInv
<1>9. QED
  BY <1>4, <1>5, <1>6, <1>7, <1>8 DEF World

\* What a lane was told it keeps, and is told of one video more.
LEMMA HeldTypes ==
    ASSUME TypeInv, Blocked
    PROVE  /\ held' \in [LaneWatches -> SUBSET Clips]
           /\ \A s \in LaneWatches : held[s] \subseteq held'[s]
           /\ InLane => poll.video \in held'[poll.sub]
<1>1. held \in [LaneWatches -> SUBSET Clips] /\ poll.video \in Clips
  BY DEF TypeInv, RunOK, Blocked, At
<1>2. CASE InLane
  <2>1. held' = [held EXCEPT ![poll.sub] = @ \cup {poll.video}]
    BY <1>2 DEF Blocked
  <2>2. poll.sub \in LaneWatches
    BY <1>2 DEF InLane
  <2>3. QED
    BY <1>1, <2>1, <2>2
<1>3. CASE ~InLane
  BY <1>1, <1>3 DEF Blocked
<1>4. QED
  BY <1>2, <1>3

\* The type invariant holds at first, and every step keeps it.
LEMMA PollTypes ==
    /\ PollInit => TypeInv
    /\ TypeInv /\ [PollNext]_pollVars => TypeInv'
<1>1. ASSUME PollInit PROVE TypeInv
  <2>1. NewRow(0) \in Rows /\ NewRow(1) \in Rows
    BY EmptySeq, PollAssumption DEF NewRow, Rows
  <2>2. rows \in [Subs -> Rows]
    BY <1>1, <2>1 DEF PollInit
  <2>3. RunOK(NoRun)
    BY DEF RunOK, Runs, NoRun, Phases
  <2>4. uploads \in Seq(Channels) /\ Len(uploads) <= MaxVideos
    BY <1>1, PollAssumption DEF PollInit
  <2>5. QED
    BY <1>1, <2>2, <2>3, <2>4 DEF PollInit, TypeInv
<1>2. ASSUME TypeInv, [PollNext]_pollVars PROVE TypeInv'
  <2>1. ASSUME Begin \/ Skip \/ Take \/ Stop PROVE TypeInv'
    <3>1. RunOK(poll') /\ UNCHANGED <<uploads, kind, work, items, rows, made, slips, edits, held>>
      BY <1>2, <2>1, QueryTypes DEF Begin, Skip, Take, Stop
    <3>2. QED
      BY <1>2, <3>1 DEF TypeInv
  <2>2. ASSUME FeedFails \/ FeedHasNothing \/ SubmitFails \/ Finish PROVE TypeInv'
    <3>1. UNCHANGED <<uploads, kind, work, made, slips, edits, held>>
      BY <2>2 DEF FeedFails, FeedHasNothing, SubmitFails, Finish
    <3>2. rows' \in [Subs -> Rows] /\ items' \in [LaneWatches -> SUBSET Clips] /\ RunOK(poll')
      BY <1>2, <2>2, EndTypes
    <3>3. QED
      BY <1>2, <3>1, <3>2 DEF TypeInv
  <2>3. ASSUME \/ FeedHasEntries \/ Reject \/ Defer \/ AlreadyAttached \/ Attach
               \/ Tag \/ LaneItem \/ CountEntry \/ Blocked \/ RunKilled
        PROVE  TypeInv'
    <3>1. /\ UNCHANGED <<uploads, kind, work, made>> /\ slips' \in Nat
          /\ held' \in [LaneWatches -> SUBSET Clips]
      BY <1>2, <2>3, HeldTypes DEF FeedHasEntries, Reject, Defer, AlreadyAttached, Attach, Tag, LaneItem,
         CountEntry, Blocked, RunKilled, TypeInv
    <3>2. rows' \in [Subs -> Rows] /\ items' \in [LaneWatches -> SUBSET Clips] /\ RunOK(poll')
      BY <1>2, <2>3, EntryTypes
    <3>3. QED
      BY <1>2, <3>1, <3>2 DEF TypeInv
  <2>4. ASSUME Submit PROVE TypeInv'
    <3>1. UNCHANGED <<uploads, kind, items, rows, held>>
      BY <2>4 DEF Submit
    <3>2. /\ work' \in [Clips -> {"none", "active", "completed", "failed", "review"}]
          /\ made' \in [Subs -> Nat] /\ slips' \in Nat /\ RunOK(poll')
      BY <1>2, <2>4, SubmitTypes
    <3>3. QED
      BY <1>2, <3>1, <3>2 DEF TypeInv
  <2>5. ASSUME UNCHANGED pollVars PROVE TypeInv'
    BY <1>2, <2>5 DEF pollVars, TypeInv
  <2>6. QED
    BY <1>2, <2>1, <2>2, <2>3, <2>4, <2>5, WorldTypes DEF PollNext, RunSteps
<1>3. QED
  BY <1>1, <1>2

-----------------------------------------------------------------------------
(***************************************************************************)
(* What is marked seen was handled.                                        *)
(***************************************************************************)
\* A video is done with for a subscription.
Handled(s, v) ==
    /\ work[v] # "none" \/ kind[v] = "short"
    /\ s \in LaneWatches => v \in items[s] \/ kind[v] = "short" \/ v \in held[s]

\* The run marks, or has in its copies, only what is done with.
RunHandled ==
    /\ ~At("idle") => \A s \in Subs : \A v \in Seen(poll.copy[s]) : Handled(s, v)
    /\ At("next") => poll.took = <<>> /\ poll.rejected = <<>>
    /\ ~At("idle") /\ ~At("next") =>
          \A v \in ToSet(poll.took) \cup ToSet(poll.rejected) : Handled(poll.sub, v)

\* What the run knows of the video that it submitted.
AnswerHolds ==
    /\ At("answered") => (poll.answer \in {"ok", "blocked"} => work[poll.video] # "none")
    /\ At("tagged") => work[poll.video] # "none"
    /\ At("attached") => InLane /\ poll.video \in items[poll.sub]

SeenInv ==
    /\ \A v \in Clips : kind[v] = "short" => v \in Uploaded
    /\ \A s \in LaneWatches : \A v \in items[s] : work[v] # "none"
    /\ \A s \in Subs : \A v \in Seen(rows[s]) : Handled(s, v)
    /\ RunHandled
    /\ AnswerHolds

\* What a step may do to the videos.
Grows ==
    /\ \A v \in Clips : /\ work[v] # "none" => work'[v] # "none"
                        /\ kind[v] = "short" => kind'[v] = "short"
    /\ \A s \in LaneWatches : items[s] \subseteq items'[s] /\ held[s] \subseteq held'[s]

\* The ids of a row are of videos.
LEMMA SeenAreClips ==
    ASSUME NEW row \in Rows
    PROVE  Seen(row) \subseteq Clips
<1>1. row.seen \in Seq(Clips)
  BY DEF Rows
<1>2. QED
  BY <1>1 DEF Seen, ToSet

\* What is done with stays so.
LEMMA HandledStays ==
    ASSUME TypeInv, Grows, NEW s, NEW v \in Clips, Handled(s, v)
    PROVE  Handled(s, v)'
BY DEF Handled, Grows

\* A commit keeps the items of lanes.
LEMMA CommitItems ==
    ASSUME NEW copy, NEW next, Commit(copy, next, items)
    PROVE  items' = items
BY DEF Commit

\* A commit writes ids that are in the rows or in the copies.
LEMMA CommitSeen ==
    ASSUME TypeInv, ~At("idle"), NEW copy \in [Subs -> Rows], NEW next, NEW lane,
           Commit(copy, next, lane), NEW s \in Subs
    PROVE  Seen(rows'[s]) = Seen(rows[s]) \/ Seen(rows'[s]) = Seen(copy[s])
<1>1. CASE Matches(copy)
  <2>1. rows' = Written(copy)
    BY <1>1 DEF Commit
  <2>2. rows[s] \in Rows /\ poll.loaded[s] \in Rows /\ copy[s] \in Rows
    BY RunHasRows DEF TypeInv
  <2> DEFINE row == [f \in DOMAIN rows[s] |-> IF copy[s][f] = poll.loaded[s][f] THEN rows[s][f]
                                                                           ELSE copy[s][f]]
  <2>3. rows'[s].seen = rows[s].seen \/ rows'[s].seen = copy[s].seen
    <3>1. rows'[s] = IF copy[s] = poll.loaded[s] THEN rows[s] ELSE row
      BY <2>1 DEF Written
    <3>2. row.seen = rows[s].seen \/ row.seen = copy[s].seen
      BY <2>2 DEF Rows
    <3>3. QED
      BY <3>1, <3>2
  <2>4. QED
    BY <2>3 DEF Seen
<1>2. CASE ~Matches(copy)
  BY <1>2 DEF Commit
<1>3. QED
  BY <1>1, <1>2

\* A commit of ids that are done with leaves only such ids in the rows.
LEMMA CommitHandled ==
    ASSUME TypeInv, SeenInv, Grows, ~At("idle"), NEW copy \in [Subs -> Rows], NEW next, NEW lane,
           Commit(copy, next, lane),
           \A s \in Subs : \A v \in Seen(copy[s]) : Handled(s, v)
    PROVE  /\ \A s \in Subs : \A v \in Seen(rows'[s]) : Handled(s, v)'
           /\ \A s \in Subs : \A v \in Seen(copy[s]) : Handled(s, v)'
<1>1. ASSUME NEW s \in Subs PROVE Seen(copy[s]) \subseteq Clips /\ Seen(rows[s]) \subseteq Clips
  BY SeenAreClips DEF TypeInv
<1>2. ASSUME NEW s \in Subs, NEW v \in Seen(copy[s]) PROVE Handled(s, v)'
  BY <1>1, HandledStays
<1>3. ASSUME NEW s \in Subs, NEW v \in Seen(rows'[s]) PROVE Handled(s, v)'
  <2>1. v \in Seen(rows[s]) \/ v \in Seen(copy[s])
    BY <1>3, CommitSeen
  <2>2. Handled(s, v) /\ v \in Clips
    BY <1>1, <2>1 DEF SeenInv
  <2>3. QED
    BY <2>2, HandledStays
<1>4. QED
  BY <1>2, <1>3

\* The queries of a run.
LEMMA QuerySeen ==
    ASSUME TypeInv, SeenInv, Begin \/ Skip \/ Take \/ Stop
    PROVE  SeenInv'
<1>1. UNCHANGED <<uploads, kind, work, items, rows, held>>
  BY DEF Begin, Skip, Take, Stop
<1>2. \A s, v : Handled(s, v)' <=> Handled(s, v)
  BY <1>1 DEF Handled
<1>3. /\ \A v \in Clips : kind[v] = "short" => v \in Uploaded
      /\ \A s \in LaneWatches : \A v \in items[s] : work[v] # "none"
      /\ \A s \in Subs : \A v \in Seen(rows[s]) : Handled(s, v)
      /\ RunHandled
  BY DEF SeenInv
<1>4. poll'.phase \in {"idle", "next", "fetch"}
  <2>1. CASE Begin
    BY <2>1 DEF Begin, NoRun
  <2>2. CASE Skip \/ Take
    <3>1. poll \in Runs
      BY DEF TypeInv, RunOK
    <3>2. QED
      BY <2>2, <3>1 DEF Skip, Take, At, Runs
  <2>3. CASE Stop
    <3>1. poll \in Runs
      BY DEF TypeInv, RunOK
    <3>2. \/ poll' = NoRun
          \/ \E todo, loaded, copy :
                poll' = [poll EXCEPT !.lanes = TRUE, !.todo = todo, !.loaded = loaded, !.copy = copy]
      BY <2>3 DEF Stop
    <3>3. NoRun.phase = "idle"
      BY DEF NoRun
    <3>4. poll.phase = "next"
      BY <2>3 DEF Stop, At
    <3>5. QED
      BY <3>1, <3>2, <3>3, <3>4 DEF Runs
  <2>4. QED
    BY <2>1, <2>2, <2>3
<1>5. AnswerHolds'
  BY <1>4 DEF AnswerHolds, At
<1>6. RunHandled'
  <2>1. ASSUME Begin PROVE RunHandled'
    <3>1. poll'.copy = rows /\ poll'.phase = "next" /\ poll'.took = <<>> /\ poll'.rejected = <<>>
      BY <2>1 DEF Begin, NoRun
    <3>2. QED
      BY <1>2, <1>3, <3>1 DEF RunHandled, At
  <2>2. ASSUME Skip \/ Take PROVE RunHandled'
    <3>1. At("next") /\ ~At("idle") /\ poll \in Runs
      BY <2>2, RunHasRows DEF Skip, Take, At
    <3>2. /\ poll'.copy = poll.copy /\ poll'.took = poll.took /\ poll'.rejected = poll.rejected
          /\ poll'.phase \in {"next", "fetch"}
      BY <2>2, <3>1 DEF Skip, Take, Runs, At
    <3>3. poll'.took = <<>> /\ poll'.rejected = <<>>
      BY <1>3, <3>1, <3>2 DEF RunHandled
    <3>4. ToSet(poll'.took) \cup ToSet(poll'.rejected) = {}
      BY <3>3 DEF ToSet
    <3>5. \A s \in Subs : \A v \in Seen(poll'.copy[s]) : Handled(s, v)'
      BY <1>2, <1>3, <3>1, <3>2 DEF RunHandled
    <3>6. QED
      BY <3>2, <3>3, <3>4, <3>5 DEF RunHandled, At
  <2>3. ASSUME Stop PROVE RunHandled'
    <3>1. At("next") /\ ~At("idle") /\ poll \in Runs
      BY <2>3, RunHasRows DEF Stop, At
    <3> DEFINE loaded == [s \in Subs |-> IF s \in LaneWatches THEN rows[s] ELSE poll.loaded[s]]
               copy   == [s \in Subs |-> IF s \in LaneWatches THEN rows[s] ELSE poll.copy[s]]
    <3>2. PICK todo \in Loads(LaneWatches) :
            poll' = IF poll.lanes THEN NoRun
                    ELSE [poll EXCEPT !.lanes = TRUE, !.todo = todo, !.loaded = loaded, !.copy = copy]
      BY <2>3 DEF Stop
    <3>3. CASE poll.lanes
      <4>1. poll'.phase = "idle"
        BY <3>2, <3>3 DEF NoRun
      <4>2. QED
        BY <4>1 DEF RunHandled, At
    <3>4. CASE ~poll.lanes
      <4>1. \A s \in Subs : \A v \in Seen(copy[s]) : Handled(s, v)
        BY <1>3, <3>1 DEF RunHandled
      <4> HIDE DEF copy, loaded
      <4>2. poll'.copy = copy /\ poll'.phase = "next" /\ poll'.took = poll.took /\ poll'.rejected = poll.rejected
        BY <3>1, <3>2, <3>4 DEF Runs, At
      <4>3. QED
        BY <1>2, <1>3, <3>1, <4>1, <4>2 DEF RunHandled, At
    <3>5. QED
      BY <3>3, <3>4
  <2>4. QED
    BY <2>1, <2>2, <2>3
<1>7. /\ \A v \in Clips : kind'[v] = "short" => v \in Uploaded'
      /\ \A s \in LaneWatches : \A v \in items'[s] : work'[v] # "none"
      /\ \A s \in Subs : \A v \in Seen(rows'[s]) : Handled(s, v)'
  <2>1. Uploaded' = Uploaded
    BY <1>1 DEF Uploaded
  <2>2. QED
    BY <1>1, <1>2, <1>3, <2>1
<1>8. QED
  BY <1>5, <1>6, <1>7 DEF SeenInv

\* Two lists that are joined.
LEMMA JoinedIds ==
    ASSUME NEW a \in Seq(Clips), NEW b \in Seq(Clips)
    PROVE  ToSet(a \o b) \subseteq ToSet(a) \cup ToSet(b)
<1>1. /\ Len(a) \in Nat /\ Len(b) \in Nat /\ Len(a \o b) = Len(a) + Len(b)
      /\ DOMAIN (a \o b) = 1 .. Len(a \o b)
      /\ \A i \in 1 .. Len(a \o b) : (a \o b)[i] = IF i <= Len(a) THEN a[i] ELSE b[i - Len(a)]
  OBVIOUS
<1> DEFINE all == a \o b
<1> HIDE DEF all
<1>2. ASSUME NEW i \in DOMAIN all PROVE all[i] \in ToSet(a) \cup ToSet(b)
  <2>1. i \in 1 .. Len(all)
    BY <1>1, <1>2 DEF all
  <2>2. CASE i <= Len(a)
    BY <1>1, <2>1, <2>2 DEF ToSet, all
  <2>3. CASE ~(i <= Len(a))
    <3>1. i - Len(a) \in 1 .. Len(b) /\ all[i] = b[i - Len(a)]
      BY <1>1, <2>1, <2>3 DEF all
    <3>2. QED
      BY <3>1 DEF ToSet
  <2>4. QED
    BY <2>2, <2>3
<1>3. QED
  BY <1>2 DEF ToSet, all

\* The ends of the poll of a subscription.
LEMMA EndSeen ==
    ASSUME TypeInv, SeenInv, FeedFails \/ FeedHasNothing \/ SubmitFails \/ Finish
    PROVE  SeenInv'
<1>1. UNCHANGED <<uploads, kind, work, made, held>>
  BY DEF FeedFails, FeedHasNothing, SubmitFails, Finish
<1>2. ~At("idle") /\ ~At("next")
  BY DEF FeedFails, FeedHasNothing, SubmitFails, Finish, At
<1>3. /\ poll \in Runs /\ Row \in Rows /\ poll.sub \in Subs /\ poll.copy \in [Subs -> Rows]
      /\ poll.took \in Seq(Clips) /\ poll.rejected \in Seq(Clips)
      /\ poll.slots \in Int /\ poll.counted \in Int
  BY <1>2, RunHasRows DEF Runs
<1>4. /\ Marked \in Seq(Clips)
      /\ ToSet(Marked) \subseteq ToSet(poll.took) \cup ToSet(poll.rejected)
  BY <1>3, JoinedIds DEF Marked
<1>5. \A v \in Seen(Row) : Handled(poll.sub, v)
  BY <1>2, <1>3 DEF SeenInv, RunHandled, Row
<1>6. \A v \in ToSet(Marked) : Handled(poll.sub, v)
  BY <1>2, <1>4 DEF SeenInv, RunHandled
<1>7. \E row \in Rows, slots \in Int : /\ \A v \in Seen(row) : Handled(poll.sub, v)
                               /\ Commit(CopyWith(row), Leaves(slots), items)
  <2>1. Failed(Row) \in Rows /\ Succeeded(Row, <<>>) \in Rows /\ Succeeded(Row, Marked) \in Rows
    BY <1>3, <1>4, EmptySeq, PolledRows
  <2>2. Seen(Failed(Row)) = Seen(Row)
    BY <1>3 DEF Failed, Seen, Rows
  <2>3. Seen(Succeeded(Row, <<>>)) \subseteq Seen(Row)
    <3>1. Seen(Succeeded(Row, <<>>)) \subseteq ToSet(<<>>) \cup Seen(Row)
      BY <1>3, EmptySeq, KeptIds
    <3>2. ToSet(<<>>) = {}
      BY DEF ToSet
    <3>3. QED
      BY <3>1, <3>2
  <2>4. Seen(Succeeded(Row, Marked)) \subseteq ToSet(Marked) \cup Seen(Row)
    BY <1>3, <1>4, KeptIds
  <2>5. CASE FeedFails
    BY <1>3, <1>5, <2>1, <2>2, <2>5 DEF FeedFails
  <2>6. CASE FeedHasNothing
    BY <1>3, <1>5, <2>1, <2>3, <2>6 DEF FeedHasNothing
  <2>7. CASE SubmitFails
    <3> DEFINE slots == IF InLane THEN poll.slots - poll.counted ELSE poll.slots
    <3>1. slots \in Int
      BY <1>3
    <3>2. Commit(CopyWith(Failed(Row)), Leaves(slots), items)
      BY <2>7 DEF SubmitFails
    <3> HIDE DEF slots
    <3>3. QED
      BY <1>5, <2>1, <2>2, <3>1, <3>2
  <2>8. CASE Finish
    <3>1. \A v \in Seen(Succeeded(Row, Marked)) : Handled(poll.sub, v)
      BY <1>5, <1>6, <2>4
    <3>2. poll.slots - poll.counted \in Int
      BY <1>3
    <3>3. QED
      BY <2>1, <2>8, <3>1, <3>2 DEF Finish
  <2>9. QED
    BY <2>5, <2>6, <2>7, <2>8
<1>8. PICK row \in Rows, slots \in Int : /\ \A v \in Seen(row) : Handled(poll.sub, v)
                                 /\ Commit(CopyWith(row), Leaves(slots), items)
  BY <1>7
<1> DEFINE copy == CopyWith(row)
<1>9. copy \in [Subs -> Rows]
  BY <1>3 DEF CopyWith
<1>10. \A s \in Subs : \A v \in Seen(copy[s]) : Handled(s, v)
  <2>1. ASSUME NEW s \in Subs, NEW v \in Seen(copy[s]) PROVE Handled(s, v)
    <3>1. copy[s] = IF s = poll.sub THEN row ELSE poll.copy[s]
      BY <1>3 DEF CopyWith
    <3>2. QED
      BY <1>2, <1>8, <2>1, <3>1 DEF SeenInv, RunHandled
  <2>2. QED
    BY <2>1
<1>11. items' = items
  BY <1>8, CommitItems
<1>12. Grows
  BY <1>1, <1>11 DEF Grows
<1> HIDE DEF copy
<1>13. Commit(copy, Leaves(slots), items)
  BY <1>8 DEF copy
<1>14. /\ \A s \in Subs : \A v \in Seen(rows'[s]) : Handled(s, v)'
       /\ \A s \in Subs : \A v \in Seen(copy[s]) : Handled(s, v)'
  BY <1>2, <1>9, <1>10, <1>12, <1>13, CommitHandled
<1>15. \/ poll'.phase = "idle"
       \/ /\ poll'.phase = "next" /\ poll'.took = <<>> /\ poll'.rejected = <<>>
          /\ poll'.copy = copy
  <2>1. poll' = NoRun \/ poll' = [Leaves(slots) EXCEPT !.loaded = copy, !.copy = copy]
    BY <1>13 DEF Commit
  <2>2. CASE poll' = NoRun
    BY <2>2 DEF NoRun
  <2>3. CASE poll' = [Leaves(slots) EXCEPT !.loaded = copy, !.copy = copy]
    BY <2>3 DEF Leaves, NoRun
  <2>4. QED
    BY <2>1, <2>2, <2>3
<1>16. RunHandled' /\ AnswerHolds'
  BY <1>14, <1>15 DEF RunHandled, AnswerHolds, At
<1>17. /\ \A v \in Clips : kind'[v] = "short" => v \in Uploaded'
       /\ \A s \in LaneWatches : \A v \in items'[s] : work'[v] # "none"
  BY <1>1, <1>11 DEF SeenInv, Uploaded
<1>18. QED
  BY <1>14, <1>16, <1>17 DEF SeenInv

\* Adding to a list.
LEMMA OneMoreId ==
    ASSUME NEW a \in Seq(Clips), NEW v \in Clips
    PROVE  ToSet(Append(a, v)) \subseteq ToSet(a) \cup {v}
<1>1. /\ Len(a) \in Nat /\ Append(a, v) \in Seq(Clips) /\ Len(Append(a, v)) = Len(a) + 1
      /\ \A i \in 1 .. Len(a) + 1 : Append(a, v)[i] = IF i <= Len(a) THEN a[i] ELSE v
  OBVIOUS
<1> DEFINE all == Append(a, v)
<1> HIDE DEF all
<1>2. ASSUME NEW i \in DOMAIN all PROVE all[i] \in ToSet(a) \cup {v}
  <2>1. i \in 1 .. Len(a) + 1
    BY <1>1, <1>2 DEF all
  <2>2. CASE i <= Len(a)
    BY <1>1, <2>1, <2>2 DEF ToSet, all
  <2>3. CASE ~(i <= Len(a))
    BY <1>1, <2>1, <2>3 DEF all
  <2>4. QED
    BY <2>2, <2>3
<1>3. QED
  BY <1>2 DEF ToSet, all

\* Steps that change the run only.
LEMMA QuietSeen ==
    ASSUME SeenInv, UNCHANGED <<uploads, kind, work, items, rows, held>>, RunHandled', AnswerHolds'
    PROVE  SeenInv'
<1>1. \A s, v : Handled(s, v)' <=> Handled(s, v)
  BY DEF Handled
<1>2. Uploaded' = Uploaded
  BY DEF Uploaded
<1>3. /\ \A v \in Clips : kind[v] = "short" => v \in Uploaded
      /\ \A s \in LaneWatches : \A v \in items[s] : work[v] # "none"
      /\ \A s \in Subs : \A v \in Seen(rows[s]) : Handled(s, v)
  BY DEF SeenInv
<1>4. /\ \A v \in Clips : kind'[v] = "short" => v \in Uploaded'
      /\ \A s \in LaneWatches : \A v \in items'[s] : work'[v] # "none"
      /\ \A s \in Subs : \A v \in Seen(rows'[s]) : Handled(s, v)'
  BY <1>1, <1>2, <1>3
<1>5. QED
  BY <1>4 DEF SeenInv

\* What a feed shows is not marked yet.
LEMMA FeedSeen ==
    ASSUME TypeInv, SeenInv, FeedHasEntries
    PROVE  SeenInv'
<1>1. At("fetch") /\ ~At("idle") /\ ~At("next") /\ UNCHANGED <<uploads, kind, work, items, rows, held>>
  BY DEF FeedHasEntries, At
<1>2. \A s, v : Handled(s, v)' <=> Handled(s, v)
  BY <1>1 DEF Handled
<1>3. poll \in Runs /\ Row \in Rows /\ poll.sub \in Subs /\ poll.copy \in [Subs -> Rows]
  BY <1>1, RunHasRows
<1> DEFINE copy == CopyWith(CounterReset(Row))
<1>4. \A s \in Subs : Seen(copy[s]) = Seen(poll.copy[s])
  <2>1. Seen(CounterReset(Row)) = Seen(Row)
    BY <1>3 DEF CounterReset, Seen, Rows
  <2>2. QED
    BY <1>3, <2>1 DEF CopyWith, Row
<1>5. \A s \in Subs : \A v \in Seen(copy[s]) : Handled(s, v)'
  BY <1>1, <1>2, <1>4 DEF SeenInv, RunHandled
<1> HIDE DEF copy
<1>6. \/ poll' = [Leaves(poll.slots) EXCEPT !.copy = copy]
      \/ \E found : poll' = [Goes("entries") EXCEPT !.copy = copy, !.entries = found]
  BY DEF FeedHasEntries, copy
<1>7. CASE poll' = [Leaves(poll.slots) EXCEPT !.copy = copy]
  <2>1. poll'.phase = "next" /\ poll'.took = <<>> /\ poll'.rejected = <<>> /\ poll'.copy = copy
    BY <1>7 DEF Leaves, NoRun
  <2>2. RunHandled' /\ AnswerHolds'
    BY <1>5, <2>1 DEF RunHandled, AnswerHolds, At
  <2>3. QED
    BY <1>1, <2>2, QuietSeen
<1>8. CASE \E found : poll' = [Goes("entries") EXCEPT !.copy = copy, !.entries = found]
  <2>1. /\ poll'.phase = "entries" /\ poll'.took = poll.took /\ poll'.rejected = poll.rejected
        /\ poll'.copy = copy /\ poll'.sub = poll.sub
    BY <1>3, <1>8 DEF Goes, Runs
  <2>2. \A v \in ToSet(poll.took) \cup ToSet(poll.rejected) : Handled(poll.sub, v)
    BY <1>1 DEF SeenInv, RunHandled
  <2>3. RunHandled' /\ AnswerHolds'
    BY <1>2, <1>5, <2>1, <2>2 DEF RunHandled, AnswerHolds, At
  <2>4. QED
    BY <1>1, <2>3, QuietSeen
<1>9. QED
  BY <1>6, <1>7, <1>8

\* The steps that put an entry on a list of the run, or off it.
LEMMA ListSeen ==
    ASSUME TypeInv, SeenInv, Reject \/ Defer \/ AlreadyAttached \/ CountEntry
    PROVE  SeenInv'
<1>1. UNCHANGED <<uploads, kind, work, items, rows, held>>
  BY DEF Reject, Defer, AlreadyAttached, CountEntry
<1>2. \A s, v : Handled(s, v)' <=> Handled(s, v)
  BY <1>1 DEF Handled
<1>3. ~At("idle") /\ ~At("next")
  BY DEF Reject, Defer, AlreadyAttached, CountEntry, HasEntry, At
<1>4. /\ poll \in Runs /\ Row \in Rows /\ poll.sub \in Subs /\ poll.copy \in [Subs -> Rows]
      /\ poll.took \in Seq(Clips) /\ poll.rejected \in Seq(Clips)
  BY <1>3, RunHasRows DEF Runs
<1>5. /\ \A s \in Subs : \A v \in Seen(poll.copy[s]) : Handled(s, v)
      /\ \A v \in ToSet(poll.took) \cup ToSet(poll.rejected) : Handled(poll.sub, v)
      /\ AnswerHolds
  BY <1>3 DEF SeenInv, RunHandled
\* What is left to show of such a step.
<1>6. ASSUME \A s \in Subs : Seen(poll'.copy[s]) = Seen(poll.copy[s]),
             poll'.sub = poll.sub, poll'.phase \in {"entries", "attached"},
             \A v \in ToSet(poll'.took) \cup ToSet(poll'.rejected) : Handled(poll.sub, v),
             AnswerHolds'
      PROVE  SeenInv'
  <2>1. RunHandled'
    BY <1>2, <1>5, <1>6 DEF RunHandled, At
  <2>2. QED
    BY <1>1, <1>6, <2>1, QuietSeen
<1>7. CASE Reject
  <2>1. Entry \in Clips /\ kind[Entry] = "short"
    BY <1>7, EntryIsOne DEF Reject
  <2>2. /\ poll'.copy = poll.copy /\ poll'.sub = poll.sub /\ poll'.phase = "entries"
        /\ poll'.took = poll.took /\ poll'.rejected = Append(poll.rejected, Entry)
    BY <1>4, <1>7 DEF Reject, HasEntry, At, Without, Runs
  <2>3. Handled(poll.sub, Entry)
    BY <2>1 DEF Handled
  <2>4. \A v \in ToSet(poll'.took) \cup ToSet(poll'.rejected) : Handled(poll.sub, v)
    BY <1>4, <1>5, <2>1, <2>2, <2>3, OneMoreId
  <2>5. AnswerHolds'
    BY <2>2 DEF AnswerHolds, At
  <2>6. QED
    BY <1>6, <2>2, <2>4, <2>5
<1>8. CASE Defer
  <2>1. /\ poll'.copy = poll.copy /\ poll'.sub = poll.sub /\ poll'.phase = "entries"
        /\ poll'.took = poll.took /\ poll'.rejected = poll.rejected
    BY <1>4, <1>8 DEF Defer, Deferred, HasEntry, At, Without, Runs
  <2>2. AnswerHolds'
    BY <2>1 DEF AnswerHolds, At
  <2>3. QED
    BY <1>5, <1>6, <2>1, <2>2
<1>9. CASE AlreadyAttached
  <2>1. /\ poll'.copy = poll.copy /\ poll'.sub = poll.sub /\ poll'.phase = "attached"
        /\ poll'.took = poll.took /\ poll'.rejected = poll.rejected /\ poll'.video = Entry
    BY <1>4, <1>9 DEF AlreadyAttached, Without, Runs
  <2>2. InLane /\ Entry \in items[poll.sub]
    BY <1>9 DEF AlreadyAttached
  <2>3. AnswerHolds'
    BY <1>1, <2>1, <2>2 DEF AnswerHolds, At, InLane
  <2>4. QED
    BY <1>5, <1>6, <2>1, <2>3
<1>10. CASE CountEntry
  <2>1. /\ poll'.sub = poll.sub /\ poll'.phase = "entries" /\ poll'.rejected = poll.rejected
        /\ poll'.took = Append(poll.took, poll.video)
        /\ poll'.copy = CopyWith(Counted(Row))
    BY <1>4, <1>10 DEF CountEntry, Runs
  <2>2. \A s \in Subs : Seen(poll'.copy[s]) = Seen(poll.copy[s])
    <3>1. Seen(Counted(Row)) = Seen(Row)
      BY <1>4 DEF Counted, Seen, Rows
    <3>2. QED
      BY <1>4, <2>1, <3>1 DEF CopyWith, Row
  <2>3. poll.video \in Clips
    BY <1>10 DEF CountEntry, At, TypeInv, RunOK
  <2>4. Handled(poll.sub, poll.video)
    <3>1. CASE At("attached")
      <4>1. InLane /\ poll.video \in items[poll.sub]
        BY <1>5, <3>1 DEF AnswerHolds
      <4>2. work[poll.video] # "none"
        BY <4>1 DEF SeenInv, InLane
      <4>3. QED
        BY <4>1, <4>2 DEF Handled
    <3>2. CASE At("tagged") /\ ~InLane
      BY <1>5, <3>2 DEF AnswerHolds, Handled, InLane
    <3>3. QED
      BY <1>10, <3>1, <3>2 DEF CountEntry
  <2>5. \A v \in ToSet(poll'.took) \cup ToSet(poll'.rejected) : Handled(poll.sub, v)
    BY <1>4, <1>5, <2>1, <2>3, <2>4, OneMoreId
  <2>6. AnswerHolds'
    BY <2>1 DEF AnswerHolds, At
  <2>7. QED
    BY <1>6, <2>1, <2>2, <2>5, <2>6
<1>11. QED
  BY <1>7, <1>8, <1>9, <1>10

\* The answer that a video waits for a person, which a lane is told.
LEMMA BlockedSeen ==
    ASSUME TypeInv, SeenInv, Blocked
    PROVE  SeenInv'
<1>1. UNCHANGED <<uploads, kind, work, items, rows>>
  BY DEF Blocked
<1>2. \A s \in LaneWatches : held[s] \subseteq held'[s]
  BY HeldTypes
<1>3. Grows
  BY <1>1, <1>2 DEF Grows
<1>4. At("answered") /\ ~At("idle") /\ ~At("next") /\ poll.answer = "blocked"
  BY DEF Blocked, At
<1>5. /\ poll \in Runs /\ poll.sub \in Subs /\ poll.copy \in [Subs -> Rows]
      /\ poll.took \in Seq(Clips) /\ poll.rejected \in Seq(Clips) /\ poll.video \in Clips
  BY <1>4, RunHasRows DEF Runs, At, TypeInv, RunOK
<1>6. /\ poll'.sub = poll.sub /\ poll'.phase = "entries" /\ poll'.rejected = poll.rejected
      /\ poll'.took = Append(poll.took, poll.video) /\ poll'.copy = poll.copy
  BY <1>5 DEF Blocked, Runs
<1>7. ASSUME NEW s \in Subs, NEW v \in Clips, Handled(s, v) PROVE Handled(s, v)'
  BY <1>3, <1>7, HandledStays
<1>8. /\ work'[poll.video] # "none"
      /\ poll.sub \in LaneWatches => poll.video \in held'[poll.sub]
  BY <1>1, <1>4, HeldTypes DEF SeenInv, AnswerHolds, InLane
<1>9. \A s \in Subs : \A v \in Seen(rows'[s]) : Handled(s, v)'
  BY <1>1, <1>7, SeenAreClips DEF SeenInv, TypeInv
<1>10. RunHandled'
  <2>1. \A s \in Subs : \A v \in Seen(poll.copy[s]) : Handled(s, v)'
    BY <1>4, <1>5, <1>7, SeenAreClips DEF SeenInv, RunHandled
  <2>2. ToSet(poll.took) \cup ToSet(poll.rejected) \subseteq Clips
    BY <1>5 DEF ToSet
  <2>3. \A v \in ToSet(poll.took) \cup ToSet(poll.rejected) : Handled(poll.sub, v)
    BY <1>4 DEF SeenInv, RunHandled
  <2>4. ASSUME NEW v \in ToSet(poll.took) \cup ToSet(poll.rejected)
        PROVE  /\ work'[v] # "none" \/ kind'[v] = "short"
               /\ poll.sub \in LaneWatches =>
                    v \in items'[poll.sub] \/ kind'[v] = "short" \/ v \in held'[poll.sub]
    BY <1>3, <2>2, <2>3, <2>4 DEF Handled, Grows
  <2>5. ToSet(poll'.took) \cup ToSet(poll'.rejected)
           \subseteq ToSet(poll.took) \cup ToSet(poll.rejected) \cup {poll.video}
    BY <1>5, <1>6, OneMoreId
  <2>6. \A v \in ToSet(poll'.took) \cup ToSet(poll'.rejected) : Handled(poll.sub, v)'
    BY <1>6, <1>8, <2>4, <2>5 DEF Handled
  <2>7. QED
    BY <1>6, <2>1, <2>6 DEF RunHandled, At
<1>11. AnswerHolds'
  BY <1>6 DEF AnswerHolds, At
<1>12. QED
  BY <1>1, <1>9, <1>10, <1>11 DEF SeenInv, Uploaded

\* The commits within the poll of a subscription.
LEMMA CommitStepSeen ==
    ASSUME TypeInv, SeenInv, Attach \/ Tag \/ LaneItem
    PROVE  SeenInv'
<1>1. UNCHANGED <<uploads, kind, work, held>>
  BY DEF Attach, Tag, LaneItem
<1>2. ~At("idle") /\ ~At("next")
  BY DEF Attach, Tag, LaneItem, HasEntry, At
<1>3. /\ poll \in Runs /\ poll.sub \in Subs /\ poll.copy \in [Subs -> Rows]
      /\ items \in [LaneWatches -> SUBSET Clips]
      /\ work \in [Clips -> {"none", "active", "completed", "failed", "review"}]
  BY <1>2, RunHasRows DEF TypeInv
<1>4. /\ \A s \in Subs : \A v \in Seen(poll.copy[s]) : Handled(s, v)
      /\ \A v \in ToSet(poll.took) \cup ToSet(poll.rejected) : Handled(poll.sub, v)
      /\ AnswerHolds
  BY <1>2 DEF SeenInv, RunHandled
\* What is left to show of such a step.
<1>5. ASSUME NEW next, NEW lane \in [LaneWatches -> SUBSET Clips],
             Commit(poll.copy, next, lane),
             \A s \in LaneWatches : items[s] \subseteq lane[s] /\ \A v \in lane[s] : work[v] # "none",
             next \in Runs, next.phase \in {"tagged", "attached"}, next.sub = poll.sub,
             next.took = poll.took, next.rejected = poll.rejected,
             next.phase = "tagged" => work[next.video] # "none",
             next.phase = "attached" => poll.sub \in LaneWatches /\ next.video \in lane[poll.sub]
      PROVE  SeenInv'
  <2>1. \/ poll' = NoRun /\ items' = items
        \/ poll' = [next EXCEPT !.loaded = poll.copy, !.copy = poll.copy] /\ items' = lane
    BY <1>5 DEF Commit
  <2>2. Grows
    BY <1>1, <1>5, <2>1 DEF Grows
  <2>3. /\ \A s \in Subs : \A v \in Seen(rows'[s]) : Handled(s, v)'
        /\ \A s \in Subs : \A v \in Seen(poll.copy[s]) : Handled(s, v)'
    BY <1>2, <1>3, <1>4, <1>5, <2>2, CommitHandled
  <2>4. \A s \in LaneWatches : \A v \in items'[s] : work'[v] # "none"
    BY <1>1, <1>5, <2>1 DEF SeenInv
  <2>5. \A v \in Clips : kind'[v] = "short" => v \in Uploaded'
    BY <1>1 DEF SeenInv, Uploaded
  <2>6. CASE poll' = NoRun
    <3>1. poll'.phase = "idle"
      BY <2>6 DEF NoRun
    <3>2. RunHandled' /\ AnswerHolds'
      BY <3>1 DEF RunHandled, AnswerHolds, At
    <3>3. QED
      BY <2>3, <2>4, <2>5, <3>2 DEF SeenInv
  <2>7. CASE poll' = [next EXCEPT !.loaded = poll.copy, !.copy = poll.copy] /\ items' = lane
    <3>1. /\ poll'.phase = next.phase /\ poll'.sub = poll.sub /\ poll'.took = poll.took
          /\ poll'.rejected = poll.rejected /\ poll'.video = next.video /\ poll'.copy = poll.copy
      BY <1>5, <2>7 DEF Runs
    <3>2. poll.took \in Seq(Clips) /\ poll.rejected \in Seq(Clips)
      BY <1>3 DEF Runs
    <3>3. ToSet(poll.took) \cup ToSet(poll.rejected) \subseteq Clips
      BY <3>2 DEF ToSet
    <3>4. \A v \in ToSet(poll'.took) \cup ToSet(poll'.rejected) : Handled(poll.sub, v)'
      <4>1. ASSUME NEW v \in ToSet(poll.took) \cup ToSet(poll.rejected)
            PROVE  /\ work'[v] # "none" \/ kind'[v] = "short"
                   /\ poll.sub \in LaneWatches =>
                        v \in items'[poll.sub] \/ kind'[v] = "short" \/ v \in held'[poll.sub]
        BY <1>4, <2>2, <3>3, <4>1 DEF Handled, Grows
      <4>2. QED
        BY <3>1, <4>1 DEF Handled
    <3>5. RunHandled'
      BY <1>5, <2>3, <3>1, <3>4 DEF RunHandled, At
    <3>6. AnswerHolds'
      BY <1>1, <1>5, <2>7, <3>1 DEF AnswerHolds, At, InLane
    <3>7. QED
      BY <2>3, <2>4, <2>5, <3>5, <3>6 DEF SeenInv
  <2>8. QED
    BY <2>1, <2>6, <2>7
<1>6. \A s \in LaneWatches : \A v \in items[s] : work[v] # "none"
  BY DEF SeenInv
<1>7. CASE Attach
  <2>1. Entry \in Clips /\ InLane /\ work[Entry] # "none"
    BY <1>7, EntryIsOne DEF Attach
  <2> DEFINE next == [Without(Entry) EXCEPT !.phase = "attached", !.video = Entry]
             lane == [items EXCEPT ![poll.sub] = @ \cup {Entry}]
  <2>2. /\ next \in Runs /\ next.phase = "attached" /\ next.sub = poll.sub /\ next.took = poll.took
        /\ next.rejected = poll.rejected /\ next.video = Entry
    BY <1>3, <2>1 DEF Without, Runs, Phases
  <2>3. /\ lane \in [LaneWatches -> SUBSET Clips] /\ Entry \in lane[poll.sub]
        /\ \A s \in LaneWatches : items[s] \subseteq lane[s] /\ \A v \in lane[s] : work[v] # "none"
    BY <1>3, <1>6, <2>1 DEF InLane
  <2>4. Commit(poll.copy, next, lane)
    BY <1>7 DEF Attach
  <2> HIDE DEF next, lane
  <2>5. QED
    BY <1>5, <2>1, <2>2, <2>3, <2>4 DEF InLane
<1>8. CASE Tag
  <2> DEFINE next == Goes("tagged")
  <2>1. /\ next \in Runs /\ next.phase = "tagged" /\ next.sub = poll.sub /\ next.took = poll.took
        /\ next.rejected = poll.rejected /\ next.video = poll.video
    BY <1>3 DEF Goes, Runs, Phases
  <2>2. work[poll.video] # "none" /\ Commit(poll.copy, next, items)
    BY <1>4, <1>8 DEF Tag, AnswerHolds
  <2> HIDE DEF next
  <2>3. QED
    BY <1>3, <1>5, <1>6, <2>1, <2>2
<1>9. CASE LaneItem
  <2>1. InLane /\ work[poll.video] # "none"
    BY <1>4, <1>9 DEF LaneItem, AnswerHolds
  <2>2. poll.video \in Clips /\ poll.counted + 1 \in Nat
    BY <1>3, <1>9 DEF LaneItem, At, TypeInv, RunOK, Runs
  <2> DEFINE next == [poll EXCEPT !.phase = "attached", !.counted = @ + 1]
             lane == [items EXCEPT ![poll.sub] = @ \cup {poll.video}]
  <2>3. /\ next \in Runs /\ next.phase = "attached" /\ next.sub = poll.sub /\ next.took = poll.took
        /\ next.rejected = poll.rejected /\ next.video = poll.video
    BY <1>3, <2>2 DEF Runs, Phases
  <2>4. /\ lane \in [LaneWatches -> SUBSET Clips] /\ poll.video \in lane[poll.sub]
        /\ \A s \in LaneWatches : items[s] \subseteq lane[s] /\ \A v \in lane[s] : work[v] # "none"
    BY <1>3, <1>6, <2>1, <2>2 DEF InLane
  <2>5. Commit(poll.copy, next, lane)
    BY <1>9 DEF LaneItem
  <2> HIDE DEF next, lane
  <2>6. QED
    BY <1>5, <2>1, <2>3, <2>4, <2>5 DEF InLane
<1>10. QED
  BY <1>7, <1>8, <1>9

\* Steps that keep the rows and the run's lists.
LEMMA OthersSeen ==
    ASSUME TypeInv, SeenInv, Grows,
           \A s \in Subs : Seen(rows'[s]) \subseteq Seen(rows[s]),
           \A v \in Clips : kind'[v] = "short" => v \in Uploaded',
           items' = items, AnswerHolds',
           ~At("idle")' => /\ ~At("idle") /\ (At("next") <=> At("next")')
                           /\ poll'.copy = poll.copy /\ poll'.sub = poll.sub
                           /\ poll'.took = poll.took /\ poll'.rejected = poll.rejected
    PROVE  SeenInv'
<1>1. ASSUME NEW s \in Subs, NEW v \in Seen(rows'[s]) PROVE Handled(s, v)'
  <2>1. v \in Seen(rows[s]) /\ v \in Clips
    BY <1>1, SeenAreClips DEF TypeInv
  <2>2. Handled(s, v)
    BY <2>1 DEF SeenInv
  <2>3. QED
    BY <2>1, <2>2, HandledStays
<1>2. \A s \in LaneWatches : \A v \in items'[s] : work'[v] # "none"
  BY DEF SeenInv, Grows, TypeInv
<1>3. RunHandled'
  <2>1. CASE At("idle")'
    BY <2>1 DEF RunHandled, At
  <2>2. CASE ~At("idle")'
    <3>1. ~At("idle") /\ (At("next") <=> At("next")')
      BY <2>2
    <3>2. poll \in Runs /\ poll.copy \in [Subs -> Rows]
          /\ poll.took \in Seq(Clips) /\ poll.rejected \in Seq(Clips)
      BY <3>1, RunHasRows DEF Runs
    <3>3. ToSet(poll.took) \cup ToSet(poll.rejected) \subseteq Clips
      BY <3>2 DEF ToSet
    <3>4. ASSUME NEW s \in Subs, NEW v \in Seen(poll.copy[s]) PROVE Handled(s, v)'
      <4>1. v \in Clips
        BY <3>2, <3>4, SeenAreClips
      <4>2. Handled(s, v)
        BY <3>1, <3>4 DEF SeenInv, RunHandled
      <4>3. QED
        BY <4>1, <4>2, HandledStays
    <3>5. ASSUME ~At("next"), NEW v \in ToSet(poll.took) \cup ToSet(poll.rejected)
          PROVE  /\ work'[v] # "none" \/ kind'[v] = "short"
                 /\ poll.sub \in LaneWatches =>
                      v \in items'[poll.sub] \/ kind'[v] = "short" \/ v \in held'[poll.sub]
      <4>1. v \in Clips
        BY <3>3, <3>5
      <4>2. Handled(poll.sub, v)
        BY <3>1, <3>5 DEF SeenInv, RunHandled
      <4>3. QED
        BY <4>1, <4>2 DEF Handled, Grows
    <3>6. poll'.copy = poll.copy /\ poll'.sub = poll.sub /\ poll'.took = poll.took /\ poll'.rejected = poll.rejected
      BY <2>2
    <3>7. ~At("next") => \A v \in ToSet(poll'.took) \cup ToSet(poll'.rejected) : Handled(poll.sub, v)'
      BY <3>5, <3>6 DEF Handled
    <3>8. At("next") => poll'.took = <<>> /\ poll'.rejected = <<>>
      BY <3>1, <3>6 DEF SeenInv, RunHandled
    <3>9. QED
      BY <3>1, <3>4, <3>6, <3>7, <3>8 DEF RunHandled
  <2>3. QED
    BY <2>1, <2>2
<1>4. QED
  BY <1>1, <1>2, <1>3 DEF SeenInv

\* A submission.
LEMMA SubmitSeen ==
    ASSUME TypeInv, SeenInv, Submit
    PROVE  SeenInv'
<1>1. PICK answer \in {"ok", "error", "blocked"}, state \in {"none", "active", "completed", "failed", "review"} :
         /\ poll' = [Without(Entry) EXCEPT !.phase = "answered", !.video = Entry, !.answer = answer,
                        !.posted = IF state = work[Entry] THEN @ ELSE @ + 1]
         /\ work' = [work EXCEPT ![Entry] = state]
         /\ state # work[Entry] => state = "active" /\ work[Entry] \in {"none", "failed"}
         /\ answer = "ok" => state \in {"active", "completed"}
         /\ answer = "blocked" => state = "review"
  BY SubmitCases
<1>2. Entry \in Clips /\ At("entries") /\ ~At("idle") /\ ~At("next")
  BY EntryIsOne DEF Submit
<1>3. poll \in Runs /\ work \in [Clips -> {"none", "active", "completed", "failed", "review"}]
  BY <1>2, RunHasRows DEF TypeInv
<1>4. UNCHANGED <<uploads, kind, items, rows, held>>
  BY DEF Submit
<1>5. Grows
  BY <1>1, <1>2, <1>3, <1>4 DEF Grows
<1>6. /\ poll'.phase = "answered" /\ poll'.video = Entry /\ poll'.answer = answer
      /\ poll'.copy = poll.copy /\ poll'.sub = poll.sub
      /\ poll'.took = poll.took /\ poll'.rejected = poll.rejected
  BY <1>1, <1>3 DEF Without, Runs
<1>7. AnswerHolds'
  BY <1>1, <1>2, <1>3, <1>6 DEF AnswerHolds, At
<1>8. \A v \in Clips : kind'[v] = "short" => v \in Uploaded'
  BY <1>4 DEF SeenInv, Uploaded
<1>9. QED
  BY <1>2, <1>4, <1>5, <1>6, <1>7, <1>8, OthersSeen DEF At

\* A run that is killed.
LEMMA KillSeen ==
    ASSUME TypeInv, SeenInv, RunKilled
    PROVE  SeenInv'
<1>1. UNCHANGED <<uploads, kind, work, items, rows, held>> /\ poll'.phase = "idle"
  BY DEF RunKilled, NoRun
<1>2. RunHandled' /\ AnswerHolds'
  BY <1>1 DEF RunHandled, AnswerHolds, At
<1>3. QED
  BY <1>1, <1>2, QuietSeen

\* What users, the pipeline and the world do.
LEMMA WorldSeen ==
    ASSUME TypeInv, SeenInv, World
    PROVE  SeenInv'
<1>1. UNCHANGED <<items, poll, held>>
  BY DEF World, Upload, Airs, PipelineEnds, PersonRetries, NewDay, BecomesDue, Enable, Disable,
         ResetFailures, DeleteRow, Subscribe
<1>2. kind \in [Clips -> {"regular", "short", "upcoming"}]
      /\ work \in [Clips -> {"none", "active", "completed", "failed", "review"}]
      /\ rows \in [Subs -> Rows] /\ uploads \in Seq(Channels)
  BY DEF TypeInv
<1>3. \A v \in Clips : kind[v] = "short" => v \in Uploaded
  BY DEF SeenInv
\* Only uploads and the steps of a video change more than rows.
<1>4. ASSUME NEW c \in Channels, NEW k \in {"regular", "short", "upcoming"}, Upload(c, k)
      PROVE  /\ UNCHANGED <<work, rows>>
             /\ \A v \in Clips : kind[v] = "short" => kind'[v] = "short"
             /\ \A v \in Clips : kind'[v] = "short" => v \in Uploaded'
  <2>1. Uploaded = 1 .. Len(uploads) /\ Uploaded' = 1 .. Len(uploads) + 1 /\ Len(uploads) \in Nat
    BY <1>2, <1>4 DEF Upload, Uploaded
  <2>2. \A v \in Clips : kind'[v] = IF v = Len(uploads) + 1 THEN k ELSE kind[v]
    BY <1>2, <1>4 DEF Upload
  <2>3. \A v \in Clips : kind[v] = "short" => v # Len(uploads) + 1
    BY <1>3, <2>1
  <2>4. QED
    BY <1>3, <1>4, <2>1, <2>2, <2>3 DEF Upload
<1>5. ASSUME NEW v \in Clips, Airs(v) \/ PipelineEnds(v) \/ PersonRetries(v)
      PROVE  /\ UNCHANGED <<rows, uploads>>
             /\ \A w \in Clips : kind[w] = "short" <=> kind'[w] = "short"
             /\ \A w \in Clips : work[w] # "none" => work'[w] # "none"
  BY <1>2, <1>5 DEF Airs, PipelineEnds, PersonRetries
<1>6. ASSUME \/ NewDay
             \/ \E s \in Subs : \/ BecomesDue(s) \/ Enable(s) \/ Disable(s) \/ ResetFailures(s)
                                \/ DeleteRow(s) \/ Subscribe(s)
      PROVE  /\ UNCHANGED <<uploads, kind, work>>
             /\ \A s \in Subs : Seen(rows'[s]) \subseteq Seen(rows[s])
  <2>1. \A s \in Subs : rows[s] \in Rows
    BY <1>2
  <2>2. Seen(NewRow(0)) = {} /\ Seen(NewRow(MaxRows)) = {}
    BY DEF Seen, NewRow, ToSet
  <2>3. CASE NewDay
    <3>1. \A s \in Subs : Seen([rows[s] EXCEPT !.fresh = FALSE]) = Seen(rows[s])
      BY <2>1 DEF Rows, Seen
    <3>2. QED
      BY <2>3, <3>1 DEF NewDay
  <2>4. ASSUME NEW s \in Subs,
               \/ BecomesDue(s) \/ Enable(s) \/ Disable(s) \/ ResetFailures(s)
               \/ DeleteRow(s) \/ Subscribe(s)
        PROVE  /\ UNCHANGED <<uploads, kind, work>>
               /\ \A t \in Subs : Seen(rows'[t]) \subseteq Seen(rows[t])
    <3>1. /\ Seen([rows[s] EXCEPT !.due = TRUE]) = Seen(rows[s])
          /\ Seen([rows[s] EXCEPT !.enabled = TRUE]) = Seen(rows[s])
          /\ Seen([rows[s] EXCEPT !.enabled = FALSE]) = Seen(rows[s])
          /\ Seen([rows[s] EXCEPT !.failures = 0]) = Seen(rows[s])
      BY <2>1 DEF Rows, Seen
    <3>2. \E row : rows' = [rows EXCEPT ![s] = row] /\ Seen(row) \subseteq Seen(rows[s])
      BY <2>2, <2>4, <3>1 DEF BecomesDue, Enable, Disable, ResetFailures, DeleteRow, Subscribe
    <3>3. QED
      BY <1>2, <2>4, <3>2 DEF BecomesDue, Enable, Disable, ResetFailures, DeleteRow, Subscribe
  <2>5. QED
    BY <1>6, <2>3, <2>4 DEF NewDay
<1>7. /\ Grows
      /\ \A s \in Subs : Seen(rows'[s]) \subseteq Seen(rows[s])
      /\ \A v \in Clips : kind'[v] = "short" => v \in Uploaded'
  <2>1. CASE \E c \in Channels, k \in {"regular", "short", "upcoming"} : Upload(c, k)
    BY <1>1, <1>4, <2>1 DEF Grows
  <2>2. CASE \E v \in Clips : Airs(v) \/ PipelineEnds(v) \/ PersonRetries(v)
    BY <1>1, <1>3, <1>5, <2>2 DEF Grows, Uploaded
  <2>3. CASE \/ NewDay
             \/ \E s \in Subs : \/ BecomesDue(s) \/ Enable(s) \/ Disable(s) \/ ResetFailures(s)
                                \/ DeleteRow(s) \/ Subscribe(s)
    BY <1>1, <1>3, <1>6, <2>3 DEF Grows, Uploaded
  <2>4. QED
    BY <2>1, <2>2, <2>3 DEF World
<1>8. AnswerHolds'
  <2>1. poll.phase \in {"answered", "tagged", "attached"} => poll.video \in Clips
    BY DEF TypeInv, RunOK
  <2>2. QED
    BY <1>1, <1>7, <2>1 DEF SeenInv, AnswerHolds, At, InLane, Grows
<1>9. QED
  BY <1>1, <1>7, <1>8, OthersSeen DEF At

\* SeenInv holds at first, and every step keeps it.
LEMMA SeenInvariant ==
    /\ PollInit => SeenInv
    /\ TypeInv /\ SeenInv /\ [PollNext]_pollVars => SeenInv'
<1>1. ASSUME PollInit PROVE SeenInv
  <2>1. \A s \in Subs : Seen(rows[s]) = {}
    BY <1>1 DEF PollInit, NewRow, Seen, ToSet
  <2>2. poll.phase = "idle"
    BY <1>1 DEF PollInit, NoRun
  <2>3. RunHandled /\ AnswerHolds
    BY <2>2 DEF RunHandled, AnswerHolds, At
  <2>4. QED
    BY <1>1, <2>1, <2>3 DEF PollInit, SeenInv
<1>2. ASSUME TypeInv, SeenInv, [PollNext]_pollVars PROVE SeenInv'
  <2>1. ASSUME UNCHANGED pollVars PROVE SeenInv'
    <3>1. RunHandled' /\ AnswerHolds'
      BY <1>2, <2>1 DEF pollVars, SeenInv, RunHandled, AnswerHolds, At, InLane, Handled
    <3>2. QED
      BY <1>2, <2>1, <3>1, QuietSeen DEF pollVars
  <2>2. QED
    BY <1>2, <2>1, QuerySeen, EndSeen, FeedSeen, ListSeen, BlockedSeen, CommitStepSeen, SubmitSeen, KillSeen, WorldSeen
       DEF PollNext, RunSteps
<1>3. QED
  BY <1>1, <1>2

\* Whatever users, the pipeline and the calendar do, and wherever a run is killed, capped or
\* refused: what a subscription has marked seen was submitted, or is a short, and a lane has
\* an item for it unless it was told that it waits for a person (mark_poll_success,
\* _attach_or_submit_lane_entry).
THEOREM NothingSeenIsMissed == PollSpec => []NothingIsMissed
<1>1. TypeInv /\ SeenInv => NothingIsMissed
  <2> SUFFICES ASSUME TypeInv, SeenInv PROVE NothingIsMissed
    OBVIOUS
  <2>1. \A s \in Subs : \A v \in Seen(rows[s]) : Handled(s, v)
    BY DEF SeenInv
  <2>2. QED
    BY <2>1 DEF NothingIsMissed, SeenIsHandled, LaneSeenIsAttached, Handled, Subs
<1>2. QED
  BY <1>1, PollTypes, SeenInvariant, PTL DEF PollSpec

-----------------------------------------------------------------------------
(***************************************************************************)
(* The counters and the bounds.                                            *)
(***************************************************************************)
\* Entries that the run may yet count.
Pending(r) == Cardinality(r.entries) + (IF r.phase = "entries" THEN 0 ELSE 1)

RowsBounded(f) == \A s \in Subs : f[s].today <= MaxPerPoll /\ Len(f[s].seen) <= SeenMax

\* The run counts no more than the day and its own slots have left.
RunBounded(r) ==
    /\ r.slots \in 0 .. MaxPerRun
    /\ r.phase # "idle" => RowsBounded(r.copy)
    /\ r.phase \in {"next", "fetch"} => r.counted = 0
    /\ r.phase \in {"entries", "answered", "tagged", "attached"} =>
         /\ r.copy[r.sub].today + Pending(r) <= MaxPerPoll
         /\ r.sub \notin LaneWatches => r.counted + Pending(r) <= r.slots
         /\ r.sub \in LaneWatches =>
              r.counted + (IF r.phase \in {"answered", "tagged"} THEN 1 ELSE 0) <= r.slots

CountInv == RowsBounded(rows) /\ RunBounded(poll)

\* A set of videos is finite.
LEMMA ClipsAreFew ==
    ASSUME NEW S \in SUBSET Clips
    PROVE  IsFiniteSet(S) /\ Cardinality(S) \in Nat
<1>1. IsFiniteSet(Clips)
  BY FS_Interval, PollAssumption DEF Clips
<1>2. QED
  BY <1>1, FS_Subset, FS_CardinalityType

\* The newest n are at most n.
LEMMA NewestAreFew ==
    ASSUME NEW S \in SUBSET Clips, NEW n \in Nat
    PROVE  Newest(n, S) \in SUBSET S /\ Cardinality(Newest(n, S)) <= n
<1> DEFINE T == Newest(n, S)
<1>1. T \in SUBSET S /\ T \in SUBSET Clips
  BY DEF Newest
<1>2. Clips \subseteq Nat
  BY DEF Clips
<1>3. CASE T = {}
  BY <1>1, <1>3, FS_EmptySet
<1>4. CASE T # {}
  <2>1. PICK m \in T : \A y \in T : m <= y
    BY <1>1, <1>2, <1>4, SmallestExists
  <2> DEFINE A == {u \in S : u > m}
  <2>2. Cardinality(A) < n
    BY <2>1 DEF Newest
  <2>3. T \ {m} \subseteq A
    <3>1. ASSUME NEW y \in T, y # m PROVE y \in S /\ y > m
      <4>1. y \in S /\ y \in Nat /\ m \in Nat
        BY <1>1, <1>2, <2>1
      <4>2. m <= y
        BY <2>1
      <4> HIDE DEF T
      <4>3. QED
        BY <3>1, <4>1, <4>2
    <3> HIDE DEF T
    <3>2. QED
      BY <3>1
  <2>4. /\ IsFiniteSet(A) /\ Cardinality(A) \in Nat
        /\ IsFiniteSet(T) /\ Cardinality(T) \in Nat
    <3>1. A \in SUBSET Clips /\ T \in SUBSET Clips
      BY <1>1
    <3> HIDE DEF A, T
    <3>2. QED
      BY <3>1, ClipsAreFew
  <2>5. Cardinality(T \ {m}) = Cardinality(T) - 1
    BY <2>1, <2>4, FS_RemoveElement
  <2>6. Cardinality(T \ {m}) <= Cardinality(A)
    BY <2>3, <2>4, FS_Subset
  <2> HIDE DEF T, A
  <2>7. Cardinality(T) <= n
    BY <2>2, <2>4, <2>5, <2>6
  <2>8. QED
    BY <1>1, <2>7 DEF T
<1>5. QED
  BY <1>3, <1>4

\* An entry less.
LEMMA EntryLess ==
    ASSUME TypeInv, HasEntry
    PROVE  /\ Cardinality(poll.entries) \in Nat \ {0}
           /\ Cardinality(poll.entries \ {Entry}) = Cardinality(poll.entries) - 1
<1>1. Entry \in poll.entries /\ poll.entries \in SUBSET Clips
  BY EntryIsOne DEF TypeInv, RunOK, Runs
<1>2. IsFiniteSet(poll.entries) /\ Cardinality(poll.entries) \in Nat
  BY <1>1, ClipsAreFew
<1>3. Cardinality(poll.entries \ {Entry}) = Cardinality(poll.entries) - 1
  BY <1>1, <1>2, FS_RemoveElement
<1>4. Cardinality(poll.entries \ {Entry}) \in Nat
  BY <1>1, ClipsAreFew
<1>5. QED
  BY <1>2, <1>3, <1>4

\* What is allowed is within what the day and, for a watch, the run have left.
LEMMA AllowedIsLeft ==
    ASSUME TypeInv, CountInv, At("fetch"), NEW row \in Rows, row.today <= MaxPerPoll
    PROVE  /\ Allowed(row) \in Nat
           /\ row.today + Allowed(row) <= MaxPerPoll
           /\ ~InLane => Allowed(row) <= poll.slots
<1>1. poll.slots \in Nat /\ row.today \in Nat /\ MaxPerPoll \in Nat
  BY PollAssumption DEF CountInv, RunBounded, Rows
<1> DEFINE left == Max({0, MaxPerPoll - row.today})
<1>2. left = MaxPerPoll - row.today /\ left \in Nat
  <2>1. 0 \in Int /\ MaxPerPoll - row.today \in Int
    BY <1>1
  <2>2. left = IF 0 >= MaxPerPoll - row.today THEN 0 ELSE MaxPerPoll - row.today
    BY <2>1, MaxOfTwo, Zenon
  <2>3. QED
    BY <1>1, <2>2
<1>3. Max({0, poll.slots}) = poll.slots
  <2>1. 0 \in Int /\ poll.slots \in Int
    BY <1>1
  <2>2. Max({0, poll.slots}) = IF 0 >= poll.slots THEN 0 ELSE poll.slots
    BY <2>1, MaxOfTwo, Zenon
  <2>3. QED
    BY <1>1, <2>2
<1>4. Allowed(row) = IF InLane THEN left ELSE Min({left, poll.slots})
  BY <1>3 DEF Allowed
<1> HIDE DEF left
<1>5. Min({left, poll.slots}) = IF left <= poll.slots THEN left ELSE poll.slots
  <2>1. left \in Int /\ poll.slots \in Int
    BY <1>1, <1>2
  <2>2. QED
    BY <2>1, MinOfTwo, Zenon
<1>6. QED
  BY <1>1, <1>2, <1>4, <1>5

\* The rows that a poll makes stay within the bounds.
LEMMA PolledBounds ==
    ASSUME NEW row \in Rows, row.today <= MaxPerPoll, Len(row.seen) <= SeenMax, NEW new \in Seq(Clips)
    PROVE  /\ Succeeded(row, new).today = row.today /\ Len(Succeeded(row, new).seen) <= SeenMax
           /\ Failed(row).today = row.today /\ Failed(row).seen = row.seen
           /\ CounterReset(row).today <= MaxPerPoll /\ CounterReset(row).seen = row.seen
<1>1. Failed(row).today = row.today /\ Failed(row).seen = row.seen
  BY DEF Failed, Rows
<1>2. CounterReset(row).today <= MaxPerPoll /\ CounterReset(row).seen = row.seen
  BY PollAssumption DEF CounterReset, Rows
<1> DEFINE all == new \o row.seen
           n   == Min({SeenMax, Len(new) + Len(row.seen)})
<1>3. row.seen \in Seq(Clips)
  BY DEF Rows
<1>4. all \in Seq(Clips) /\ Len(all) = Len(new) + Len(row.seen)
  BY <1>3
<1>5. SeenMax \in Nat /\ SeenMax \in Int /\ Len(new) + Len(row.seen) \in Nat
      /\ Len(new) + Len(row.seen) \in Int
  BY <1>3, PollAssumption
<1>6. n = IF SeenMax <= Len(new) + Len(row.seen) THEN SeenMax ELSE Len(new) + Len(row.seen)
  BY <1>5, MinOfTwo, Zenon
<1>7. Succeeded(row, new).seen = SubSeq(all, 1, n) /\ Succeeded(row, new).today = row.today
  BY DEF Succeeded, Rows
<1> HIDE DEF all, n
<1>8. n \in 0 .. Len(all) /\ n <= SeenMax
  BY <1>4, <1>5, <1>6
<1>9. Len(SubSeq(all, 1, n)) = n
  BY <1>4, <1>8
<1>10. QED
  BY <1>1, <1>2, <1>7, <1>8, <1>9

\* A commit of copies within the bounds keeps the rows within them.
LEMMA CommitBounded ==
    ASSUME TypeInv, CountInv, ~At("idle"), NEW copy \in [Subs -> Rows], NEW next, NEW lane,
           RowsBounded(copy), RunBounded([next EXCEPT !.loaded = copy, !.copy = copy]),
           Commit(copy, next, lane)
    PROVE  CountInv'
<1>1. RunBounded(NoRun)
  BY PollAssumption DEF RunBounded, NoRun
<1>2. ASSUME NEW s \in Subs PROVE rows'[s].today <= MaxPerPoll /\ Len(rows'[s].seen) <= SeenMax
  <2>1. /\ rows[s].today <= MaxPerPoll /\ Len(rows[s].seen) <= SeenMax
        /\ copy[s].today <= MaxPerPoll /\ Len(copy[s].seen) <= SeenMax
    BY DEF CountInv, RowsBounded
  <2>2. CASE Matches(copy)
    <3>1. rows' = Written(copy)
      BY <2>2 DEF Commit
    <3>2. rows[s] \in Rows /\ poll.loaded[s] \in Rows /\ copy[s] \in Rows
      BY RunHasRows DEF TypeInv
    <3> DEFINE row == [f \in DOMAIN rows[s] |-> IF copy[s][f] = poll.loaded[s][f] THEN rows[s][f]
                                                                             ELSE copy[s][f]]
    <3>3. rows'[s] = IF copy[s] = poll.loaded[s] THEN rows[s] ELSE row
      BY <3>1 DEF Written
    <3>4. row.today \in {rows[s].today, copy[s].today} /\ row.seen \in {rows[s].seen, copy[s].seen}
      BY <3>2 DEF Rows
    <3>5. QED
      BY <2>1, <3>3, <3>4
  <2>3. CASE ~Matches(copy)
    BY <2>1, <2>3 DEF Commit
  <2>4. QED
    BY <2>2, <2>3
<1>3. RunBounded(poll')
  BY <1>1 DEF Commit
<1>4. QED
  BY <1>2, <1>3 DEF CountInv, RowsBounded, RunBounded, Pending

\* The ends of the poll of a subscription, and what is left of the run's slots.
LEMMA LeavesBounded ==
    ASSUME TypeInv, CountInv, ~At("idle"), ~At("next"), NEW row \in Rows, NEW slots \in 0 .. MaxPerRun,
           row.today <= MaxPerPoll, Len(row.seen) <= SeenMax,
           Commit(CopyWith(row), Leaves(slots), items)
    PROVE  CountInv'
<1>1. poll.copy \in [Subs -> Rows] /\ poll.sub \in Subs /\ RowsBounded(poll.copy)
  BY RunHasRows DEF CountInv, RunBounded, At
<1>2. CopyWith(row) \in [Subs -> Rows] /\ RowsBounded(CopyWith(row))
  BY <1>1 DEF CopyWith, RowsBounded
<1> DEFINE copy == CopyWith(row)
<1> HIDE DEF copy
<1>3. RunBounded([Leaves(slots) EXCEPT !.loaded = copy, !.copy = copy])
  BY <1>2 DEF RunBounded, Leaves, NoRun, copy
<1>4. QED
  BY <1>2, <1>3, CommitBounded DEF copy

\* What the bounds say of the run at hand.
LEMMA RunInBounds ==
    ASSUME TypeInv, CountInv, ~At("idle"), ~At("next")
    PROVE  /\ poll.slots \in 0 .. MaxPerRun /\ poll.slots \in Nat /\ poll.counted \in Nat
           /\ RowsBounded(poll.copy)
           /\ Row \in Rows /\ Row.today <= MaxPerPoll /\ Len(Row.seen) <= SeenMax
           /\ Cardinality(poll.entries) \in Nat
           /\ At("fetch") => poll.counted = 0
           /\ ~At("fetch") => /\ Row.today + Pending(poll) <= MaxPerPoll
                              /\ ~InLane => poll.counted + Pending(poll) <= poll.slots
                              /\ InLane => poll.counted + (IF At("answered") \/ At("tagged") THEN 1 ELSE 0)
                                              <= poll.slots
<1>1. poll \in Runs /\ Row \in Rows /\ poll.sub \in Subs
  BY RunHasRows
<1>2. poll.slots \in 0 .. MaxPerRun /\ poll.slots \in Nat /\ poll.counted \in Nat
  BY <1>1 DEF CountInv, RunBounded, Runs
<1>3. RowsBounded(poll.copy)
  BY DEF CountInv, RunBounded, At
<1>4. Row.today <= MaxPerPoll /\ Len(Row.seen) <= SeenMax
  BY <1>1, <1>3 DEF RowsBounded, Row
<1>5. Cardinality(poll.entries) \in Nat
  BY <1>1, ClipsAreFew DEF Runs
<1>6. At("fetch") => poll.counted = 0
  BY DEF CountInv, RunBounded, At
<1>7. ~At("fetch") => poll.phase \in {"entries", "answered", "tagged", "attached"}
  BY <1>1 DEF Runs, Phases, At
<1>8. ~At("fetch") => /\ Row.today + Pending(poll) <= MaxPerPoll
                      /\ ~InLane => poll.counted + Pending(poll) <= poll.slots
                      /\ InLane => poll.counted + (IF At("answered") \/ At("tagged") THEN 1 ELSE 0)
                                      <= poll.slots
  BY <1>7 DEF CountInv, RunBounded, At, InLane, Row
<1>9. QED
  BY <1>1, <1>2, <1>3, <1>4, <1>5, <1>6, <1>8

\* The ends of the poll of a subscription.
LEMMA EndBounded ==
    ASSUME TypeInv, CountInv, FeedFails \/ FeedHasNothing \/ SubmitFails \/ Finish
    PROVE  CountInv'
<1>1. ~At("idle") /\ ~At("next")
  BY DEF FeedFails, FeedHasNothing, SubmitFails, Finish, At
<1>2. /\ poll.slots \in 0 .. MaxPerRun /\ poll.slots \in Nat /\ poll.counted \in Nat
      /\ Row \in Rows /\ Row.today <= MaxPerPoll /\ Len(Row.seen) <= SeenMax
      /\ Cardinality(poll.entries) \in Nat
  BY <1>1, RunInBounds
<1>3. Marked \in Seq(Clips)
  BY <1>1, RunHasRows DEF Marked, Runs
<1>4. /\ Failed(Row) \in Rows /\ Succeeded(Row, <<>>) \in Rows /\ Succeeded(Row, Marked) \in Rows
  BY <1>2, <1>3, EmptySeq, PolledRows
<1>5. /\ Failed(Row).today <= MaxPerPoll /\ Len(Failed(Row).seen) <= SeenMax
      /\ Succeeded(Row, <<>>).today <= MaxPerPoll /\ Len(Succeeded(Row, <<>>).seen) <= SeenMax
      /\ Succeeded(Row, Marked).today <= MaxPerPoll /\ Len(Succeeded(Row, Marked).seen) <= SeenMax
  BY <1>2, <1>3, EmptySeq, PolledBounds
<1>6. MaxPerRun \in Nat
  BY PollAssumption
<1>7. CASE FeedFails
  BY <1>1, <1>2, <1>4, <1>5, <1>7, LeavesBounded DEF FeedFails
<1>8. CASE FeedHasNothing
  BY <1>1, <1>2, <1>4, <1>5, <1>8, LeavesBounded DEF FeedHasNothing
<1>9. CASE SubmitFails
  <2> DEFINE slots == IF InLane THEN poll.slots - poll.counted ELSE poll.slots
  <2>1. At("answered") /\ ~At("fetch")
    BY <1>9 DEF SubmitFails, At
  <2>2. InLane => poll.counted + 1 <= poll.slots
    BY <1>1, <2>1, RunInBounds
  <2>3. slots \in 0 .. MaxPerRun
    BY <1>2, <1>6, <2>2
  <2>4. Commit(CopyWith(Failed(Row)), Leaves(slots), items)
    BY <1>9 DEF SubmitFails
  <2> HIDE DEF slots
  <2>5. QED
    BY <1>1, <1>4, <1>5, <2>3, <2>4, LeavesBounded
<1>10. CASE Finish
  <2>1. At("entries") /\ ~At("fetch") /\ ~(At("answered") \/ At("tagged"))
    BY <1>10 DEF Finish, At
  <2>2. Pending(poll) \in Nat
    BY <1>2 DEF Pending
  <2>3. poll.counted <= poll.slots
    <3>1. CASE InLane
      BY <1>1, <1>2, <2>1, <3>1, RunInBounds
    <3>2. CASE ~InLane
      <4>1. poll.counted + Pending(poll) <= poll.slots
        BY <1>1, <2>1, <3>2, RunInBounds
      <4>2. QED
        BY <1>2, <2>2, <4>1
    <3>3. QED
      BY <3>1, <3>2
  <2>4. poll.slots - poll.counted \in 0 .. MaxPerRun
    BY <1>2, <1>6, <2>3
  <2>5. Commit(CopyWith(Succeeded(Row, Marked)), Leaves(poll.slots - poll.counted), items)
    BY <1>10 DEF Finish
  <2>6. QED
    BY <1>1, <1>4, <1>5, <2>4, <2>5, LeavesBounded
<1>11. QED
  BY <1>7, <1>8, <1>9, <1>10

\* The queries of a run.
LEMMA QueryBounded ==
    ASSUME TypeInv, CountInv, Begin \/ Skip \/ Take \/ Stop
    PROVE  CountInv'
<1>1. rows' = rows /\ poll \in Runs /\ RowsBounded(rows) /\ RunBounded(poll)
  BY DEF Begin, Skip, Take, Stop, TypeInv, RunOK, CountInv
<1>2. ASSUME Begin PROVE RunBounded(poll')
  <2>1. /\ poll'.slots = MaxPerRun /\ poll'.phase = "next" /\ poll'.copy = rows /\ poll'.counted = 0
    BY <1>2 DEF Begin, NoRun
  <2>2. QED
    BY <1>1, <2>1, PollAssumption DEF RunBounded
<1>3. ASSUME Skip \/ Take PROVE RunBounded(poll')
  <2>1. /\ poll.phase = "next" /\ poll'.phase \in {"next", "fetch"} /\ poll'.slots = poll.slots
        /\ poll'.copy = poll.copy /\ poll'.counted = poll.counted
    BY <1>1, <1>3 DEF Skip, Take, At, Runs
  <2>2. QED
    BY <1>1, <2>1 DEF RunBounded
<1>4. ASSUME Stop PROVE RunBounded(poll')
  <2> DEFINE loaded == [s \in Subs |-> IF s \in LaneWatches THEN rows[s] ELSE poll.loaded[s]]
             copy   == [s \in Subs |-> IF s \in LaneWatches THEN rows[s] ELSE poll.copy[s]]
  <2>1. PICK todo \in Loads(LaneWatches) :
          poll' = IF poll.lanes THEN NoRun
                  ELSE [poll EXCEPT !.lanes = TRUE, !.todo = todo, !.loaded = loaded, !.copy = copy]
    BY <1>4 DEF Stop
  <2>2. poll.phase = "next"
    BY <1>4 DEF Stop, At
  <2>3. RowsBounded(copy)
    BY <1>1, <2>2 DEF RowsBounded, RunBounded
  <2> HIDE DEF loaded, copy
  <2>4. CASE poll.lanes
    BY <2>1, <2>4, PollAssumption DEF RunBounded, NoRun
  <2>5. CASE ~poll.lanes
    <3>1. /\ poll'.phase = "next" /\ poll'.slots = poll.slots
          /\ poll'.copy = copy /\ poll'.counted = poll.counted
      BY <1>1, <2>1, <2>2, <2>5 DEF Runs
    <3>2. QED
      BY <1>1, <2>2, <2>3, <3>1 DEF RunBounded
  <2>6. QED
    BY <2>4, <2>5
<1>5. RowsBounded(rows')
  BY <1>1 DEF RowsBounded
<1>6. QED
  BY <1>2, <1>3, <1>4, <1>5 DEF CountInv, RowsBounded, RunBounded, Pending

\* The entries that a feed gives.
LEMMA FeedBounded ==
    ASSUME TypeInv, CountInv, FeedHasEntries
    PROVE  CountInv'
<1>1. At("fetch") /\ ~At("idle") /\ ~At("next") /\ rows' = rows
  BY DEF FeedHasEntries, At
<1>2. /\ poll \in Runs /\ poll.sub \in Subs /\ poll.copy \in [Subs -> Rows]
      /\ poll.slots \in 0 .. MaxPerRun /\ poll.slots \in Nat /\ poll.counted = 0
      /\ RowsBounded(poll.copy)
      /\ Row \in Rows /\ Row.today <= MaxPerPoll /\ Len(Row.seen) <= SeenMax
  BY <1>1, RunHasRows, RunInBounds
<1> DEFINE row == CounterReset(Row)
           copy == CopyWith(row)
           found == Newest(Allowed(row), NewEntries)
<1>3. row \in Rows /\ row.today <= MaxPerPoll /\ row.seen = Row.seen /\ row.today \in Nat
  <2>1. row \in Rows /\ row.today <= MaxPerPoll /\ row.seen = Row.seen
    BY <1>2, EmptySeq, PolledRows, PolledBounds
  <2> HIDE DEF row
  <2>2. QED
    BY <2>1 DEF Rows
<1>4. RowsBounded(copy) /\ copy[poll.sub] = row
  BY <1>2, <1>3 DEF RowsBounded, CopyWith
<1>5. /\ Allowed(row) \in Nat /\ row.today + Allowed(row) <= MaxPerPoll
      /\ ~InLane => Allowed(row) <= poll.slots
  BY <1>1, <1>3, AllowedIsLeft
<1>6. found \in SUBSET Clips /\ Cardinality(found) <= Allowed(row) /\ Cardinality(found) \in Nat
  <2>1. NewEntries \in SUBSET Clips
    BY NewEntriesAreClips
  <2>2. found \in SUBSET NewEntries /\ Cardinality(found) <= Allowed(row)
    BY <1>5, <2>1, NewestAreFew
  <2> HIDE DEF found
  <2>3. found \in SUBSET Clips
    BY <2>1, <2>2
  <2>4. QED
    BY <2>2, <2>3, ClipsAreFew
<1>7. \/ poll' = [Leaves(poll.slots) EXCEPT !.copy = copy]
      \/ poll' = [Goes("entries") EXCEPT !.copy = copy, !.entries = found]
  BY DEF FeedHasEntries
<1> DEFINE allowed == Allowed(row)
<1>8. row.today + allowed <= MaxPerPoll /\ allowed \in Nat /\ (~InLane => allowed <= poll.slots)
      /\ Cardinality(found) <= allowed
  BY <1>5, <1>6
<1> HIDE DEF row, copy, found, allowed
<1>9. CASE poll' = [Leaves(poll.slots) EXCEPT !.copy = copy]
  <2>1. /\ poll'.slots = poll.slots /\ poll'.phase = "next" /\ poll'.copy = copy /\ poll'.counted = 0
    BY <1>9 DEF Leaves, NoRun
  <2>2. RunBounded(poll')
    BY <1>2, <1>4, <2>1 DEF RunBounded
  <2>3. QED
    BY <1>1, <2>2 DEF CountInv, RowsBounded, RunBounded, Pending
<1>10. CASE poll' = [Goes("entries") EXCEPT !.copy = copy, !.entries = found]
  <2>1. /\ poll'.slots = poll.slots /\ poll'.phase = "entries" /\ poll'.copy = copy
        /\ poll'.counted = 0 /\ poll'.sub = poll.sub /\ poll'.entries = found
    BY <1>2, <1>10 DEF Goes, Runs
  <2>2. Pending(poll') = Cardinality(found)
    BY <1>6, <2>1 DEF Pending
  <2>3. row.today + Cardinality(found) <= MaxPerPoll
    BY <1>3, <1>6, <1>8, PollAssumption
  <2>4. ~InLane => Cardinality(found) <= poll.slots
    BY <1>2, <1>6, <1>8
  <2>5. RunBounded(poll')
    BY <1>2, <1>4, <1>6, <2>1, <2>2, <2>3, <2>4 DEF RunBounded, InLane
  <2>6. QED
    BY <1>1, <2>5 DEF CountInv, RowsBounded, RunBounded, Pending
<1>11. QED
  BY <1>7, <1>9, <1>10

\* The steps of an entry: what they make of the run's numbers.
LEMMA EntryBounded ==
    ASSUME TypeInv, CountInv,
           \/ Reject \/ Defer \/ AlreadyAttached \/ Attach \/ Submit \/ Tag \/ LaneItem
           \/ CountEntry \/ Blocked
    PROVE  CountInv'
<1>1. ~At("idle") /\ ~At("next") /\ ~At("fetch")
  BY DEF Reject, Defer, AlreadyAttached, Attach, Submit, Tag, LaneItem, CountEntry, Blocked, HasEntry, At
<1>2. /\ poll \in Runs /\ poll.sub \in Subs /\ poll.copy \in [Subs -> Rows]
      /\ poll.loaded \in [Subs -> Rows] /\ Row \in Rows
      /\ poll.slots \in 0 .. MaxPerRun /\ poll.slots \in Nat /\ poll.counted \in Nat
      /\ RowsBounded(poll.copy) /\ RowsBounded(rows)
      /\ Row.today <= MaxPerPoll /\ Len(Row.seen) <= SeenMax /\ Row.today \in Nat
      /\ Cardinality(poll.entries) \in Nat /\ MaxPerPoll \in Nat
  BY <1>1, RunHasRows, RunInBounds, PollAssumption DEF CountInv, Rows
<1>3. /\ Row.today + Pending(poll) <= MaxPerPoll
      /\ ~InLane => poll.counted + Pending(poll) <= poll.slots
      /\ InLane => poll.counted + (IF At("answered") \/ At("tagged") THEN 1 ELSE 0) <= poll.slots
  BY <1>1, RunInBounds
<1> DEFINE left == Cardinality(poll.entries)
\* What is left to show of a step that commits nothing ...
<1>4. ASSUME rows' = rows, RunBounded(poll') PROVE CountInv'
  BY <1>2, <1>4 DEF CountInv, RowsBounded, RunBounded, Pending
\* ... and of the steps that commit the copies.
<1>5. ASSUME NEW next \in Runs, NEW lane, Commit(poll.copy, next, lane), next.copy = poll.copy,
             RunBounded(next)
      PROVE  CountInv'
  <2>1. RunBounded([next EXCEPT !.loaded = poll.copy, !.copy = poll.copy])
    <3> DEFINE after == [next EXCEPT !.loaded = poll.copy, !.copy = poll.copy]
    <3>1. /\ after.slots = next.slots /\ after.phase = next.phase /\ after.copy = next.copy
          /\ after.counted = next.counted /\ after.sub = next.sub /\ after.entries = next.entries
      BY <1>5 DEF Runs
    <3> HIDE DEF after
    <3>2. RunBounded(after)
      BY <1>5, <3>1 DEF RunBounded, Pending
    <3>3. QED
      BY <3>2 DEF after
  <2>2. QED
    BY <1>1, <1>2, <1>5, <2>1, CommitBounded
\* A run after such a step, by its numbers.
<1>6. ASSUME NEW r \in Runs, r.phase \in {"entries", "answered", "tagged", "attached"},
             r.slots = poll.slots, r.sub = poll.sub, RowsBounded(r.copy),
             r.copy[poll.sub].today + Pending(r) <= MaxPerPoll,
             ~InLane => r.counted + Pending(r) <= poll.slots,
             InLane => r.counted + (IF r.phase \in {"answered", "tagged"} THEN 1 ELSE 0) <= poll.slots
      PROVE  RunBounded(r)
  BY <1>2, <1>6 DEF RunBounded, InLane
<1>7. CASE Reject \/ Defer \/ AlreadyAttached \/ Attach \/ Submit
  <2>1. HasEntry /\ At("entries") /\ Entry \in Clips /\ ~At("answered") /\ ~At("tagged")
    BY <1>7, EntryIsOne DEF Reject, Defer, AlreadyAttached, Attach, Submit, At, HasEntry
  <2>2. left \in Nat \ {0} /\ Cardinality(poll.entries \ {Entry}) = left - 1
    BY <2>1, EntryLess
  <2>3. Pending(poll) = left
    BY <1>2, <2>1 DEF Pending, At
  <2>4. InLane => poll.counted + 1 <= poll.slots
    BY <1>2, <2>1 DEF HasEntry
  <2>5. Without(Entry) \in Runs
    BY <1>2 DEF Without, Runs
  <2>6. ASSUME NEW r \in Runs, r.phase \in {"entries", "answered", "attached"},
               r.slots = poll.slots, r.sub = poll.sub, r.copy = poll.copy, r.counted = poll.counted,
               r.entries = poll.entries \ {Entry}
        PROVE  RunBounded(r)
    <3>1. Pending(r) \in Nat /\ Pending(r) <= left
      BY <2>2, <2>6 DEF Pending
    <3>2. r.copy[poll.sub].today + Pending(r) <= MaxPerPoll
      BY <1>2, <1>3, <2>2, <2>3, <2>6, <3>1 DEF Row
    <3>3. ~InLane => r.counted + Pending(r) <= poll.slots
      BY <1>2, <1>3, <2>2, <2>3, <2>6, <3>1
    <3>4. InLane => r.counted + (IF r.phase \in {"answered", "tagged"} THEN 1 ELSE 0) <= poll.slots
      BY <1>2, <2>4, <2>6
    <3>5. QED
      BY <1>2, <1>6, <2>6, <3>2, <3>3, <3>4
  <2>7. CASE Reject
    <3>1. Append(poll.rejected, Entry) \in Seq(Clips)
      <4>1. poll.rejected \in Seq(Clips)
        BY <1>2 DEF Runs
      <4>2. QED
        BY <2>1, <4>1
    <3>2. /\ poll' \in Runs /\ poll'.phase = "entries" /\ poll'.slots = poll.slots /\ poll'.sub = poll.sub
          /\ poll'.copy = poll.copy /\ poll'.counted = poll.counted
          /\ poll'.entries = poll.entries \ {Entry}
      BY <1>2, <2>1, <2>7, <3>1 DEF Reject, Without, Runs, At
    <3>3. QED
      BY <1>4, <2>6, <2>7, <3>2 DEF Reject
  <2>8. CASE Defer
    <3>1. /\ poll' \in Runs /\ poll'.phase = "entries" /\ poll'.slots = poll.slots /\ poll'.sub = poll.sub
          /\ poll'.copy = poll.copy /\ poll'.counted = poll.counted
          /\ poll'.entries = poll.entries \ {Entry}
      BY <1>2, <2>1, <2>8 DEF Defer, Deferred, Without, Runs, At
    <3>2. QED
      BY <1>4, <2>6, <2>8, <3>1 DEF Defer
  <2>9. CASE AlreadyAttached
    <3>1. /\ poll' \in Runs /\ poll'.phase = "attached" /\ poll'.slots = poll.slots /\ poll'.sub = poll.sub
          /\ poll'.copy = poll.copy /\ poll'.counted = poll.counted
          /\ poll'.entries = poll.entries \ {Entry}
      BY <1>2, <2>1, <2>9 DEF AlreadyAttached, Without, Runs, Phases
    <3>2. QED
      BY <1>4, <2>6, <2>9, <3>1 DEF AlreadyAttached
  <2>10. CASE Attach
    <3> DEFINE next == [Without(Entry) EXCEPT !.phase = "attached", !.video = Entry]
    <3>1. /\ next \in Runs /\ next.phase = "attached" /\ next.slots = poll.slots /\ next.sub = poll.sub
          /\ next.copy = poll.copy /\ next.counted = poll.counted
          /\ next.entries = poll.entries \ {Entry}
      BY <1>2, <2>1 DEF Without, Runs, Phases
    <3>2. \E lane : Commit(poll.copy, next, lane)
      BY <2>10 DEF Attach
    <3> HIDE DEF next
    <3>3. QED
      BY <1>5, <2>6, <3>1, <3>2
  <2>11. CASE Submit
    <3>1. /\ poll' \in Runs /\ poll'.phase = "answered" /\ poll'.slots = poll.slots /\ poll'.sub = poll.sub
          /\ poll'.copy = poll.copy /\ poll'.counted = poll.counted
          /\ poll'.entries = poll.entries \ {Entry}
      <4>1. \E answer, state :
              poll' = [Without(Entry) EXCEPT !.phase = "answered", !.video = Entry, !.answer = answer,
                         !.posted = IF state = work[Entry] THEN @ ELSE @ + 1]
        BY <2>11, SubmitCases
      <4>2. poll' \in Runs
        BY <2>11, SubmitTypes DEF RunOK
      <4>3. QED
        BY <1>2, <4>1, <4>2 DEF Without, Runs
    <3>2. QED
      BY <1>4, <2>6, <2>11, <3>1 DEF Submit
  <2>12. QED
    BY <1>7, <2>7, <2>8, <2>9, <2>10, <2>11
<1>8. CASE Tag \/ LaneItem \/ CountEntry \/ Blocked
  <2>1. poll.phase \in {"answered", "tagged", "attached"} /\ Pending(poll) = left + 1
    BY <1>8 DEF Tag, LaneItem, CountEntry, Blocked, At, Pending
  <2>2. CASE Tag
    <3> DEFINE next == Goes("tagged")
    <3>1. /\ next \in Runs /\ next.phase = "tagged" /\ next.slots = poll.slots /\ next.sub = poll.sub
          /\ next.copy = poll.copy /\ next.counted = poll.counted /\ next.entries = poll.entries
      BY <1>2 DEF Goes, Runs, Phases
    <3>2. At("answered") /\ Commit(poll.copy, next, items)
      BY <2>2 DEF Tag
    <3> HIDE DEF next
    <3>3. Pending(next) = left + 1
      BY <3>1 DEF Pending
    <3>4. RunBounded(next)
      BY <1>2, <1>3, <1>6, <2>1, <3>1, <3>2, <3>3 DEF Row
    <3>5. QED
      BY <1>5, <3>1, <3>2, <3>4
  <2>3. CASE LaneItem
    <3> DEFINE next == [poll EXCEPT !.phase = "attached", !.counted = @ + 1]
    <3>0. poll.counted + 1 \in Nat
      BY <1>2
    <3>1. /\ next \in Runs /\ next.phase = "attached" /\ next.slots = poll.slots /\ next.sub = poll.sub
          /\ next.copy = poll.copy /\ next.counted = poll.counted + 1 /\ next.entries = poll.entries
      BY <1>2, <3>0 DEF Runs, Phases
    <3>2. At("tagged") /\ InLane /\ \E lane : Commit(poll.copy, next, lane)
      BY <2>3 DEF LaneItem
    <3> HIDE DEF next
    <3>3. Pending(next) = left + 1
      BY <3>1 DEF Pending
    <3>4. RunBounded(next)
      BY <1>2, <1>3, <1>6, <2>1, <3>1, <3>2, <3>3 DEF Row
    <3>5. QED
      BY <1>5, <3>1, <3>2, <3>4
  <2>4. CASE CountEntry \/ Blocked
    <3>1. poll' \in Runs
      BY <2>4, EntryTypes DEF RunOK
    <3> DEFINE row == Counted(Row)
    <3>2. row \in Rows /\ row.today = Row.today + 1 /\ row.seen = Row.seen
      <4>1. ASSUME NEW x \in Rows
            PROVE  Counted(x).today = x.today + 1 /\ Counted(x).seen = x.seen
        BY DEF Counted, Rows
      <4>2. QED
        BY <1>2, <4>1, EmptySeq, PolledRows
    <3>3. /\ poll'.phase = "entries" /\ poll'.slots = poll.slots /\ poll'.sub = poll.sub
          /\ poll'.entries = poll.entries
          /\ \/ poll'.copy = CopyWith(row) /\ poll'.counted = IF InLane THEN poll.counted ELSE poll.counted + 1
             \/ poll'.copy = poll.copy /\ poll'.counted = poll.counted
      <4> DEFINE copy    == CopyWith(row)
                 took    == Append(poll.took, poll.video)
                 counted == IF InLane THEN poll.counted ELSE poll.counted + 1
      <4>1. \/ poll' = [poll EXCEPT !.phase = "entries", !.copy = copy, !.took = took, !.video = 0,
                                   !.answer = "none", !.counted = counted]
            \/ poll' = [poll EXCEPT !.phase = "entries", !.took = took, !.video = 0, !.answer = "none"]
        BY <1>2, <2>4 DEF CountEntry, Blocked, Runs
      <4> HIDE DEF copy, took, counted
      <4>2. /\ poll'.phase = "entries" /\ poll'.slots = poll.slots /\ poll'.sub = poll.sub
            /\ poll'.entries = poll.entries
            /\ \/ poll'.copy = copy /\ poll'.counted = counted
               \/ poll'.copy = poll.copy /\ poll'.counted = poll.counted
        BY <1>2, <4>1 DEF Runs
      <4>3. QED
        BY <4>2 DEF copy, counted
    <3>4. /\ \A s \in Subs : CopyWith(row)[s] = IF s = poll.sub THEN row ELSE poll.copy[s]
      BY <1>2 DEF CopyWith
    <3> HIDE DEF row
    <3>5. RowsBounded(poll'.copy) /\ poll'.copy[poll.sub].today <= Row.today + 1
          /\ poll'.copy[poll.sub].today \in Nat
      <4>1. Row.today + 1 <= MaxPerPoll
        BY <1>2, <1>3, <2>1
      <4>2. RowsBounded(CopyWith(row))
        BY <1>2, <3>2, <3>4, <4>1 DEF RowsBounded
      <4>3. CASE poll'.copy = CopyWith(row)
        BY <1>2, <3>2, <3>4, <4>2, <4>3
      <4>4. CASE poll'.copy = poll.copy
        BY <1>2, <4>4 DEF Row
      <4>5. QED
        BY <3>3, <4>3, <4>4
    <3>6. Pending(poll') = left
      BY <1>2, <3>3 DEF Pending
    <3>7. poll'.copy[poll.sub].today + left <= MaxPerPoll
      BY <1>2, <1>3, <2>1, <3>5
    <3>8. ~InLane => poll'.counted + left <= poll.slots
      BY <1>2, <1>3, <2>1, <3>3
    <3>9. InLane => poll'.counted <= poll.slots
      BY <1>2, <1>3, <3>3
    <3>10. poll'.counted \in Nat
      BY <3>1 DEF Runs
    <3>11. RunBounded(poll')
      BY <1>2, <1>6, <3>1, <3>3, <3>5, <3>6, <3>7, <3>8, <3>9, <3>10
    <3>12. QED
      BY <1>4, <2>4, <3>11 DEF CountEntry, Blocked
  <2>5. QED
    BY <1>8, <2>2, <2>3, <2>4
<1>9. QED
  BY <1>7, <1>8

\* CountInv holds at first, and every step keeps it.
LEMMA CountInvariant ==
    /\ PollInit => CountInv
    /\ TypeInv /\ CountInv /\ [PollNext]_pollVars => CountInv'
<1>0. /\ \A id : NewRow(id).today = 0 /\ NewRow(id).seen = <<>> /\ Len(NewRow(id).seen) = 0
      /\ MaxPerPoll \in Nat /\ SeenMax \in Nat /\ MaxPerRun \in Nat
  BY PollAssumption DEF NewRow
<1>1. RunBounded(NoRun)
  BY <1>0 DEF RunBounded, NoRun
<1>2. ASSUME PollInit PROVE CountInv
  <2>1. \A s \in Subs : rows[s].today = 0 /\ Len(rows[s].seen) = 0
    BY <1>0, <1>2 DEF PollInit
  <2>2. RowsBounded(rows)
    BY <1>0, <2>1 DEF RowsBounded
  <2>3. QED
    BY <1>1, <1>2, <2>2 DEF PollInit, CountInv
<1>3. ASSUME TypeInv, CountInv, [PollNext]_pollVars PROVE CountInv'
  <2>1. RunBounded(poll) /\ RowsBounded(rows) /\ rows \in [Subs -> Rows]
    BY <1>3 DEF CountInv, TypeInv
  \* What is left to show of a step that keeps the run, or ends it.
  <2>2. ASSUME poll' = poll \/ poll' = NoRun,
               \A s \in Subs : \/ rows'[s].today = rows[s].today /\ rows'[s].seen = rows[s].seen
                               \/ rows'[s].today = 0 /\ Len(rows'[s].seen) = 0
        PROVE  CountInv'
    <3>1. RowsBounded(rows')
      BY <1>0, <2>1, <2>2 DEF RowsBounded
    <3>2. RunBounded(poll')
      BY <1>1, <2>1, <2>2
    <3>3. QED
      BY <3>1, <3>2 DEF CountInv, RowsBounded, RunBounded, Pending
  <2>3. ASSUME RunKilled \/ UNCHANGED pollVars PROVE CountInv'
    BY <2>2, <2>3 DEF RunKilled, pollVars
  <2>4. ASSUME World PROVE CountInv'
    <3>1. poll' = poll
      BY <2>4 DEF World, Upload, Airs, PipelineEnds, PersonRetries, NewDay, BecomesDue, Enable, Disable,
                  ResetFailures, DeleteRow, Subscribe
    <3>2. ASSUME NEW s \in Subs
          PROVE  \/ rows'[s].today = rows[s].today /\ rows'[s].seen = rows[s].seen
                 \/ rows'[s].today = 0 /\ Len(rows'[s].seen) = 0
      <4>1. rows[s] \in Rows
        BY <2>1
      <4>2. CASE \/ rows' = rows
                 \/ NewDay
                 \/ \E t \in Subs : BecomesDue(t) \/ Enable(t) \/ Disable(t) \/ ResetFailures(t)
        <5>1. CASE rows' = rows \/ NewDay
          BY <2>1, <4>1, <5>1 DEF NewDay, Rows
        <5>2. ASSUME NEW t \in Subs, BecomesDue(t) \/ Enable(t) \/ Disable(t) \/ ResetFailures(t)
              PROVE  rows'[s].today = rows[s].today /\ rows'[s].seen = rows[s].seen
          <6>1. rows[t] \in Rows
            BY <2>1
          <6>2. \E row \in Rows : /\ rows' = [rows EXCEPT ![t] = row]
                                 /\ row.today = rows[t].today /\ row.seen = rows[t].seen
            BY <5>2, <6>1 DEF BecomesDue, Enable, Disable, ResetFailures, Rows
          <6>3. QED
            BY <2>1, <6>2
        <5>3. QED
          BY <4>2, <5>1, <5>2
      <4>3. CASE \E t \in Subs : DeleteRow(t) \/ Subscribe(t)
        <5>1. PICK t \in Subs, id \in {0, MaxRows} : rows' = [rows EXCEPT ![t] = NewRow(id)]
          BY <4>3 DEF DeleteRow, Subscribe
        <5>2. CASE s = t
          BY <1>0, <2>1, <5>1, <5>2
        <5>3. CASE s # t
          BY <2>1, <5>1, <5>3
        <5>4. QED
          BY <5>2, <5>3
      <4>4. QED
        BY <2>4, <4>2, <4>3 DEF World, Upload, Airs, PipelineEnds, PersonRetries
    <3>3. QED
      BY <2>2, <3>1, <3>2
  <2>5. QED
    BY <1>3, <2>3, <2>4, QueryBounded, EndBounded, FeedBounded, EntryBounded DEF PollNext, RunSteps
<1>4. QED
  BY <1>2, <1>3

\* Every variable keeps its type, no row counts more than a day's share or keeps more ids than
\* the column, and no run has more slots than its cap (mark_poll_success, _run_poll).
THEOREM PollTypeCorrect == PollSpec => []PollTypeOK
<1>1. TypeInv /\ CountInv => PollTypeOK
  BY DEF TypeInv, CountInv, RowsBounded, RunBounded, PollTypeOK
<1>2. QED
  BY <1>1, PollTypes, CountInvariant, PTL DEF PollSpec

-----------------------------------------------------------------------------
(***************************************************************************)
(* The share of a day.                                                     *)
(***************************************************************************)
\* Attempts that a row says were made today.
Today(row) == IF row.fresh THEN row.today ELSE 0

\* The run works on entries of s.
Working(s) == poll.phase \in {"entries", "answered", "tagged", "attached"} /\ s = poll.sub

\* The session and the rows agree on the counters, except for what the run counts now.
SessionInSync ==
    ~At("idle") =>
      /\ ToSet(poll.todo) \cup (IF At("next") THEN {} ELSE {poll.sub})
            \subseteq {s \in Subs : poll.loaded[s].id # 0}
      /\ \A s \in Subs :
           /\ poll.copy[s].id = poll.loaded[s].id
           /\ poll.loaded[s].id = 0 => poll.copy[s] = poll.loaded[s]
           /\ poll.loaded[s].id # 0 => /\ rows[s].id = poll.loaded[s].id
                                       /\ rows[s].today = poll.loaded[s].today
                                       /\ rows[s].fresh = poll.loaded[s].fresh
           /\ ~Working(s) => Today(poll.copy[s]) = Today(poll.loaded[s])

\* What was made is in the rows, or in the copy of the row at hand; a slip excuses two.
InRows(s, n) == made[s] <= Today(rows[s]) + 2 * slips + n
InCopy(n)    == made[poll.sub] <= Row.today + 2 * slips + n

MadeIsCounted ==
    /\ \A s \in Subs : ~Working(s) => InRows(s, 0)
    /\ At("entries") \/ At("answered") \/ At("tagged") \/ At("attached") => Row.fresh
    /\ At("entries") => InRows(poll.sub, 1) /\ InCopy(0)
    /\ At("answered") => /\ InRows(poll.sub, 2) /\ InCopy(1)
                         /\ poll.answer # "ok" => InCopy(0)
                         /\ poll.answer = "blocked" => InRows(poll.sub, 1)
    /\ At("tagged") \/ At("attached") => InRows(poll.sub, 1) /\ InCopy(1)

LimitInv == SessionInSync /\ MadeIsCounted

\* The subscriptions that a query returns exist.
LEMMA LoadsExist ==
    ASSUME NEW S \in SUBSET Subs, NEW todo \in Loads(S)
    PROVE  ToSet(todo) \subseteq {s \in S : rows[s].id # 0}
<1> DEFINE T == {s \in S : rows[s].id # 0}
<1>1. todo \in [1 .. Cardinality(T) -> T]
  BY DEF Loads, SetToSeqs
<1> HIDE DEF T
<1>2. ToSet(todo) \subseteq T
  BY <1>1 DEF ToSet
<1>3. QED
  BY <1>2 DEF T

\* The rest of a list is of the list.
LEMMA RestOfTodo ==
    ASSUME NEW todo \in Seq(Subs), todo # <<>>
    PROVE  ToSet(Tail(todo)) \cup {Head(todo)} \subseteq ToSet(todo)
<1>1. Len(todo) \in Nat \ {0} /\ DOMAIN todo = 1 .. Len(todo) /\ Head(todo) = todo[1]
  OBVIOUS
<1>2. /\ Tail(todo) \in Seq(Subs) /\ Len(Tail(todo)) = Len(todo) - 1
      /\ \A i \in 1 .. Len(todo) - 1 : Tail(todo)[i] = todo[i + 1]
  OBVIOUS
<1>3. DOMAIN Tail(todo) = 1 .. Len(todo) - 1
  BY <1>2
<1>4. ASSUME NEW i \in DOMAIN Tail(todo) PROVE Tail(todo)[i] \in ToSet(todo)
  <2>1. i + 1 \in DOMAIN todo /\ Tail(todo)[i] = todo[i + 1]
    BY <1>1, <1>2, <1>3, <1>4
  <2>2. QED
    BY <2>1 DEF ToSet
<1>5. Head(todo) \in ToSet(todo)
  BY <1>1 DEF ToSet
<1>6. QED
  BY <1>4, <1>5 DEF ToSet

\* What a poll makes of a row keeps what it counts of the day.
LEMMA PolledToday ==
    ASSUME NEW row \in Rows, NEW new \in Seq(Clips)
    PROVE  /\ Succeeded(row, new).id = row.id /\ Succeeded(row, new).today = row.today
           /\ Succeeded(row, new).fresh = row.fresh
           /\ Failed(row).id = row.id /\ Failed(row).today = row.today /\ Failed(row).fresh = row.fresh
           /\ CounterReset(row).id = row.id /\ CounterReset(row).fresh
           /\ CounterReset(row).today = Today(row)
           /\ Counted(row).id = row.id /\ Counted(row).fresh = row.fresh
           /\ Counted(row).today = row.today + 1
BY DEF Succeeded, Failed, CounterReset, Counted, Today, Rows

\* A commit of a session in sync succeeds, and leaves it in sync.
LEMMA CommitSync ==
    ASSUME TypeInv, SessionInSync, ~At("idle"), NEW copy \in [Subs -> Rows],
           NEW next \in Runs, NEW lane, Commit(copy, next, lane),
           \A s \in Subs : /\ copy[s].id = poll.loaded[s].id
                           /\ poll.loaded[s].id = 0 => copy[s] = poll.loaded[s],
           ToSet(next.todo) \cup (IF next.phase = "next" THEN {} ELSE {next.sub})
              \subseteq {s \in Subs : poll.loaded[s].id # 0},
           next.phase # "idle"
    PROVE  /\ poll' = [next EXCEPT !.loaded = copy, !.copy = copy]
           /\ SessionInSync'
           /\ \A s \in Subs : /\ poll.loaded[s].id # 0 => Today(rows'[s]) = Today(copy[s])
                              /\ poll.loaded[s].id = 0 => rows'[s] = rows[s]
<1>1. /\ poll.loaded \in [Subs -> Rows] /\ poll.copy \in [Subs -> Rows] /\ rows \in [Subs -> Rows]
  BY RunHasRows DEF TypeInv
<1>2. \A s \in Subs : poll.loaded[s].id # 0 => /\ rows[s].id = poll.loaded[s].id
                                               /\ rows[s].today = poll.loaded[s].today
                                               /\ rows[s].fresh = poll.loaded[s].fresh
  BY DEF SessionInSync
<1>3. Matches(copy)
  BY <1>2 DEF Matches
<1>4. rows' = Written(copy) /\ poll' = [next EXCEPT !.loaded = copy, !.copy = copy]
  BY <1>3 DEF Commit
<1>5. ASSUME NEW s \in Subs
      PROVE  /\ poll.loaded[s].id # 0 => /\ rows'[s].id = copy[s].id /\ rows'[s].today = copy[s].today
                                         /\ rows'[s].fresh = copy[s].fresh
             /\ poll.loaded[s].id = 0 => rows'[s] = rows[s]
  <2>1. rows[s] \in Rows /\ poll.loaded[s] \in Rows /\ copy[s] \in Rows
    BY <1>1
  <2> DEFINE row == [f \in DOMAIN rows[s] |-> IF copy[s][f] = poll.loaded[s][f] THEN rows[s][f]
                                                                           ELSE copy[s][f]]
  <2>2. rows'[s] = IF copy[s] = poll.loaded[s] THEN rows[s] ELSE row
    BY <1>4 DEF Written
  <2>3. /\ row.id = IF copy[s].id = poll.loaded[s].id THEN rows[s].id ELSE copy[s].id
        /\ row.today = IF copy[s].today = poll.loaded[s].today THEN rows[s].today ELSE copy[s].today
        /\ row.fresh = IF copy[s].fresh = poll.loaded[s].fresh THEN rows[s].fresh ELSE copy[s].fresh
    BY <2>1 DEF Rows
  <2> HIDE DEF row
  <2>4. QED
    BY <1>2, <2>2, <2>3
<1>6. /\ poll'.todo = next.todo /\ poll'.phase = next.phase /\ poll'.sub = next.sub
      /\ poll'.loaded = copy /\ poll'.copy = copy
  BY <1>4 DEF Runs
<1>7. SessionInSync'
  <2>1. ToSet(poll'.todo) \cup (IF poll'.phase = "next" THEN {} ELSE {poll'.sub})
           \subseteq {s \in Subs : poll'.loaded[s].id # 0}
    BY <1>6
  <2>2. QED
    BY <1>5, <1>6, <2>1 DEF SessionInSync, At
<1>8. QED
  BY <1>4, <1>5, <1>7 DEF Today

\* What the invariant says of the run at hand.
LEMMA RunInSync ==
    ASSUME TypeInv, SessionInSync, ~At("idle")
    PROVE  /\ poll \in Runs /\ poll.loaded \in [Subs -> Rows] /\ poll.copy \in [Subs -> Rows]
           /\ \A s \in Subs : /\ poll.copy[s].id = poll.loaded[s].id
                              /\ poll.loaded[s].id = 0 => poll.copy[s] = poll.loaded[s]
                              /\ poll.loaded[s].id # 0 => Today(rows[s]) = Today(poll.loaded[s])
                              /\ ~Working(s) => Today(poll.copy[s]) = Today(poll.loaded[s])
           /\ ToSet(poll.todo) \subseteq {s \in Subs : poll.loaded[s].id # 0}
           /\ ~At("next") => poll.sub \in Subs /\ Row \in Rows /\ poll.loaded[poll.sub].id # 0
<1>1. ~At("next") => poll.sub \in Subs /\ Row \in Rows /\ poll.loaded[poll.sub].id # 0
  BY RunHasRows DEF SessionInSync
<1>2. ToSet(poll.todo) \subseteq {s \in Subs : poll.loaded[s].id # 0}
  BY DEF SessionInSync
<1>3. QED
  BY <1>1, <1>2, RunHasRows DEF SessionInSync, Today

\* Steps that keep the rows and leave nothing to work on.
LEMMA RestLimit ==
    ASSUME LimitInv, rows' = rows, made' = made, slips' = slips,
           \A s : ~Working(s), poll'.phase \in {"idle", "next", "fetch"}
    PROVE  MadeIsCounted'
<1>1. \A s \in Subs : InRows(s, 0)'
  BY DEF LimitInv, MadeIsCounted, InRows
<1>2. QED
  BY <1>1 DEF MadeIsCounted, At

\* The queries of a run.
LEMMA QueryLimit ==
    ASSUME TypeInv, LimitInv, Begin \/ Skip \/ Take \/ Stop
    PROVE  LimitInv'
<1>1. rows' = rows /\ made' = made /\ slips' = slips /\ rows \in [Subs -> Rows]
      /\ TypeInv' /\ SessionInSync
  <2>1. PollNext
    BY DEF PollNext, RunSteps
  <2>2. QED
    BY <2>1, PollTypes DEF Begin, Skip, Take, Stop, TypeInv, LimitInv
<1>2. \A s : ~Working(s)
  BY DEF Begin, Skip, Take, Stop, At, Working
<1>3. CASE Begin
  <2>1. PICK todo \in Loads(Watches) :
          poll' = [NoRun EXCEPT !.phase = "next", !.todo = todo, !.slots = MaxPerRun,
                                !.loaded = rows, !.copy = rows]
    BY <1>3 DEF Begin
  <2>2. /\ poll'.phase = "next" /\ poll'.todo = todo /\ poll'.loaded = rows /\ poll'.copy = rows
    BY <2>1 DEF NoRun
  <2>3. ToSet(todo) \subseteq {s \in Subs : rows[s].id # 0}
    BY LoadsExist DEF Subs
  <2>4. SessionInSync'
    BY <1>1, <2>2, <2>3 DEF SessionInSync, At
  <2>5. QED
    BY <1>1, <1>2, <2>2, <2>4, RestLimit DEF LimitInv
<1>4. CASE Skip \/ Take
  <2>1. ~At("idle") /\ At("next") /\ poll.todo # <<>>
    BY <1>4 DEF Skip, Take, At
  <2>2. poll \in Runs /\ poll.todo \in Seq(Subs)
    BY <1>1, <2>1, RunInSync DEF Runs
  <2>3. /\ poll'.phase \in {"next", "fetch"} /\ poll'.todo = Tail(poll.todo)
        /\ poll'.loaded = poll.loaded /\ poll'.copy = poll.copy
        /\ poll'.phase = "fetch" => poll'.sub = Head(poll.todo)
    BY <1>4, <2>1, <2>2 DEF Skip, Take, At, Runs
  <2>4. ToSet(poll'.todo) \cup (IF poll'.phase = "next" THEN {} ELSE {poll'.sub}) \subseteq ToSet(poll.todo)
    BY <2>1, <2>2, <2>3, RestOfTodo
  <2>5. \A s : ~Working(s)'
    BY <2>3 DEF Working
  <2>6. SessionInSync'
    BY <1>1, <1>2, <2>1, <2>3, <2>4, <2>5 DEF SessionInSync, At
  <2>7. QED
    BY <1>1, <1>2, <2>3, <2>6, RestLimit DEF LimitInv
<1>5. CASE Stop
  <2>1. ~At("idle") /\ At("next")
    BY <1>5 DEF Stop, At
  <2>2. poll \in Runs
    BY <1>1, <2>1, RunInSync
  <2> DEFINE loaded == [s \in Subs |-> IF s \in LaneWatches THEN rows[s] ELSE poll.loaded[s]]
             copy   == [s \in Subs |-> IF s \in LaneWatches THEN rows[s] ELSE poll.copy[s]]
  <2>3. PICK todo \in Loads(LaneWatches) :
          poll' = IF poll.lanes THEN NoRun
                  ELSE [poll EXCEPT !.lanes = TRUE, !.todo = todo, !.loaded = loaded, !.copy = copy]
    BY <1>5 DEF Stop
  <2>4. CASE poll.lanes
    <3>1. poll'.phase = "idle"
      BY <2>3, <2>4 DEF NoRun
    <3>2. SessionInSync'
      BY <3>1 DEF SessionInSync, At
    <3>3. QED
      BY <1>1, <1>2, <3>1, <3>2, RestLimit DEF LimitInv
  <2>5. CASE ~poll.lanes
    <3>1. poll'.phase = "next" /\ poll'.todo = todo /\ poll'.loaded = loaded /\ poll'.copy = copy
      BY <2>1, <2>2, <2>3, <2>5 DEF Runs, At
    <3>2. ToSet(todo) \subseteq {s \in Subs : loaded[s].id # 0}
      <4>1. ToSet(todo) \subseteq {s \in LaneWatches : rows[s].id # 0}
        BY LoadsExist DEF Subs
      <4>2. QED
        BY <4>1 DEF Subs
    <3>3. \A s \in Subs : /\ s \in LaneWatches => loaded[s] = rows[s] /\ copy[s] = rows[s]
                          /\ s \notin LaneWatches => loaded[s] = poll.loaded[s] /\ copy[s] = poll.copy[s]
      OBVIOUS
    <3> HIDE DEF loaded, copy
    <3>4. SessionInSync'
      BY <1>1, <1>2, <2>1, <3>1, <3>2, <3>3 DEF SessionInSync, At
    <3>5. QED
      BY <1>1, <1>2, <3>1, <3>4, RestLimit DEF LimitInv
  <2>6. QED
    BY <2>4, <2>5
<1>6. QED
  BY <1>3, <1>4, <1>5

\* The ends of the poll of a subscription.
LEMMA EndLimit ==
    ASSUME TypeInv, LimitInv, FeedFails \/ FeedHasNothing \/ SubmitFails \/ Finish
    PROVE  LimitInv'
<1>1. ~At("idle") /\ ~At("next") /\ made' = made /\ slips' = slips
      /\ (At("fetch") \/ At("entries") \/ (At("answered") /\ poll.answer = "error"))
  BY DEF FeedFails, FeedHasNothing, SubmitFails, Finish, At
<1>2. /\ poll \in Runs /\ poll.loaded \in [Subs -> Rows] /\ poll.copy \in [Subs -> Rows]
      /\ poll.sub \in Subs /\ Row \in Rows /\ poll.loaded[poll.sub].id # 0
      /\ ToSet(poll.todo) \subseteq {s \in Subs : poll.loaded[s].id # 0}
      /\ \A s \in Subs : /\ poll.copy[s].id = poll.loaded[s].id
                         /\ poll.loaded[s].id = 0 => poll.copy[s] = poll.loaded[s]
                         /\ poll.loaded[s].id # 0 => Today(rows[s]) = Today(poll.loaded[s])
                         /\ ~Working(s) => Today(poll.copy[s]) = Today(poll.loaded[s])
  BY <1>1, RunInSync DEF LimitInv
<1>3. MadeIsCounted
  BY DEF LimitInv
<1>4. \E row \in Rows, slots \in Int :
         /\ row.id = Row.id /\ row.today = Row.today /\ row.fresh = Row.fresh
         /\ Commit(CopyWith(row), Leaves(slots), items)
  <2>1. Marked \in Seq(Clips) /\ poll.slots \in Int /\ poll.counted \in Int
    BY <1>2 DEF Marked, Runs
  <2>2. Failed(Row) \in Rows /\ Succeeded(Row, <<>>) \in Rows /\ Succeeded(Row, Marked) \in Rows
    BY <1>2, <2>1, EmptySeq, PolledRows
  <2>3. /\ Failed(Row).id = Row.id /\ Failed(Row).today = Row.today /\ Failed(Row).fresh = Row.fresh
        /\ \A new \in Seq(Clips) : /\ Succeeded(Row, new).id = Row.id
                                   /\ Succeeded(Row, new).today = Row.today
                                   /\ Succeeded(Row, new).fresh = Row.fresh
    BY <1>2, EmptySeq, PolledToday
  <2>4. CASE FeedFails
    BY <2>1, <2>2, <2>3, <2>4 DEF FeedFails
  <2>5. CASE FeedHasNothing
    BY <2>1, <2>2, <2>3, <2>5, EmptySeq DEF FeedHasNothing
  <2>6. CASE SubmitFails
    <3> DEFINE slots == IF InLane THEN poll.slots - poll.counted ELSE poll.slots
    <3>1. slots \in Int
      BY <2>1
    <3>2. Commit(CopyWith(Failed(Row)), Leaves(slots), items)
      BY <2>6 DEF SubmitFails
    <3> HIDE DEF slots
    <3>3. QED
      BY <2>2, <2>3, <3>1, <3>2
  <2>7. CASE Finish
    <3>1. poll.slots - poll.counted \in Int
      BY <2>1
    <3>2. QED
      BY <2>1, <2>2, <2>3, <2>7, <3>1 DEF Finish
  <2>8. QED
    BY <2>4, <2>5, <2>6, <2>7
<1>5. PICK row \in Rows, slots \in Int :
         /\ row.id = Row.id /\ row.today = Row.today /\ row.fresh = Row.fresh
         /\ Commit(CopyWith(row), Leaves(slots), items)
  BY <1>4
<1> DEFINE copy == CopyWith(row)
           next == Leaves(slots)
<1>6. /\ copy \in [Subs -> Rows]
      /\ \A s \in Subs : copy[s] = IF s = poll.sub THEN row ELSE poll.copy[s]
  BY <1>2 DEF CopyWith
<1>7. next \in Runs /\ next.phase = "next" /\ next.todo = poll.todo
  <2>1. RunOK(next)
    BY <1>1, RunHasRows
  <2>2. QED
    BY <2>1 DEF RunOK, Leaves, NoRun
<1>8. Commit(copy, next, items)
  BY <1>5
<1> HIDE DEF copy, next
<1>9. \A s \in Subs : /\ copy[s].id = poll.loaded[s].id
                      /\ poll.loaded[s].id = 0 => copy[s] = poll.loaded[s]
  BY <1>2, <1>5, <1>6 DEF Row
<1>10. /\ poll' = [next EXCEPT !.loaded = copy, !.copy = copy]
       /\ SessionInSync'
       /\ \A s \in Subs : /\ poll.loaded[s].id # 0 => Today(rows'[s]) = Today(copy[s])
                          /\ poll.loaded[s].id = 0 => rows'[s] = rows[s]
  BY <1>1, <1>2, <1>6, <1>7, <1>8, <1>9, CommitSync DEF LimitInv
<1>11. poll'.phase = "next"
  BY <1>7, <1>10 DEF Runs
<1>12. ASSUME NEW s \in Subs PROVE made[s] <= Today(rows'[s]) + 2 * slips + 0
  <2>1. CASE ~Working(s)
    <3>1. Today(rows'[s]) = Today(rows[s])
      <4>1. CASE poll.loaded[s].id = 0
        BY <1>10, <4>1
      <4>2. CASE poll.loaded[s].id # 0
        <5>1. Today(copy[s]) = Today(poll.copy[s])
          BY <1>5, <1>6 DEF Today, Row
        <5>2. QED
          BY <1>2, <1>10, <2>1, <4>2, <5>1
      <4>3. QED
        BY <4>1, <4>2
    <3>2. QED
      BY <1>3, <2>1, <3>1 DEF MadeIsCounted, InRows
  <2>2. CASE Working(s)
    <3>1. s = poll.sub /\ (At("entries") \/ (At("answered") /\ poll.answer = "error"))
      BY <1>1, <2>2 DEF Working, At
    <3>2. Row.fresh /\ InCopy(0)
      BY <1>3, <3>1 DEF MadeIsCounted
    <3>3. Today(rows'[s]) = Row.today
      <4>1. copy[s] = row /\ Today(rows'[s]) = Today(copy[s])
        BY <1>2, <1>6, <1>10, <3>1
      <4>2. row.fresh /\ row.today = Row.today
        BY <1>5, <3>2, Zenon
      <4>3. QED
        BY <4>1, <4>2 DEF Today
    <3>4. QED
      BY <3>1, <3>2, <3>3 DEF InCopy
  <2>3. QED
    BY <2>1, <2>2
<1>13. MadeIsCounted'
  <2>1. \A s \in Subs : InRows(s, 0)'
    BY <1>1, <1>12 DEF InRows
  <2>2. QED
    BY <1>11, <2>1 DEF MadeIsCounted, At
<1>14. QED
  BY <1>10, <1>13 DEF LimitInv

\* The entries of a feed: the counter of the day is reset in the copy.
LEMMA FeedLimit ==
    ASSUME TypeInv, LimitInv, FeedHasEntries
    PROVE  LimitInv'
<1>1. At("fetch") /\ ~At("idle") /\ ~At("next") /\ rows' = rows /\ made' = made /\ slips' = slips
  BY DEF FeedHasEntries, At
<1>2. /\ poll \in Runs /\ poll.loaded \in [Subs -> Rows] /\ poll.copy \in [Subs -> Rows]
      /\ poll.sub \in Subs /\ Row \in Rows /\ poll.loaded[poll.sub].id # 0
      /\ ToSet(poll.todo) \subseteq {s \in Subs : poll.loaded[s].id # 0}
      /\ \A s \in Subs : /\ poll.copy[s].id = poll.loaded[s].id
                         /\ poll.loaded[s].id = 0 => poll.copy[s] = poll.loaded[s]
                         /\ poll.loaded[s].id # 0 => Today(rows[s]) = Today(poll.loaded[s])
                         /\ ~Working(s) => Today(poll.copy[s]) = Today(poll.loaded[s])
  BY <1>1, RunInSync DEF LimitInv
<1>3. \A s : ~Working(s)
  BY <1>1 DEF Working, At
<1> DEFINE row == CounterReset(Row)
           copy == CopyWith(row)
<1>4. row \in Rows /\ row.id = Row.id /\ row.fresh /\ row.today = Today(Row)
  BY <1>2, EmptySeq, PolledRows, PolledToday
<1>5. \A s \in Subs : copy[s] = IF s = poll.sub THEN row ELSE poll.copy[s]
  BY <1>2 DEF CopyWith
<1>6. \/ poll' = [Leaves(poll.slots) EXCEPT !.copy = copy]
      \/ \E found : poll' = [Goes("entries") EXCEPT !.copy = copy, !.entries = found]
  BY DEF FeedHasEntries
<1>7. Today(row) = Today(Row)
  BY <1>4 DEF Today
<1> HIDE DEF row, copy
<1>8. \A s \in Subs : /\ copy[s].id = poll.loaded[s].id
                      /\ poll.loaded[s].id = 0 => copy[s] = poll.loaded[s]
                      /\ Today(copy[s]) = Today(poll.loaded[s])
  BY <1>2, <1>3, <1>4, <1>5, <1>7 DEF Row
<1>9. /\ poll'.phase \in {"next", "entries"} /\ poll'.loaded = poll.loaded /\ poll'.copy = copy
      /\ poll'.todo = poll.todo
      /\ poll'.phase = "entries" => poll'.sub = poll.sub
  <2>1. CASE poll' = [Leaves(poll.slots) EXCEPT !.copy = copy]
    BY <2>1 DEF Leaves, NoRun
  <2>2. CASE \E found : poll' = [Goes("entries") EXCEPT !.copy = copy, !.entries = found]
    BY <1>2, <2>2 DEF Goes, Runs
  <2>3. QED
    BY <1>6, <2>1, <2>2
<1>10. SessionInSync'
  <2>1. ToSet(poll'.todo) \cup (IF poll'.phase = "next" THEN {} ELSE {poll'.sub})
           \subseteq {s \in Subs : poll'.loaded[s].id # 0}
    BY <1>2, <1>9
  <2>2. QED
    BY <1>1, <1>8, <1>9, <2>1 DEF LimitInv, SessionInSync, At
<1>11. MadeIsCounted'
  <2>1. \A s \in Subs : made[s] <= Today(rows[s]) + 2 * slips + 0
    BY <1>3 DEF LimitInv, MadeIsCounted, InRows
  <2>2. \A s \in Subs : InRows(s, 0)'
    BY <1>1, <2>1 DEF InRows
  <2>3. poll'.phase = "entries" => Row' = row
    BY <1>2, <1>5, <1>9 DEF Row
  <2>4. row.today = Today(rows[poll.sub])
    BY <1>2, <1>3, <1>4 DEF Row
  <2>5. poll'.phase = "entries" => InCopy(0)'
    BY <1>1, <1>2, <1>9, <2>1, <2>3, <2>4 DEF InCopy
  <2>6. made[poll.sub] \in Nat /\ slips \in Nat /\ Today(rows[poll.sub]) \in Nat
    BY <1>2 DEF TypeInv, Today, Rows
  <2>7. poll'.phase = "entries" => InRows(poll.sub, 1)'
    BY <1>1, <1>2, <1>9, <2>1, <2>6 DEF InRows
  <2>8. QED
    BY <1>4, <1>9, <2>2, <2>3, <2>5, <2>7 DEF MadeIsCounted, At
<1>12. QED
  BY <1>10, <1>11 DEF LimitInv

\* Steps on the entries of a run that commit nothing.
LEMMA QuietSync ==
    ASSUME TypeInv, LimitInv, ~At("idle"), ~At("next"), rows' = rows,
           poll'.todo = poll.todo, poll'.loaded = poll.loaded, poll'.sub = poll.sub,
           poll'.phase \in {"entries", "answered", "tagged", "attached"},
           \A s \in Subs : s # poll.sub => poll'.copy[s] = poll.copy[s],
           poll'.copy[poll.sub].id = Row.id
    PROVE  SessionInSync'
<1>1. /\ poll.sub \in Subs /\ poll.loaded[poll.sub].id # 0
      /\ ToSet(poll.todo) \subseteq {s \in Subs : poll.loaded[s].id # 0}
  BY RunInSync DEF LimitInv
<1>2. \A s \in Subs : /\ s # poll.sub => ~Working(s)
                      /\ Working(s)' <=> s = poll.sub
  BY DEF Working
<1>3. QED
  BY <1>1, <1>2 DEF LimitInv, SessionInSync, At, Row

\* The steps of an entry that commit nothing and submit nothing.
LEMMA QuietLimit ==
    ASSUME TypeInv, LimitInv, Reject \/ Defer \/ AlreadyAttached \/ CountEntry \/ Blocked
    PROVE  LimitInv'
<1>1. ~At("idle") /\ ~At("next") /\ rows' = rows /\ made' = made /\ slips' = slips
  BY DEF Reject, Defer, AlreadyAttached, CountEntry, Blocked, HasEntry, At
<1>2. /\ poll \in Runs /\ poll.copy \in [Subs -> Rows] /\ poll.sub \in Subs /\ Row \in Rows
      /\ made[poll.sub] \in Nat /\ slips \in Nat
      /\ Today(rows[poll.sub]) \in Nat /\ Row.today \in Nat
  BY <1>1, RunHasRows DEF TypeInv, Today, Rows
<1>3. /\ MadeIsCounted
      /\ \A s \in Subs : s # poll.sub => InRows(s, 0)
  BY DEF LimitInv, MadeIsCounted, Working
\* What is left to show of such a step.
<1>4. ASSUME poll'.todo = poll.todo, poll'.loaded = poll.loaded, poll'.sub = poll.sub,
             NEW row \in Rows, row.id = Row.id, row.fresh,
             poll'.copy = [poll.copy EXCEPT ![poll.sub] = row],
             \/ poll'.phase = "entries" /\ made[poll.sub] <= row.today + 2 * slips
             \/ poll'.phase = "attached" /\ made[poll.sub] <= row.today + 2 * slips + 1,
             made[poll.sub] <= Today(rows[poll.sub]) + 2 * slips + 1
      PROVE  LimitInv'
  <2>1. Row' = row
    BY <1>2, <1>4 DEF Row
  <2>2. SessionInSync'
    BY <1>1, <1>2, <1>4, QuietSync
  <2>3. \A s \in Subs : ~Working(s)' => InRows(s, 0)'
    BY <1>1, <1>3, <1>4 DEF Working, InRows
  <2>4. InRows(poll.sub, 1)'
    BY <1>1, <1>4 DEF InRows
  <2>5. /\ poll'.phase = "entries" => InCopy(0)'
        /\ poll'.phase = "attached" => InCopy(1)'
    BY <1>1, <1>2, <1>4, <2>1 DEF InCopy, Rows
  <2>6. MadeIsCounted'
    BY <1>4, <2>1, <2>3, <2>4, <2>5 DEF MadeIsCounted, At
  <2>7. QED
    BY <2>2, <2>6 DEF LimitInv
<1>5. CASE Reject \/ Defer \/ AlreadyAttached
  <2>1. At("entries")
    BY <1>5 DEF Reject, Defer, AlreadyAttached, HasEntry
  <2>2. /\ poll'.todo = poll.todo /\ poll'.loaded = poll.loaded /\ poll'.sub = poll.sub
        /\ poll'.copy = poll.copy /\ poll'.phase \in {"entries", "attached"}
    BY <1>2, <1>5, <2>1 DEF Reject, Defer, Deferred, AlreadyAttached, Without, Runs, At
  <2>3. Row.fresh /\ InRows(poll.sub, 1) /\ InCopy(0)
    BY <1>3, <2>1 DEF MadeIsCounted
  <2>4. poll.copy = [poll.copy EXCEPT ![poll.sub] = Row]
    BY <1>2 DEF Row
  <2>5. made[poll.sub] <= Row.today + 2 * slips /\ made[poll.sub] <= Row.today + 2 * slips + 1
    BY <1>2, <2>3 DEF InCopy
  <2>6. made[poll.sub] <= Today(rows[poll.sub]) + 2 * slips + 1
    BY <2>3 DEF InRows
  <2>7. QED
    BY <1>2, <1>4, <2>2, <2>3, <2>4, <2>5, <2>6
<1>6. CASE CountEntry
  <2>1. At("attached") \/ At("tagged")
    BY <1>6 DEF CountEntry
  <2> DEFINE row == Counted(Row)
  <2>2. row \in Rows /\ row.id = Row.id /\ row.fresh = Row.fresh /\ row.today = Row.today + 1
    BY <1>2, EmptySeq, PolledRows, PolledToday
  <2>3. /\ poll'.todo = poll.todo /\ poll'.loaded = poll.loaded /\ poll'.sub = poll.sub
        /\ poll'.copy = [poll.copy EXCEPT ![poll.sub] = row] /\ poll'.phase = "entries"
    <3> DEFINE copy    == CopyWith(row)
               took    == Append(poll.took, poll.video)
               counted == IF InLane THEN poll.counted ELSE poll.counted + 1
    <3>1. poll' = [poll EXCEPT !.phase = "entries", !.copy = copy, !.took = took, !.video = 0,
                               !.answer = "none", !.counted = counted]
      BY <1>2, <1>6 DEF CountEntry, Runs
    <3> HIDE DEF copy, took, counted
    <3>2. /\ poll'.todo = poll.todo /\ poll'.loaded = poll.loaded /\ poll'.sub = poll.sub
          /\ poll'.copy = copy /\ poll'.phase = "entries"
      BY <1>2, <3>1 DEF Runs
    <3>3. QED
      BY <3>2 DEF copy, CopyWith
  <2> HIDE DEF row
  <2>4. Row.fresh /\ InRows(poll.sub, 1) /\ InCopy(1)
    BY <1>3, <2>1 DEF MadeIsCounted
  <2>5. row.fresh
    BY <2>2, <2>4, Zenon
  <2>6. made[poll.sub] <= row.today + 2 * slips
    BY <1>2, <2>2, <2>4 DEF InCopy
  <2>7. made[poll.sub] <= Today(rows[poll.sub]) + 2 * slips + 1
    BY <2>4 DEF InRows
  <2>8. QED
    BY <1>4, <2>2, <2>3, <2>5, <2>6, <2>7
<1>7. CASE Blocked
  <2>1. At("answered") /\ poll.answer = "blocked"
    BY <1>7 DEF Blocked
  <2>2. /\ poll'.todo = poll.todo /\ poll'.loaded = poll.loaded /\ poll'.sub = poll.sub
        /\ poll'.copy = poll.copy /\ poll'.phase = "entries"
    BY <1>2, <1>7 DEF Blocked, Runs
  <2>3. Row.fresh /\ InRows(poll.sub, 1) /\ InCopy(0)
    BY <1>3, <2>1 DEF MadeIsCounted
  <2>4. poll.copy = [poll.copy EXCEPT ![poll.sub] = Row]
    BY <1>2 DEF Row
  <2>5. made[poll.sub] <= Row.today + 2 * slips
    BY <1>2, <2>3 DEF InCopy
  <2>6. made[poll.sub] <= Today(rows[poll.sub]) + 2 * slips + 1
    BY <2>3 DEF InRows
  <2>7. QED
    BY <1>2, <1>4, <2>2, <2>3, <2>4, <2>5, <2>6
<1>8. QED
  BY <1>5, <1>6, <1>7

\* The commits within the poll of a subscription write what its copy counts.
LEMMA CommitStepLimit ==
    ASSUME TypeInv, LimitInv, Attach \/ Tag \/ LaneItem
    PROVE  LimitInv'
<1>1. ~At("idle") /\ ~At("next") /\ made' = made /\ slips' = slips
  BY DEF Attach, Tag, LaneItem, HasEntry, At
<1>2. /\ poll \in Runs /\ poll.loaded \in [Subs -> Rows] /\ poll.copy \in [Subs -> Rows]
      /\ poll.sub \in Subs /\ Row \in Rows /\ poll.loaded[poll.sub].id # 0
      /\ ToSet(poll.todo) \subseteq {s \in Subs : poll.loaded[s].id # 0}
      /\ \A s \in Subs : /\ poll.copy[s].id = poll.loaded[s].id
                         /\ poll.loaded[s].id = 0 => poll.copy[s] = poll.loaded[s]
                         /\ poll.loaded[s].id # 0 => Today(rows[s]) = Today(poll.loaded[s])
                         /\ ~Working(s) => Today(poll.copy[s]) = Today(poll.loaded[s])
      /\ made[poll.sub] \in Nat /\ slips \in Nat /\ Row.today \in Nat
  BY <1>1, RunInSync DEF LimitInv, TypeInv, Rows
<1>3. /\ At("entries") \/ (At("answered") /\ poll.answer = "ok") \/ At("tagged")
      /\ MadeIsCounted
  BY DEF Attach, Tag, LaneItem, HasEntry, LimitInv
<1>4. Row.fresh /\ (InCopy(0) \/ InCopy(1))
  BY <1>3 DEF MadeIsCounted
<1>5. made[poll.sub] <= Row.today + 2 * slips + 1
  BY <1>2, <1>4 DEF InCopy
<1>6. \E next \in Runs, lane \in {items, [items EXCEPT ![poll.sub] = @ \cup {Entry}],
                                         [items EXCEPT ![poll.sub] = @ \cup {poll.video}]} :
         /\ Commit(poll.copy, next, lane)
         /\ next.phase \in {"tagged", "attached"} /\ next.todo = poll.todo /\ next.sub = poll.sub
  <2>1. CASE Attach
    <3> DEFINE next == [Without(Entry) EXCEPT !.phase = "attached", !.video = Entry]
    <3>1. Entry \in Clips
      BY <2>1, EntryIsOne DEF Attach
    <3>2. next \in Runs /\ next.phase = "attached" /\ next.todo = poll.todo /\ next.sub = poll.sub
      BY <1>2, <3>1 DEF Without, Runs, Phases
    <3>3. Commit(poll.copy, next, [items EXCEPT ![poll.sub] = @ \cup {Entry}])
      BY <2>1 DEF Attach
    <3> HIDE DEF next
    <3>4. QED
      BY <3>2, <3>3
  <2>2. CASE Tag
    <3> DEFINE next == Goes("tagged")
    <3>1. next \in Runs /\ next.phase = "tagged" /\ next.todo = poll.todo /\ next.sub = poll.sub
      BY <1>2 DEF Goes, Runs, Phases
    <3>2. Commit(poll.copy, next, items)
      BY <2>2 DEF Tag
    <3> HIDE DEF next
    <3>3. QED
      BY <3>1, <3>2
  <2>3. CASE LaneItem
    <3> DEFINE next == [poll EXCEPT !.phase = "attached", !.counted = @ + 1]
    <3>1. poll.counted + 1 \in Nat
      BY <1>2 DEF Runs
    <3>2. next \in Runs /\ next.phase = "attached" /\ next.todo = poll.todo /\ next.sub = poll.sub
      BY <1>2, <3>1 DEF Runs, Phases
    <3>3. Commit(poll.copy, next, [items EXCEPT ![poll.sub] = @ \cup {poll.video}])
      BY <2>3 DEF LaneItem
    <3> HIDE DEF next
    <3>4. QED
      BY <3>2, <3>3
  <2>4. QED
    BY <2>1, <2>2, <2>3
<1>7. PICK next \in Runs, lane \in {items, [items EXCEPT ![poll.sub] = @ \cup {Entry}],
                                           [items EXCEPT ![poll.sub] = @ \cup {poll.video}]} :
         /\ Commit(poll.copy, next, lane)
         /\ next.phase \in {"tagged", "attached"} /\ next.todo = poll.todo /\ next.sub = poll.sub
  BY <1>6
<1>8. /\ poll' = [next EXCEPT !.loaded = poll.copy, !.copy = poll.copy]
      /\ SessionInSync'
      /\ \A s \in Subs : /\ poll.loaded[s].id # 0 => Today(rows'[s]) = Today(poll.copy[s])
                         /\ poll.loaded[s].id = 0 => rows'[s] = rows[s]
  <2>1. ToSet(next.todo) \cup (IF next.phase = "next" THEN {} ELSE {next.sub})
           \subseteq {s \in Subs : poll.loaded[s].id # 0}
    BY <1>2, <1>7
  <2>2. QED
    BY <1>1, <1>2, <1>7, <2>1, CommitSync DEF LimitInv
<1>9. /\ poll'.phase \in {"tagged", "attached"} /\ poll'.sub = poll.sub /\ poll'.copy = poll.copy
  BY <1>7, <1>8 DEF Runs
<1>10. Row' = Row
  BY <1>9 DEF Row
<1>11. Today(rows'[poll.sub]) = Row.today
  BY <1>2, <1>4, <1>8 DEF Today, Row
<1>12. InRows(poll.sub, 1)' /\ InCopy(1)'
  BY <1>1, <1>2, <1>5, <1>9, <1>10, <1>11 DEF InRows, InCopy
<1>13. ASSUME NEW s \in Subs, s # poll.sub PROVE made[s] <= Today(rows'[s]) + 2 * slips + 0
  <2>1. ~Working(s)
    BY <1>13 DEF Working
  <2>2. Today(rows'[s]) = Today(rows[s])
    BY <1>2, <1>8, <2>1
  <2>3. QED
    BY <1>3, <2>1, <2>2 DEF MadeIsCounted, InRows
<1>14. \A s \in Subs : ~Working(s)' => InRows(s, 0)'
  BY <1>1, <1>9, <1>13 DEF Working, InRows
<1>15. MadeIsCounted'
  BY <1>4, <1>9, <1>10, <1>12, <1>14 DEF MadeIsCounted, At
<1>16. QED
  BY <1>8, <1>15 DEF LimitInv

\* A submission makes one attempt at most.
LEMMA SubmitLimit ==
    ASSUME TypeInv, LimitInv, Submit
    PROVE  LimitInv'
<1>1. PICK answer \in {"ok", "error", "blocked"}, state \in {"none", "active", "completed", "failed", "review"} :
         /\ poll' = [Without(Entry) EXCEPT !.phase = "answered", !.video = Entry, !.answer = answer,
                        !.posted = IF state = work[Entry] THEN @ ELSE @ + 1]
         /\ slips' = slips + (IF answer = "error" /\ state # work[Entry] THEN 1 ELSE 0)
         /\ made' = [made EXCEPT ![poll.sub] = IF state = work[Entry] THEN @ ELSE @ + 1]
         /\ state # work[Entry] => state = "active" /\ work[Entry] \in {"none", "failed"}
         /\ answer = "blocked" => state = "review"
  BY SubmitCases
<1>2. At("entries") /\ ~At("idle") /\ ~At("next") /\ rows' = rows
  BY EntryIsOne DEF Submit
<1>3. /\ poll \in Runs /\ poll.copy \in [Subs -> Rows] /\ poll.sub \in Subs /\ Row \in Rows
      /\ made \in [Subs -> Nat] /\ slips \in Nat
      /\ Today(rows[poll.sub]) \in Nat /\ Row.today \in Nat
  BY <1>2, RunHasRows DEF TypeInv, Today, Rows
<1>4. /\ poll'.phase = "answered" /\ poll'.answer = answer /\ poll'.sub = poll.sub
      /\ poll'.copy = poll.copy /\ poll'.loaded = poll.loaded /\ poll'.todo = poll.todo
  BY <1>1, <1>3 DEF Without, Runs
<1>5. Row' = Row
  BY <1>4 DEF Row
<1>6. SessionInSync'
  BY <1>2, <1>4, QuietSync DEF Row
<1>7. /\ Row.fresh /\ InRows(poll.sub, 1) /\ InCopy(0)
      /\ \A s \in Subs : s # poll.sub => InRows(s, 0)
  BY <1>2 DEF LimitInv, MadeIsCounted, Working
<1>8. slips' \in Nat /\ slips' >= slips
  BY <1>1, <1>3
<1>9. \A s \in Subs : ~Working(s)' => InRows(s, 0)'
  <2>1. ASSUME NEW s \in Subs, s # poll.sub PROVE made'[s] <= Today(rows'[s]) + 2 * slips' + 0
    <3>1. made'[s] = made[s] /\ made[s] \in Nat /\ made[s] <= Today(rows[s]) + 2 * slips + 0
      BY <1>1, <1>3, <1>7, <2>1 DEF InRows
    <3>2. Today(rows[s]) \in Nat
      BY DEF TypeInv, Today, Rows
    <3>3. QED
      BY <1>2, <1>3, <1>8, <3>1, <3>2
  <2>2. QED
    BY <1>4, <2>1 DEF Working, InRows
<1> DEFINE m == made[poll.sub]
           more == IF state = work[Entry] THEN 0 ELSE 1
           slip == IF answer = "error" /\ state # work[Entry] THEN 1 ELSE 0
<1>10. /\ made'[poll.sub] = m + more /\ slips' = slips + slip
       /\ m \in Nat /\ m <= Today(rows[poll.sub]) + 2 * slips + 1 /\ m <= Row.today + 2 * slips
  BY <1>1, <1>3, <1>7 DEF InRows, InCopy
<1>11. /\ more \in {0, 1} /\ slip \in {0, 1}
       /\ answer = "error" => more = slip
       /\ answer = "blocked" => more = 0
  BY <1>1
<1> HIDE DEF m, more, slip
<1>12. InRows(poll.sub, 2)'
  BY <1>2, <1>3, <1>4, <1>10, <1>11 DEF InRows
<1>13. InCopy(1)'
  BY <1>3, <1>4, <1>5, <1>10, <1>11 DEF InCopy
<1>14. answer # "ok" => InCopy(0)'
  <2>1. answer # "ok" => m + more <= Row.today + 2 * (slips + slip) + 0
    BY <1>3, <1>10, <1>11
  <2>2. QED
    BY <1>4, <1>5, <1>10, <2>1 DEF InCopy
<1>15. answer = "blocked" => InRows(poll.sub, 1)'
  BY <1>2, <1>3, <1>4, <1>10, <1>11 DEF InRows
<1>16. MadeIsCounted'
  BY <1>4, <1>5, <1>7, <1>9, <1>12, <1>13, <1>14, <1>15 DEF MadeIsCounted, At
<1>17. QED
  BY <1>6, <1>16 DEF LimitInv

\* A run that is killed leaves two attempts uncounted at most.
LEMMA KillLimit ==
    ASSUME TypeInv, LimitInv, RunKilled
    PROVE  LimitInv'
<1>1. rows' = rows /\ made' = made /\ slips' = slips + 1 /\ poll'.phase = "idle"
  BY DEF RunKilled, NoRun
<1>2. ASSUME NEW s \in Subs PROVE InRows(s, 0)'
  <2>1. made[s] \in Nat /\ slips \in Nat /\ Today(rows[s]) \in Nat
    BY DEF TypeInv, Today, Rows
  <2>2. InRows(s, 0) \/ InRows(s, 1) \/ InRows(s, 2)
    BY DEF LimitInv, MadeIsCounted, Working, At
  <2>3. made[s] <= Today(rows[s]) + 2 * slips + 2
    BY <2>1, <2>2 DEF InRows
  <2>4. QED
    BY <1>1, <2>1, <2>3 DEF InRows
<1>3. SessionInSync' /\ MadeIsCounted'
  BY <1>1, <1>2 DEF SessionInSync, MadeIsCounted, At
<1>4. QED
  BY <1>3 DEF LimitInv

\* Users delete no subscription: every row is the first of its subscription.
SubscriptionsStay == MaxRows = 1

\* What users, the pipeline and the world do.
LEMMA WorldLimit ==
    ASSUME SubscriptionsStay, TypeInv, LimitInv, World
    PROVE  LimitInv'
<1>1. /\ poll' = poll /\ rows \in [Subs -> Rows] /\ made \in [Subs -> Nat] /\ slips \in Nat
      /\ SessionInSync /\ MadeIsCounted
  BY DEF World, Upload, Airs, PipelineEnds, PersonRetries, NewDay, BecomesDue, Enable, Disable,
         ResetFailures, DeleteRow, Subscribe, TypeInv, LimitInv
<1>2. ~At("idle") /\ ~At("next") => /\ poll.sub \in Subs /\ poll.loaded[poll.sub].id # 0
                                    /\ rows[poll.sub].id # 0
  <2> SUFFICES ASSUME ~At("idle"), ~At("next")
               PROVE  poll.sub \in Subs /\ poll.loaded[poll.sub].id # 0 /\ rows[poll.sub].id # 0
    OBVIOUS
  <2>1. poll.sub \in Subs /\ poll.loaded[poll.sub].id # 0
    BY <1>1, RunInSync
  <2>2. rows[poll.sub].id = poll.loaded[poll.sub].id
    BY <1>1, <2>1 DEF SessionInSync
  <2>3. QED
    BY <2>1, <2>2
<1>3. \A s : Working(s) => s = poll.sub /\ ~At("idle") /\ ~At("next")
  BY DEF Working, At
\* What is left to show of a step that keeps what rows count, or begins a row.
<1>4. ASSUME slips' = slips,
             \A s \in Subs : \/ /\ rows'[s].id = rows[s].id /\ rows'[s].today = rows[s].today
                                /\ rows'[s].fresh = rows[s].fresh /\ made'[s] = made[s]
                             \/ /\ rows[s].id = 0 /\ Today(rows'[s]) = 0 /\ made'[s] = 0
      PROVE  LimitInv'
  <2>1. SessionInSync'
    <3>1. ASSUME ~At("idle"), NEW s \in Subs, poll.loaded[s].id # 0
          PROVE  /\ rows'[s].id = poll.loaded[s].id /\ rows'[s].today = poll.loaded[s].today
                 /\ rows'[s].fresh = poll.loaded[s].fresh
      <4>1. /\ rows[s].id = poll.loaded[s].id /\ rows[s].today = poll.loaded[s].today
            /\ rows[s].fresh = poll.loaded[s].fresh
        BY <1>1, <3>1 DEF SessionInSync
      <4>2. QED
        BY <1>4, <3>1, <4>1
    <3>2. \A s : Working(s)' <=> Working(s)
      BY <1>1 DEF Working
    <3>3. QED
      BY <1>1, <3>1, <3>2 DEF SessionInSync, At
  <2>2. Row' = Row
    BY <1>1 DEF Row
  <2>3. ASSUME NEW s \in Subs, NEW n \in {0, 1, 2}, InRows(s, n) PROVE InRows(s, n)'
    BY <1>1, <1>4, <2>3 DEF InRows, Today
  <2>4. ASSUME ~At("idle"), ~At("next"), NEW n \in {0, 1}, InCopy(n) PROVE InCopy(n)'
    <3>1. made'[poll.sub] = made[poll.sub]
      BY <1>2, <1>4, <2>4
    <3>2. QED
      BY <1>1, <1>4, <2>2, <2>4, <3>1 DEF InCopy
  <2>5. \A s \in Subs : ~Working(s)' => InRows(s, 0)'
    BY <1>1, <2>3 DEF MadeIsCounted, Working
  <2>6. /\ At("entries") \/ At("answered") \/ At("tagged") \/ At("attached") =>
             ~At("idle") /\ ~At("next")
        /\ ~At("idle") /\ ~At("next") => poll.sub \in Subs
    BY <1>2 DEF At
  <2>7. At("entries") => Row.fresh /\ InRows(poll.sub, 1)' /\ InCopy(0)'
    BY <1>1, <2>3, <2>4, <2>6 DEF MadeIsCounted
  <2>8. At("answered") => /\ Row.fresh /\ InRows(poll.sub, 2)' /\ InCopy(1)'
                          /\ poll.answer # "ok" => InCopy(0)'
                          /\ poll.answer = "blocked" => InRows(poll.sub, 1)'
    BY <1>1, <2>3, <2>4, <2>6 DEF MadeIsCounted
  <2>9. At("tagged") \/ At("attached") => Row.fresh /\ InRows(poll.sub, 1)' /\ InCopy(1)'
    BY <1>1, <2>3, <2>4, <2>6 DEF MadeIsCounted
  <2>10. MadeIsCounted'
    BY <1>1, <2>2, <2>5, <2>7, <2>8, <2>9 DEF MadeIsCounted, At
  <2>11. QED
    BY <2>1, <2>10 DEF LimitInv
<1>5. CASE NewDay
  <2>1. At("idle") /\ \A s \in Subs : made'[s] = 0 /\ Today(rows'[s]) = 0
    <3>1. \A s \in Subs : rows[s] \in Rows
      BY <1>1
    <3>2. \A s \in Subs : rows'[s].fresh = FALSE
      BY <1>5, <3>1 DEF NewDay, Rows
    <3>3. QED
      BY <1>5, <3>2 DEF NewDay, Today
  <2>2. slips' = 0
    BY <1>5 DEF NewDay
  <2>3. \A s \in Subs : InRows(s, 0)'
    BY <2>1, <2>2 DEF InRows
  <2>4. SessionInSync' /\ MadeIsCounted'
    BY <1>1, <2>1, <2>3 DEF SessionInSync, MadeIsCounted, At
  <2>5. QED
    BY <2>4 DEF LimitInv
<1>6. CASE \/ \E c \in Channels, k \in {"regular", "short", "upcoming"} : Upload(c, k)
           \/ \E v \in Clips : Airs(v) \/ PipelineEnds(v) \/ PersonRetries(v)
  BY <1>4, <1>6 DEF Upload, Airs, PipelineEnds, PersonRetries
<1>7. ASSUME NEW s \in Subs, BecomesDue(s) \/ Enable(s) \/ Disable(s) \/ ResetFailures(s)
      PROVE  LimitInv'
  <2>1. made' = made /\ slips' = slips
    BY <1>7 DEF BecomesDue, Enable, Disable, ResetFailures
  <2>2. rows[s] \in Rows
    BY <1>1
  <2>3. \E row \in Rows : /\ rows' = [rows EXCEPT ![s] = row]
                         /\ row.id = rows[s].id /\ row.today = rows[s].today /\ row.fresh = rows[s].fresh
    BY <1>7, <2>2 DEF BecomesDue, Enable, Disable, ResetFailures, Rows
  <2>4. \A t \in Subs : /\ rows'[t].id = rows[t].id /\ rows'[t].today = rows[t].today
                       /\ rows'[t].fresh = rows[t].fresh
    BY <1>1, <2>3
  <2>5. QED
    BY <1>4, <2>1, <2>4
<1>8. ASSUME NEW s \in Subs, DeleteRow(s)
      PROVE  LimitInv'
  <2>1. rows[s].id \in 1 .. 0
    BY <1>8 DEF DeleteRow, SubscriptionsStay
  <2>2. QED
    BY <2>1
<1>9. ASSUME NEW s \in Subs, Subscribe(s)
      PROVE  LimitInv'
  <2>1. /\ rows[s].id = 0 /\ slips' = slips
        /\ rows' = [rows EXCEPT ![s] = NewRow(MaxRows)] /\ made' = [made EXCEPT ![s] = 0]
    BY <1>9 DEF Subscribe
  <2>2. Today(NewRow(MaxRows)) = 0
    BY DEF Today, NewRow
  <2>3. \A t \in Subs : /\ t # s => rows'[t] = rows[t] /\ made'[t] = made[t]
                       /\ t = s => rows'[t] = NewRow(MaxRows) /\ made'[t] = 0
    BY <1>1, <2>1
  <2>4. QED
    BY <1>4, <2>1, <2>2, <2>3
<1>10. QED
  BY <1>5, <1>6, <1>7, <1>8, <1>9 DEF World

\* LimitInv holds at first, and every step keeps it while no subscription is deleted.
LEMMA LimitInvariant ==
    /\ PollInit => LimitInv
    /\ SubscriptionsStay /\ TypeInv /\ LimitInv /\ [PollNext]_pollVars => LimitInv'
<1>1. ASSUME PollInit PROVE LimitInv
  <2>1. poll.phase = "idle"
    BY <1>1 DEF PollInit, NoRun
  <2>2. \A s \in Subs : made[s] = 0 /\ Today(rows[s]) = 0
    BY <1>1 DEF PollInit, NewRow, Today
  <2>3. slips = 0
    BY <1>1 DEF PollInit
  <2>4. \A s \in Subs : InRows(s, 0)
    BY <2>2, <2>3 DEF InRows
  <2>5. QED
    BY <2>1, <2>4 DEF LimitInv, SessionInSync, MadeIsCounted, At
<1>2. ASSUME SubscriptionsStay, TypeInv, LimitInv, [PollNext]_pollVars PROVE LimitInv'
  <2>1. ASSUME UNCHANGED pollVars PROVE LimitInv'
    BY <1>2, <2>1 DEF pollVars, LimitInv, SessionInSync, MadeIsCounted, Working, At, InRows, InCopy,
                      Today, Row
  <2>2. QED
    BY <1>2, <2>1, QueryLimit, EndLimit, FeedLimit, QuietLimit, CommitStepLimit, SubmitLimit,
       KillLimit, WorldLimit DEF PollNext, RunSteps
<1>3. QED
  BY <1>1, <1>2

\* While no subscription is deleted, a day makes at most max_videos_per_poll attempts for each,
\* and two more for every run that was killed and every message that the queue refused,
\* whichever of its steps the run was killed at and whatever users change meanwhile
\* (allowed_count and videos_ingested_today of _process_one_subscription).
THEOREM DailyLimitIsKept ==
    ASSUME SubscriptionsStay
    PROVE  PollSpec => []DailyLimitKept
<1>1. TypeInv /\ CountInv /\ LimitInv => DailyLimitKept
  <2> SUFFICES ASSUME TypeInv, CountInv, LimitInv, NEW s \in Subs
               PROVE  made[s] <= MaxPerPoll + 2 * slips
    BY DEF DailyLimitKept
  <2>1. /\ made[s] \in Nat /\ slips \in Nat /\ Today(rows[s]) \in Nat /\ MaxPerPoll \in Nat
        /\ Today(rows[s]) <= MaxPerPoll
    BY PollAssumption DEF TypeInv, CountInv, RowsBounded, Today, Rows
  <2>2. CASE ~Working(s)
    <3>1. made[s] <= Today(rows[s]) + 2 * slips + 0
      BY <2>2 DEF LimitInv, MadeIsCounted, InRows
    <3>2. QED
      BY <2>1, <3>1
  <2>3. CASE Working(s)
    <3>1. ~At("idle") /\ ~At("next") /\ ~At("fetch") /\ s = poll.sub
      BY <2>3 DEF Working, At
    <3>2. /\ Row \in Rows /\ Row.today \in Nat /\ Cardinality(poll.entries) \in Nat
          /\ Row.today <= MaxPerPoll /\ Row.today + Pending(poll) <= MaxPerPoll
      BY <3>1, RunInBounds DEF Rows
    <3>3. CASE At("entries")
      <4>1. made[s] <= Row.today + 2 * slips + 0
        BY <3>1, <3>3 DEF LimitInv, MadeIsCounted, InCopy
      <4>2. QED
        BY <2>1, <3>2, <4>1
    <3>4. CASE ~At("entries")
      <4>1. made[s] <= Row.today + 2 * slips + 1
        BY <2>3, <3>1, <3>4 DEF Working, At, LimitInv, MadeIsCounted, InCopy
      <4>2. Pending(poll) = Cardinality(poll.entries) + 1
        BY <3>4 DEF Pending, At
      <4>3. QED
        BY <2>1, <3>2, <4>1, <4>2
    <3>5. QED
      BY <3>3, <3>4
  <2>4. QED
    BY <2>2, <2>3
<1>2. QED
  BY <1>1, PollTypes, CountInvariant, LimitInvariant, PTL DEF PollSpec

-----------------------------------------------------------------------------
(***************************************************************************)
(* Ids of the feed outlast the bound of the column.                        *)
(***************************************************************************)
\* The uploads of a channel from one to another.
Between(up, c, u, v) == {w \in DOMAIN up : up[w] = c /\ u <= w /\ w <= v}

\* A list of ids of a channel.  An id is put before a newer one only while a feed shows both,
\* so that the uploads between them fit in a feed.
ListOK(up, c, l) ==
    /\ \A i \in DOMAIN l : l[i] \in DOMAIN up /\ up[l[i]] = c
    /\ \A i, j \in DOMAIN l : i # j => l[i] # l[j]
    /\ \A i, j \in DOMAIN l :
          i < j /\ l[i] < l[j] => Cardinality(Between(up, c, l[i], l[j])) <= FeedSize

\* The list is nearly twice as long as the feed.  Before the id of a video of the feed are those
\* of newer videos, fewer than the feed shows, and of older ones that were in a feed with it,
\* fewer too (the column keeps 50 ids; YouTube's feed, and the limit of the fallback, are 15).
ListIsLong == SeenMax >= 2 * FeedSize - 1

\* Uploads are numbers.
LEMMA UploadsAreFinite ==
    ASSUME TypeInv
    PROVE  /\ Uploaded \subseteq Clips /\ Uploaded \subseteq Nat /\ IsFiniteSet(Uploaded)
           /\ Uploaded = 1 .. Len(uploads) /\ Len(uploads) \in Nat
           /\ FeedSize \in Nat \ {0}
<1>1. Uploaded = 1 .. Len(uploads) /\ Len(uploads) \in Nat /\ Len(uploads) <= MaxVideos
  BY DEF TypeInv, Uploaded
<1>2. MaxVideos \in Nat /\ FeedSize \in Nat \ {0}
  BY PollAssumption
<1>3. IsFiniteSet(1 .. Len(uploads))
  BY <1>1, FS_Interval
<1>4. QED
  BY <1>1, <1>2, <1>3 DEF Clips

\* The uploads from a video of the feed to a newer one fit in the feed.
LEMMA FeedReachesBack ==
    ASSUME TypeInv, NEW c, NEW u \in Feed(c), NEW v \in Nat
    PROVE  Cardinality(Between(uploads, c, u, v)) <= FeedSize
<1> DEFINE newer == {w \in Uploaded : uploads[w] = c /\ w > u}
<1>1. u \in Uploaded /\ Cardinality(newer) < FeedSize
  BY DEF Feed
<1>2. IsFiniteSet(newer) /\ newer \subseteq Nat /\ u \in Nat
  BY <1>1, UploadsAreFinite, FS_Subset
<1>3. Cardinality(newer) \in Nat /\ FeedSize \in Nat
  BY <1>2, FS_CardinalityType, UploadsAreFinite
<1>4. Between(uploads, c, u, v) \subseteq newer \cup {u}
  <2> SUFFICES ASSUME NEW w \in Uploaded, uploads[w] = c, u <= w, w # u PROVE w > u
    BY DEF Between, Uploaded
  <2>1. w \in Nat
    BY UploadsAreFinite
  <2>2. QED
    BY <1>2, <2>1
<1> HIDE DEF newer
<1>5. IsFiniteSet(newer \cup {u}) /\ Cardinality(newer \cup {u}) <= Cardinality(newer) + 1
  BY <1>2, <1>3, FS_AddElement
<1>6. Cardinality(Between(uploads, c, u, v)) <= Cardinality(newer \cup {u})
      /\ IsFiniteSet(Between(uploads, c, u, v))
  BY <1>4, <1>5, FS_Subset
<1>7. Cardinality(Between(uploads, c, u, v)) \in Nat /\ Cardinality(newer \cup {u}) \in Nat
  BY <1>5, <1>6, FS_CardinalityType
<1>8. QED
  BY <1>1, <1>3, <1>5, <1>6, <1>7

\* The ids of the feed are among the first of a list.
LEMMA FeedIsFirst ==
    ASSUME TypeInv, NEW c, NEW l \in Seq(Clips), ListOK(uploads, c, l),
           NEW i \in DOMAIN l, l[i] \in Feed(c)
    PROVE  i <= 2 * FeedSize - 1
<1> DEFINE v == l[i]
           A == {l[k] : k \in 1 .. i}
           older == {u \in A : u < v} \cup {v}
           newer == {u \in Uploaded : uploads[u] = c /\ u > v}
<1>1. /\ DOMAIN l = 1 .. Len(l) /\ Len(l) \in Nat /\ i \in Nat /\ i >= 1 /\ 1 .. i \subseteq DOMAIN l
      /\ \A k \in DOMAIN l : l[k] \in Uploaded /\ uploads[l[k]] = c /\ l[k] \in Nat
  <2>1. DOMAIN l = 1 .. Len(l) /\ Len(l) \in Nat
    OBVIOUS
  <2>2. QED
    BY <2>1, UploadsAreFinite DEF ListOK, Uploaded
<1>2. IsFiniteSet(newer) /\ Cardinality(newer) < FeedSize
  <2>1. Cardinality(newer) < FeedSize
    BY DEF Feed
  <2>2. newer \in SUBSET Uploaded
    OBVIOUS
  <2>3. QED
    BY <2>1, <2>2, UploadsAreFinite, FS_Subset
<1>3. IsFiniteSet(older) /\ Cardinality(older) <= FeedSize
  <2>1. older \subseteq Uploaded /\ older \subseteq Nat /\ older # {} /\ IsFiniteSet(older)
    <3>1. older \in SUBSET Uploaded
      BY <1>1
    <3>2. QED
      BY <3>1, UploadsAreFinite, FS_Subset
  <2> HIDE DEF older
  <2>2. PICK u \in older : \A w \in older : u <= w
    BY <2>1, SmallestExists
  <2>3. older \subseteq Between(uploads, c, u, v)
    <3> SUFFICES ASSUME NEW w \in older PROVE w \in Uploaded /\ uploads[w] = c /\ u <= w /\ w <= v
      BY DEF Between, Uploaded
    <3>1. w \in A \cup {v} /\ w <= v
      BY <1>1 DEF older
    <3>2. QED
      BY <1>1, <2>2, <3>1
  <2>4. Cardinality(Between(uploads, c, u, v)) <= FeedSize
    <3>1. CASE u = v
      BY <3>1, <1>1, FeedReachesBack
    <3>2. CASE u # v
      <4>1. u < v /\ u \in A
        BY <3>2 DEF older
      <4>2. PICK k \in 1 .. i : u = l[k]
        BY <4>1
      <4>3. k < i /\ k \in DOMAIN l
        BY <1>1, <3>2, <4>2
      <4>4. QED
        BY <4>1, <4>2, <4>3 DEF ListOK, Uploaded
    <3>3. QED
      BY <3>1, <3>2
  <2>5. Between(uploads, c, u, v) \in SUBSET Uploaded
    BY DEF Between, Uploaded
  <2>6. IsFiniteSet(Between(uploads, c, u, v))
    BY <2>5, UploadsAreFinite, FS_Subset
  <2>7. Cardinality(older) <= Cardinality(Between(uploads, c, u, v))
    BY <2>3, <2>6, FS_Subset
  <2>8. Cardinality(older) \in Nat /\ Cardinality(Between(uploads, c, u, v)) \in Nat /\ FeedSize \in Nat
    BY <2>1, <2>6, FS_CardinalityType, UploadsAreFinite
  <2>9. QED
    BY <2>1, <2>4, <2>7, <2>8
<1>4. A \subseteq older \cup newer
  <2> SUFFICES ASSUME NEW k \in 1 .. i PROVE l[k] \in older \cup newer
    OBVIOUS
  <2>1. l[k] \in A /\ l[k] \in Nat /\ v \in Nat /\ l[k] \in Uploaded /\ uploads[l[k]] = c
    BY <1>1
  <2>2. QED
    BY <2>1
<1> HIDE DEF older, newer
<1> DEFINE all == older \cup newer
<1>5. IsFiniteSet(all) /\ Cardinality(all) <= 2 * FeedSize - 1
  <2>1. /\ IsFiniteSet(older \cup newer) /\ IsFiniteSet(older \cap newer)
        /\ Cardinality(older \cup newer) =
              Cardinality(older) + Cardinality(newer) - Cardinality(older \cap newer)
    BY <1>2, <1>3, FS_Union, FS_Intersection
  <2>2. /\ Cardinality(older) \in Nat /\ Cardinality(newer) \in Nat /\ FeedSize \in Nat
        /\ Cardinality(older \cap newer) \in Nat
    BY <1>2, <1>3, <2>1, FS_CardinalityType, UploadsAreFinite
  <2>3. QED
    BY <1>2, <1>3, <2>1, <2>2
<1>6. Cardinality(all) \in Nat /\ FeedSize \in Nat
  BY <1>5, FS_CardinalityType, UploadsAreFinite
<1> HIDE DEF all
<1>7. ASSUME i > Cardinality(all) PROVE FALSE
  <2> DEFINE f == [k \in 1 .. i |-> l[k]]
  <2>1. f \in [1 .. i -> all]
    BY <1>4 DEF all
  <2>2. IsFiniteSet(1 .. i) /\ Cardinality(1 .. i) = i
    BY <1>1, FS_Interval
  <2>3. Cardinality(all) < Cardinality(1 .. i)
    BY <1>1, <1>6, <1>7, <2>2
  <2> HIDE DEF f
  <2>4. \E x, y \in 1 .. i : x # y /\ f[x] = f[y]
    BY <1>5, <2>1, <2>2, <2>3, FS_PigeonHole
  <2>5. PICK x \in 1 .. i, y \in 1 .. i : x # y /\ l[x] = l[y]
    BY <2>4 DEF f
  <2>6. QED
    BY <1>1, <2>5 DEF ListOK, Uploaded
<1>8. QED
  BY <1>1, <1>5, <1>6, <1>7

\* A list without repetitions.
NoneTwice(l) == \A i, j \in DOMAIN l : i # j => l[i] # l[j]

\* Ids of the feed are put before those that were seen.
LEMMA JoinedInOrder ==
    ASSUME TypeInv, NEW c, NEW m \in Seq(Clips), NEW old \in Seq(Clips), ListOK(uploads, c, old),
           NoneTwice(m), ToSet(m) \subseteq Feed(c) \ ToSet(old)
    PROVE  ListOK(uploads, c, m \o old)
<1> DEFINE l == m \o old
<1>1. /\ Len(m) \in Nat /\ Len(old) \in Nat /\ Len(l) = Len(m) + Len(old) /\ DOMAIN l = 1 .. Len(l)
      /\ DOMAIN m = 1 .. Len(m) /\ DOMAIN old = 1 .. Len(old)
      /\ \A i \in 1 .. Len(l) : l[i] = IF i <= Len(m) THEN m[i] ELSE old[i - Len(m)]
  OBVIOUS
<1> HIDE DEF l
<1>2. ASSUME NEW i \in DOMAIN l
      PROVE  \/ i <= Len(m) /\ i \in DOMAIN m /\ l[i] = m[i] /\ l[i] \in Feed(c)
                /\ l[i] \notin ToSet(old)
             \/ /\ i > Len(m) /\ i - Len(m) \in DOMAIN old /\ l[i] = old[i - Len(m)]
                /\ l[i] \in ToSet(old)
  <2>1. CASE i <= Len(m)
    <3>1. i \in DOMAIN m /\ l[i] = m[i]
      BY <1>1, <1>2, <2>1
    <3>2. l[i] \in ToSet(m)
      BY <3>1 DEF ToSet
    <3>3. QED
      BY <2>1, <3>1, <3>2
  <2>2. CASE i > Len(m)
    <3>1. i - Len(m) \in DOMAIN old /\ l[i] = old[i - Len(m)]
      BY <1>1, <1>2, <2>2
    <3>2. QED
      BY <2>2, <3>1 DEF ToSet
  <2>3. i <= Len(m) \/ i > Len(m)
    BY <1>1, <1>2
  <2>4. QED
    BY <2>1, <2>2, <2>3
<1>3. ASSUME NEW i \in DOMAIN l PROVE l[i] \in Uploaded /\ uploads[l[i]] = c
  <2>1. CASE l[i] \in Feed(c)
    BY <2>1 DEF Feed
  <2>2. CASE i - Len(m) \in DOMAIN old /\ l[i] = old[i - Len(m)]
    BY <2>2 DEF ListOK, Uploaded
  <2>3. \/ l[i] \in Feed(c)
        \/ i - Len(m) \in DOMAIN old /\ l[i] = old[i - Len(m)]
    <3>1. i \in DOMAIN l
      BY <1>3
    <3>2. QED
      BY <1>2, <3>1
  <2>4. QED
    BY <2>1, <2>2, <2>3
<1>4. ASSUME NEW i \in DOMAIN l, NEW j \in DOMAIN l, i # j PROVE l[i] # l[j]
  <2>1. CASE i <= Len(m) /\ j <= Len(m)
    <3>1. i \in DOMAIN m /\ j \in DOMAIN m /\ l[i] = m[i] /\ l[j] = m[j]
      BY <1>1, <1>2, <2>1
    <3>2. QED
      BY <1>4, <3>1 DEF NoneTwice
  <2>2. CASE i > Len(m) /\ j > Len(m)
    <3>1. i - Len(m) # j - Len(m)
      BY <1>1, <1>4
    <3>2. i - Len(m) \in DOMAIN old /\ j - Len(m) \in DOMAIN old
          /\ l[i] = old[i - Len(m)] /\ l[j] = old[j - Len(m)]
      BY <1>1, <1>2, <2>2
    <3>3. QED
      BY <3>1, <3>2 DEF ListOK, Uploaded
  <2>3. CASE ~(i <= Len(m) <=> j <= Len(m))
    BY <1>1, <1>2, <2>3
  <2>4. QED
    BY <1>1, <2>1, <2>2, <2>3
<1>5. ASSUME NEW i \in DOMAIN l, NEW j \in DOMAIN l, i < j, l[i] < l[j]
      PROVE  Cardinality(Between(uploads, c, l[i], l[j])) <= FeedSize
  <2>1. CASE i <= Len(m)
    <3>1. l[i] \in Feed(c) /\ l[j] \in Nat
      BY <1>1, <1>2, <1>3, <2>1, UploadsAreFinite
    <3>2. QED
      BY <3>1, FeedReachesBack
  <2>2. CASE i > Len(m)
    <3>1. i - Len(m) < j - Len(m) /\ j > Len(m)
      BY <1>1, <1>5, <2>2
    <3>2. i - Len(m) \in DOMAIN old /\ j - Len(m) \in DOMAIN old
          /\ l[i] = old[i - Len(m)] /\ l[j] = old[j - Len(m)]
      BY <1>1, <1>2, <2>2, <3>1
    <3>3. QED
      BY <1>5, <3>1, <3>2 DEF ListOK, Uploaded
  <2>3. QED
    BY <1>1, <2>1, <2>2
<1>6. QED
  BY <1>3, <1>4, <1>5 DEF ListOK, Uploaded, l

\* The end of a poll keeps a list in order, and what is on it and in the feed.
LEMMA EndKeepsFeed ==
    ASSUME TypeInv, ListIsLong, NEW c, NEW row \in Rows, NEW m \in Seq(Clips), ListOK(uploads, c, row.seen),
           NoneTwice(m), ToSet(m) \subseteq Feed(c) \ Seen(row)
    PROVE  /\ ListOK(uploads, c, Succeeded(row, m).seen)
           /\ \A v \in Seen(row) : v \in Seen(Succeeded(row, m)) \/ v \notin Feed(c)
<1> DEFINE all == m \o row.seen
           n   == Min({SeenMax, Len(m) + Len(row.seen)})
<1>1. row.seen \in Seq(Clips)
  BY DEF Rows
<1>2. /\ all \in Seq(Clips) /\ Len(all) = Len(m) + Len(row.seen) /\ DOMAIN all = 1 .. Len(all)
      /\ Len(m) \in Nat /\ Len(row.seen) \in Nat /\ DOMAIN row.seen = 1 .. Len(row.seen)
      /\ \A i \in 1 .. Len(row.seen) : all[i + Len(m)] = row.seen[i]
  BY <1>1
<1>3. ListOK(uploads, c, all)
  BY <1>1, JoinedInOrder DEF Seen
<1>4. n = IF SeenMax <= Len(m) + Len(row.seen) THEN SeenMax ELSE Len(m) + Len(row.seen)
  <2>1. SeenMax \in Int /\ Len(m) + Len(row.seen) \in Int
    BY <1>2, PollAssumption
  <2>2. QED
    BY <2>1, MinOfTwo, Zenon
<1>5. Succeeded(row, m).seen = SubSeq(all, 1, n)
  BY DEF Succeeded, Rows
<1> HIDE DEF all, n
<1>6. n \in 0 .. Len(all) /\ (n = Len(all) \/ n = SeenMax) /\ SeenMax \in Nat
  BY <1>2, <1>4, PollAssumption
<1>7. /\ Len(SubSeq(all, 1, n)) = n /\ \A i \in 1 .. n : SubSeq(all, 1, n)[i] = all[i]
      /\ SubSeq(all, 1, n) \in Seq(Clips)
  BY <1>2, <1>6
<1> DEFINE kept == Succeeded(row, m).seen
<1> HIDE DEF kept
<1>8. DOMAIN kept = 1 .. n /\ DOMAIN kept \subseteq DOMAIN all /\ \A i \in DOMAIN kept : kept[i] = all[i]
  BY <1>2, <1>5, <1>6, <1>7 DEF kept
<1>9. ListOK(uploads, c, kept)
  BY <1>3, <1>8 DEF ListOK, Uploaded
<1>10. ASSUME NEW v \in Seen(row), v \in Feed(c) PROVE v \in Seen(Succeeded(row, m))
  <2>1. PICK i \in DOMAIN row.seen : row.seen[i] = v
    BY <1>10 DEF Seen, ToSet
  <2> DEFINE k == i + Len(m)
  <2>2. k \in DOMAIN all /\ all[k] = v
    BY <1>2, <2>1
  <2> HIDE DEF k
  <2>3. k <= 2 * FeedSize - 1
    BY <1>2, <1>3, <1>10, <2>2, FeedIsFirst
  <2>4. k \in 1 .. n
    <3>1. FeedSize \in Nat
      BY PollAssumption
    <3>2. QED
      BY <1>2, <1>6, <2>2, <2>3, <3>1 DEF ListIsLong
  <2>5. k \in DOMAIN kept /\ kept[k] = v
    BY <1>8, <2>2, <2>4
  <2>6. v \in ToSet(kept)
    BY <2>5 DEF ToSet
  <2>7. QED
    BY <2>6 DEF Seen, kept
<1>11. QED
  BY <1>9, <1>10 DEF kept

\* An upload keeps lists in order.
LEMMA UploadKeepsLists ==
    ASSUME TypeInv, NEW ch \in Channels, NEW k, Upload(ch, k), NEW c, NEW l \in Seq(Clips), ListOK(uploads, c, l)
    PROVE  ListOK(uploads', c, l)
<1>1. /\ Uploaded = 1 .. Len(uploads) /\ DOMAIN uploads' = 1 .. Len(uploads) + 1 /\ Len(uploads) \in Nat
      /\ \A w \in Uploaded : uploads'[w] = uploads[w]
  BY DEF Upload, Uploaded, TypeInv
<1>2. \A i \in DOMAIN l : l[i] \in Uploaded /\ uploads[l[i]] = c
  BY DEF ListOK, Uploaded
<1>3. ASSUME NEW u \in Uploaded, NEW v \in Uploaded PROVE Between(uploads', c, u, v) = Between(uploads, c, u, v)
  <2>1. \A w \in DOMAIN uploads' : w <= v => w \in Uploaded
    BY <1>1, <1>3
  <2>2. Uploaded \subseteq DOMAIN uploads'
    BY <1>1
  <2>3. QED
    BY <1>1, <2>1, <2>2 DEF Between, Uploaded
<1>4. \A i, j \in DOMAIN l : i < j /\ l[i] < l[j] => Cardinality(Between(uploads', c, l[i], l[j])) <= FeedSize
  BY <1>2, <1>3 DEF ListOK
<1>5. \A i \in DOMAIN l : l[i] \in DOMAIN uploads' /\ uploads'[l[i]] = c
  BY <1>1, <1>2
<1>6. QED
  BY <1>4, <1>5 DEF ListOK

\* The video that a run at an entry has in hand.
InHand == IF poll.phase \in {"answered", "tagged", "attached"} THEN {poll.video} ELSE {}

\* What a run at its entries has: those to come, those taken and rejected, and the one in hand
\* are different videos of F.
FedOK(F, E, T, R, H) ==
    /\ E \cup ToSet(T) \cup ToSet(R) \cup H \subseteq F
    /\ NoneTwice(T) /\ NoneTwice(R)
    /\ E \cap (ToSet(T) \cup ToSet(R) \cup H) = {}
    /\ ToSet(T) \cap (ToSet(R) \cup H) = {} /\ ToSet(R) \cap H = {}

FedInv ==
    /\ poll.phase \in {"next", "fetch"} => poll.took = <<>> /\ poll.rejected = <<>>
    /\ poll.phase \in {"entries", "answered", "tagged", "attached"} =>
          FedOK(Feed(ChannelOf[poll.sub]) \ Seen(Row), poll.entries, poll.took, poll.rejected, InHand)

\* The run has the ids that the rows have, unless a row has been deleted since.
ListsInSync ==
    ~At("idle") =>
       /\ \A s \in Subs :
             /\ poll.copy[s].id = poll.loaded[s].id /\ poll.copy[s].seen = poll.loaded[s].seen
             /\ poll.loaded[s].id = 0 => poll.copy[s] = poll.loaded[s]
             /\ poll.loaded[s].id # 0 =>
                   IF rows[s].id = poll.loaded[s].id THEN rows[s].seen = poll.loaded[s].seen
                                                     ELSE poll.loaded[s].id < MaxRows
       /\ ToSet(poll.todo) \subseteq {s \in Subs : poll.loaded[s].id # 0}
       /\ ~At("next") => poll.sub \in Subs /\ poll.loaded[poll.sub].id # 0

IdsInv ==
    /\ \A s \in Subs : ListOK(uploads, ChannelOf[s], rows[s].seen)
    /\ ListsInSync
    /\ FedInv

\* A list with one more id.
LEMMA NoneTwiceAppended ==
    ASSUME NEW a \in Seq(Clips), NoneTwice(a), NEW v \in Clips, v \notin ToSet(a)
    PROVE  NoneTwice(Append(a, v))
<1>1. /\ Len(a) \in Nat /\ Len(Append(a, v)) = Len(a) + 1 /\ DOMAIN a = 1 .. Len(a)
      /\ DOMAIN Append(a, v) = 1 .. Len(a) + 1
      /\ \A i \in 1 .. Len(a) + 1 : Append(a, v)[i] = IF i <= Len(a) THEN a[i] ELSE v
  OBVIOUS
<1> DEFINE all == Append(a, v)
<1> HIDE DEF all
<1>2. \A i \in DOMAIN a : a[i] # v
  BY DEF ToSet
<1>3. ASSUME NEW i \in 1 .. Len(a) + 1, NEW j \in 1 .. Len(a) + 1, i # j PROVE all[i] # all[j]
  BY <1>1, <1>2, <1>3 DEF NoneTwice, all
<1>4. QED
  BY <1>1, <1>3 DEF NoneTwice, all

\* An entry is rejected, deferred or taken in hand.
LEMMA FedMoves ==
    ASSUME NEW F, F \subseteq Clips, NEW E, NEW T \in Seq(Clips), NEW R \in Seq(Clips),
           FedOK(F, E, T, R, {}), NEW v \in E
    PROVE  /\ FedOK(F, E \ {v}, T, R, {})
           /\ FedOK(F, E \ {v}, T, R, {v})
           /\ FedOK(F, E \ {v}, T, Append(R, v), {})
<1>1. v \in F /\ v \in Clips /\ v \notin ToSet(T) /\ v \notin ToSet(R)
  BY DEF FedOK
<1>2. FedOK(F, E \ {v}, T, R, {}) /\ FedOK(F, E \ {v}, T, R, {v})
  BY <1>1 DEF FedOK
<1>3. ToSet(Append(R, v)) \subseteq ToSet(R) \cup {v}
  BY <1>1, OneMoreId
<1>4. NoneTwice(Append(R, v))
  BY <1>1, NoneTwiceAppended DEF FedOK
<1>5. FedOK(F, E \ {v}, T, Append(R, v), {})
  BY <1>1, <1>3, <1>4 DEF FedOK
<1>6. QED
  BY <1>2, <1>5

\* The video in hand is taken.
LEMMA FedTakes ==
    ASSUME NEW F, F \subseteq Clips, NEW E, NEW T \in Seq(Clips), NEW R \in Seq(Clips), NEW v,
           FedOK(F, E, T, R, {v})
    PROVE  FedOK(F, E, Append(T, v), R, {})
<1>1. v \in F /\ v \in Clips /\ v \notin ToSet(T) /\ v \notin ToSet(R) /\ v \notin E
  BY DEF FedOK
<1>2. ToSet(Append(T, v)) \subseteq ToSet(T) \cup {v}
  BY <1>1, OneMoreId
<1>3. NoneTwice(Append(T, v))
  BY <1>1, NoneTwiceAppended DEF FedOK
<1>4. QED
  BY <1>1, <1>2, <1>3 DEF FedOK

\* What is marked is new and none of it twice.
LEMMA FedJoins ==
    ASSUME NEW F, NEW E, NEW T \in Seq(Clips), NEW R \in Seq(Clips), NEW H, FedOK(F, E, T, R, H)
    PROVE  NoneTwice(T \o R) /\ ToSet(T \o R) \subseteq F
<1> DEFINE l == T \o R
<1>1. /\ Len(T) \in Nat /\ Len(R) \in Nat /\ Len(l) = Len(T) + Len(R) /\ DOMAIN l = 1 .. Len(l)
      /\ DOMAIN T = 1 .. Len(T) /\ DOMAIN R = 1 .. Len(R)
      /\ \A i \in 1 .. Len(l) : l[i] = IF i <= Len(T) THEN T[i] ELSE R[i - Len(T)]
  OBVIOUS
<1>2. ToSet(l) \subseteq ToSet(T) \cup ToSet(R)
  BY JoinedIds
<1> HIDE DEF l
<1>3. ASSUME NEW i \in DOMAIN l
      PROVE  \/ i <= Len(T) /\ i \in DOMAIN T /\ l[i] = T[i] /\ l[i] \in ToSet(T)
             \/ i > Len(T) /\ i - Len(T) \in DOMAIN R /\ l[i] = R[i - Len(T)] /\ l[i] \in ToSet(R)
  <2>1. CASE i <= Len(T)
    <3>1. i \in DOMAIN T /\ l[i] = T[i]
      BY <1>1, <1>3, <2>1
    <3>2. QED
      BY <2>1, <3>1 DEF ToSet
  <2>2. CASE i > Len(T)
    <3>1. i - Len(T) \in DOMAIN R /\ l[i] = R[i - Len(T)]
      BY <1>1, <1>3, <2>2
    <3>2. QED
      BY <2>2, <3>1 DEF ToSet
  <2>3. i <= Len(T) \/ i > Len(T)
    BY <1>1, <1>3
  <2>4. QED
    BY <2>1, <2>2, <2>3
<1>4. ASSUME NEW i \in DOMAIN l, NEW j \in DOMAIN l, i # j PROVE l[i] # l[j]
  <2>1. CASE i <= Len(T) /\ j <= Len(T)
    <3>1. i \in DOMAIN T /\ j \in DOMAIN T /\ l[i] = T[i] /\ l[j] = T[j]
      BY <1>1, <1>3, <2>1
    <3>2. QED
      BY <1>4, <3>1 DEF FedOK, NoneTwice
  <2>2. CASE i > Len(T) /\ j > Len(T)
    <3>1. i - Len(T) # j - Len(T)
      BY <1>1, <1>4
    <3>2. i - Len(T) \in DOMAIN R /\ j - Len(T) \in DOMAIN R /\ l[i] = R[i - Len(T)] /\ l[j] = R[j - Len(T)]
      BY <1>1, <1>3, <2>2
    <3>3. QED
      BY <3>1, <3>2 DEF FedOK, NoneTwice
  <2>3. CASE ~(i <= Len(T) <=> j <= Len(T))
    <3>1. \/ l[i] \in ToSet(T) /\ l[j] \in ToSet(R)
          \/ l[j] \in ToSet(T) /\ l[i] \in ToSet(R)
      BY <1>1, <1>3, <2>3
    <3>2. QED
      BY <3>1 DEF FedOK
  <2>4. QED
    BY <1>1, <2>1, <2>2, <2>3
<1>5. QED
  BY <1>2, <1>4 DEF FedOK, NoneTwice, l

\* What a commit of a run writes of the ids; it fails if a row it changes was deleted.
LEMMA CommitLists ==
    ASSUME TypeInv, ListsInSync, ~At("idle"), NEW copy \in [Subs -> Rows], NEW next, NEW lane,
           Commit(copy, next, lane),
           \A s \in Subs : /\ copy[s].id = poll.loaded[s].id
                           /\ poll.loaded[s].id = 0 => copy[s] = poll.loaded[s],
           NEW s \in Subs
    PROVE  /\ rows'[s].id = rows[s].id
           /\ \/ rows'[s].seen = rows[s].seen
              \/ rows[s].seen = poll.copy[s].seen /\ rows'[s].seen = copy[s].seen
           /\ poll' # NoRun /\ poll.loaded[s].id # 0 =>
                 IF rows'[s].id = poll.loaded[s].id THEN rows'[s].seen = copy[s].seen
                                                    ELSE poll.loaded[s].id < MaxRows
<1>1. /\ poll.loaded \in [Subs -> Rows] /\ poll.copy \in [Subs -> Rows] /\ rows \in [Subs -> Rows]
  BY RunHasRows DEF TypeInv
<1>2. /\ poll.copy[s].id = poll.loaded[s].id /\ poll.copy[s].seen = poll.loaded[s].seen
      /\ poll.loaded[s].id # 0 =>
            IF rows[s].id = poll.loaded[s].id THEN rows[s].seen = poll.loaded[s].seen
                                              ELSE poll.loaded[s].id < MaxRows
  BY DEF ListsInSync
<1>3. CASE Matches(copy)
  <2>1. rows' = Written(copy)
    BY <1>3 DEF Commit
  <2>2. rows[s] \in Rows /\ poll.loaded[s] \in Rows /\ copy[s] \in Rows
    BY <1>1
  <2> DEFINE row == [f \in DOMAIN rows[s] |-> IF copy[s][f] = poll.loaded[s][f] THEN rows[s][f]
                                                                           ELSE copy[s][f]]
  <2>3. rows'[s] = IF copy[s] = poll.loaded[s] THEN rows[s] ELSE row
    BY <2>1 DEF Written
  <2>4. /\ row.id = IF copy[s].id = poll.loaded[s].id THEN rows[s].id ELSE copy[s].id
        /\ row.seen = IF copy[s].seen = poll.loaded[s].seen THEN rows[s].seen ELSE copy[s].seen
    BY <2>2 DEF Rows
  <2> HIDE DEF row
  <2>5. CASE copy[s] = poll.loaded[s]
    BY <1>2, <2>3, <2>5
  <2>6. CASE copy[s] # poll.loaded[s]
    <3>1. rows[s].id = poll.loaded[s].id /\ poll.loaded[s].id # 0
      BY <1>3, <2>6 DEF Matches
    <3>2. rows'[s].id = rows[s].id
      BY <2>3, <2>4, <2>6
    <3>3. rows'[s].seen = IF copy[s].seen = poll.loaded[s].seen THEN rows[s].seen ELSE copy[s].seen
      BY <2>3, <2>4, <2>6
    <3>4. QED
      BY <1>2, <3>1, <3>2, <3>3
  <2>7. QED
    BY <2>5, <2>6
<1>4. CASE ~Matches(copy)
  BY <1>4 DEF Commit
<1>5. QED
  BY <1>3, <1>4

\* A run that is not at work has nothing to keep.
LEMMA IdleIds ==
    ASSUME poll'.phase = "idle"
    PROVE  ListsInSync' /\ FedInv'
BY DEF ListsInSync, FedInv, At

\* Lists that stay as they are are in order while nothing is uploaded.
LEMMA SameLists ==
    ASSUME IdsInv, UNCHANGED uploads,
           \A s \in Subs : rows'[s].seen = rows[s].seen
    PROVE  /\ \A s \in Subs : ListOK(uploads', ChannelOf[s], rows'[s].seen)
           /\ IdsAreKept
<1>1. IdsAreKept
  BY DEF IdsAreKept, Seen
<1>2. QED
  BY <1>1 DEF IdsInv

\* The queries of a run.
LEMMA QueryIds ==
    ASSUME TypeInv, IdsInv, Begin \/ Skip \/ Take \/ Stop
    PROVE  IdsInv' /\ IdsAreKept
<1>1. UNCHANGED <<uploads, rows>> /\ rows \in [Subs -> Rows]
  BY DEF Begin, Skip, Take, Stop, TypeInv
<1>2. /\ \A s \in Subs : ListOK(uploads', ChannelOf[s], rows'[s].seen)
      /\ IdsAreKept
  BY <1>1, SameLists
<1>3. ASSUME Begin PROVE ListsInSync' /\ FedInv'
  <2>1. PICK todo \in Loads(Watches) :
          poll' = [NoRun EXCEPT !.phase = "next", !.todo = todo, !.slots = MaxPerRun,
                                !.loaded = rows, !.copy = rows]
    BY <1>3 DEF Begin
  <2>2. /\ poll'.copy = rows /\ poll'.loaded = rows /\ poll'.phase = "next" /\ poll'.todo = todo
        /\ poll'.took = <<>> /\ poll'.rejected = <<>>
    BY <2>1 DEF NoRun
  <2>3. ToSet(todo) \subseteq {s \in Subs : rows[s].id # 0}
    BY LoadsExist DEF Subs
  <2>4. QED
    BY <1>1, <2>2, <2>3 DEF ListsInSync, FedInv, At
<1>4. ASSUME Skip \/ Take PROVE ListsInSync' /\ FedInv'
  <2>1. At("next") /\ ~At("idle") /\ poll \in Runs /\ poll.todo # <<>>
    BY <1>4, RunHasRows DEF Skip, Take, At
  <2>2. poll.todo \in Seq(Subs) /\ ToSet(Tail(poll.todo)) \cup {Head(poll.todo)} \subseteq ToSet(poll.todo)
    BY <2>1, RestOfTodo DEF Runs
  <2>3. /\ poll'.copy = poll.copy /\ poll'.loaded = poll.loaded /\ poll'.todo = Tail(poll.todo)
        /\ poll'.took = poll.took /\ poll'.rejected = poll.rejected
        /\ \/ poll'.phase = "next"
           \/ poll'.phase = "fetch" /\ poll'.sub = Head(poll.todo)
    BY <1>4, <2>1 DEF Skip, Take, Runs, At
  <2>4. /\ \A s \in Subs :
             /\ poll.copy[s].id = poll.loaded[s].id /\ poll.copy[s].seen = poll.loaded[s].seen
             /\ poll.loaded[s].id = 0 => poll.copy[s] = poll.loaded[s]
             /\ poll.loaded[s].id # 0 =>
                   IF rows[s].id = poll.loaded[s].id THEN rows[s].seen = poll.loaded[s].seen
                                                     ELSE poll.loaded[s].id < MaxRows
        /\ ToSet(poll.todo) \subseteq {s \in Subs : poll.loaded[s].id # 0}
        /\ poll.took = <<>> /\ poll.rejected = <<>>
    BY <2>1 DEF IdsInv, ListsInSync, FedInv, At
  <2>5. ListsInSync'
    BY <1>1, <2>2, <2>3, <2>4 DEF ListsInSync, At
  <2>6. FedInv'
    BY <2>3, <2>4 DEF FedInv
  <2>7. QED
    BY <2>5, <2>6
<1>5. ASSUME Stop PROVE ListsInSync' /\ FedInv'
  <2>1. At("next") /\ ~At("idle") /\ poll \in Runs
    BY <1>5, RunHasRows DEF Stop, At
  <2> DEFINE loaded == [s \in Subs |-> IF s \in LaneWatches THEN rows[s] ELSE poll.loaded[s]]
             copy   == [s \in Subs |-> IF s \in LaneWatches THEN rows[s] ELSE poll.copy[s]]
  <2>2. PICK todo \in Loads(LaneWatches) :
          poll' = IF poll.lanes THEN NoRun
                  ELSE [poll EXCEPT !.lanes = TRUE, !.todo = todo, !.loaded = loaded, !.copy = copy]
    BY <1>5 DEF Stop
  <2>3. CASE poll.lanes
    <3>1. poll'.phase = "idle"
      BY <2>2, <2>3 DEF NoRun
    <3>2. QED
      BY <3>1, IdleIds
  <2>4. CASE ~poll.lanes
    <3>1. ToSet(todo) \subseteq {s \in LaneWatches : rows[s].id # 0}
      BY LoadsExist DEF Subs
    <3>2. \A s \in Subs :
             /\ copy[s].id = loaded[s].id /\ copy[s].seen = loaded[s].seen
             /\ loaded[s].id = 0 => copy[s] = loaded[s]
             /\ loaded[s].id # 0 =>
                   IF rows[s].id = loaded[s].id THEN rows[s].seen = loaded[s].seen
                                                ELSE loaded[s].id < MaxRows
      BY <2>1 DEF IdsInv, ListsInSync
    <3>3. ToSet(todo) \subseteq {s \in Subs : loaded[s].id # 0}
      BY <3>1 DEF Subs
    <3> HIDE DEF loaded, copy
    <3>4. /\ poll'.copy = copy /\ poll'.loaded = loaded /\ poll'.phase = "next" /\ poll'.todo = todo
          /\ poll'.took = poll.took /\ poll'.rejected = poll.rejected
      BY <2>1, <2>2, <2>4 DEF Runs, At
    <3>5. poll.took = <<>> /\ poll.rejected = <<>>
      BY <2>1 DEF IdsInv, FedInv, At
    <3>6. QED
      BY <1>1, <3>2, <3>3, <3>4, <3>5 DEF ListsInSync, FedInv, At
  <2>5. QED
    BY <2>3, <2>4
<1>6. QED
  BY <1>2, <1>3, <1>4, <1>5 DEF IdsInv

\* A step of the run that keeps the ids it has.
LEMMA SameIds ==
    ASSUME IdsInv, ~At("idle"), ~At("next"), UNCHANGED <<uploads, rows>>,
           poll'.loaded = poll.loaded, poll'.todo = poll.todo,
           \A s \in Subs : /\ poll'.copy[s].id = poll.copy[s].id
                           /\ poll'.copy[s].seen = poll.copy[s].seen
                           /\ s # poll.sub => poll'.copy[s] = poll.copy[s],
           poll'.phase # "next" => poll'.sub = poll.sub,
           FedInv'
    PROVE  IdsInv' /\ IdsAreKept
<1>1. /\ \A s \in Subs : ListOK(uploads', ChannelOf[s], rows'[s].seen)
      /\ IdsAreKept
  BY SameLists
<1>2. /\ poll.sub \in Subs /\ poll.loaded[poll.sub].id # 0
      /\ ToSet(poll.todo) \subseteq {s \in Subs : poll.loaded[s].id # 0}
  BY DEF IdsInv, ListsInSync
<1>3. ASSUME NEW s \in Subs
      PROVE  /\ poll'.copy[s].id = poll'.loaded[s].id /\ poll'.copy[s].seen = poll'.loaded[s].seen
             /\ poll'.loaded[s].id = 0 => poll'.copy[s] = poll'.loaded[s]
             /\ poll'.loaded[s].id # 0 =>
                   IF rows'[s].id = poll'.loaded[s].id THEN rows'[s].seen = poll'.loaded[s].seen
                                                       ELSE poll'.loaded[s].id < MaxRows
  <2>1. /\ poll.copy[s].id = poll.loaded[s].id /\ poll.copy[s].seen = poll.loaded[s].seen
        /\ poll.loaded[s].id = 0 => poll.copy[s] = poll.loaded[s]
        /\ poll.loaded[s].id # 0 =>
              IF rows[s].id = poll.loaded[s].id THEN rows[s].seen = poll.loaded[s].seen
                                                ELSE poll.loaded[s].id < MaxRows
    BY DEF IdsInv, ListsInSync
  <2>2. QED
    BY <1>2, <2>1
<1>4. ListsInSync'
  BY <1>2, <1>3 DEF ListsInSync, At
<1>5. QED
  BY <1>1, <1>4 DEF IdsInv

\* A feed is read.
LEMMA FeedIds ==
    ASSUME TypeInv, IdsInv, FeedHasEntries
    PROVE  IdsInv' /\ IdsAreKept
<1>1. At("fetch") /\ ~At("idle") /\ ~At("next") /\ UNCHANGED <<uploads, rows>>
  BY DEF FeedHasEntries, At
<1>2. poll \in Runs /\ Row \in Rows /\ poll.sub \in Subs /\ poll.copy \in [Subs -> Rows]
  BY <1>1, RunHasRows
<1> DEFINE copy == CopyWith(CounterReset(Row))
<1>3. \A s \in Subs : /\ copy[s].id = poll.copy[s].id /\ copy[s].seen = poll.copy[s].seen
                      /\ s # poll.sub => copy[s] = poll.copy[s]
  <2>1. CounterReset(Row).seen = Row.seen /\ CounterReset(Row).id = Row.id
    BY <1>2 DEF CounterReset, Rows
  <2>2. QED
    BY <1>2, <2>1 DEF CopyWith, Row
<1>4. poll.took = <<>> /\ poll.rejected = <<>>
  BY <1>1 DEF IdsInv, FedInv, At
<1> HIDE DEF copy
<1>5. \/ poll' = [Leaves(poll.slots) EXCEPT !.copy = copy]
      \/ \E found : found \subseteq NewEntries /\ poll' = [Goes("entries") EXCEPT !.copy = copy, !.entries = found]
  BY DEF FeedHasEntries, copy, Newest
<1>6. CASE poll' = [Leaves(poll.slots) EXCEPT !.copy = copy]
  <2>1. /\ poll'.phase = "next" /\ poll'.took = <<>> /\ poll'.rejected = <<>> /\ poll'.copy = copy
        /\ poll'.loaded = poll.loaded /\ poll'.todo = poll.todo
    BY <1>6 DEF Leaves, NoRun
  <2>2. FedInv'
    BY <2>1 DEF FedInv
  <2>3. QED
    BY <1>1, <1>3, <2>1, <2>2, SameIds
<1>7. ASSUME NEW found, found \subseteq NewEntries,
             poll' = [Goes("entries") EXCEPT !.copy = copy, !.entries = found]
      PROVE  IdsInv' /\ IdsAreKept
  <2>1. /\ poll'.phase = "entries" /\ poll'.took = <<>> /\ poll'.rejected = <<>> /\ poll'.copy = copy
        /\ poll'.sub = poll.sub /\ poll'.loaded = poll.loaded /\ poll'.todo = poll.todo
        /\ poll'.entries = found
    BY <1>2, <1>4, <1>7 DEF Goes, Runs
  <2>2. Row'.seen = Row.seen /\ Feed(ChannelOf[poll.sub])' = Feed(ChannelOf[poll.sub])
    BY <1>1, <1>2, <1>3, <2>1 DEF Row, Feed, Uploaded
  <2>3. found \subseteq Feed(ChannelOf[poll.sub]) \ Seen(Row)
    BY <1>7 DEF NewEntries
  <2>4. FedOK(Feed(ChannelOf[poll.sub]) \ Seen(Row), found, <<>>, <<>>, {})
    BY <2>3 DEF FedOK, NoneTwice, ToSet
  <2>5. InHand' = {} /\ Seen(Row)' = Seen(Row)
    BY <2>1, <2>2 DEF InHand, Seen
  <2>6. Feed(ChannelOf[poll.sub])' \ Seen(Row)' = Feed(ChannelOf[poll.sub]) \ Seen(Row)
    BY <2>2, <2>5
  <2>7. FedInv'
    BY <2>1, <2>2, <2>4, <2>5 DEF FedInv
  <2>8. QED
    BY <1>1, <1>3, <2>1, <2>7, SameIds
<1>8. QED
  BY <1>5, <1>6, <1>7

\* The feed of a channel is of videos.
LEMMA FeedIsClips ==
    ASSUME TypeInv, NEW c
    PROVE  Feed(c) \subseteq Clips
BY UploadsAreFinite DEF Feed

\* Steps at an entry that change the run only.
LEMMA EntryIds ==
    ASSUME TypeInv, IdsInv, Reject \/ Defer \/ AlreadyAttached \/ Submit \/ CountEntry \/ Blocked
    PROVE  IdsInv' /\ IdsAreKept
<1>1. UNCHANGED <<uploads, rows>>
  BY DEF Reject, Defer, AlreadyAttached, Submit, CountEntry, Blocked
<1>2. /\ ~At("idle") /\ ~At("next")
      /\ poll.phase \in {"entries", "answered", "tagged", "attached"}
  BY DEF Reject, Defer, AlreadyAttached, Submit, CountEntry, Blocked, HasEntry, At
<1>3. /\ poll \in Runs /\ Row \in Rows /\ poll.sub \in Subs /\ poll.copy \in [Subs -> Rows]
      /\ poll.took \in Seq(Clips) /\ poll.rejected \in Seq(Clips)
  BY <1>2, RunHasRows DEF Runs
<1> DEFINE F == Feed(ChannelOf[poll.sub]) \ Seen(Row)
<1>4. FedOK(F, poll.entries, poll.took, poll.rejected, InHand) /\ F \subseteq Clips
  BY <1>2, FeedIsClips DEF IdsInv, FedInv
\* What is left to show of such a step.
<1>5. ASSUME \A s \in Subs : /\ poll'.copy[s].id = poll.copy[s].id
                             /\ poll'.copy[s].seen = poll.copy[s].seen
                             /\ s # poll.sub => poll'.copy[s] = poll.copy[s],
             poll'.loaded = poll.loaded, poll'.todo = poll.todo, poll'.sub = poll.sub,
             poll'.phase \in {"entries", "answered", "tagged", "attached"},
             FedOK(F, poll'.entries, poll'.took, poll'.rejected, InHand')
      PROVE  IdsInv' /\ IdsAreKept
  <2>1. Row'.seen = Row.seen
    BY <1>3, <1>5 DEF Row
  <2>2. Seen(Row') = Seen(Row) /\ Feed(ChannelOf[poll.sub])' = Feed(ChannelOf[poll.sub])
    BY <1>1, <1>5, <2>1 DEF Seen, Feed, Uploaded
  <2>3. (Feed(ChannelOf[poll.sub]) \ Seen(Row))' = F
    BY <1>5, <2>2 DEF Feed
  <2> HIDE DEF F
  <2>4. FedInv'
    BY <1>5, <2>3 DEF FedInv
  <2>5. QED
    BY <1>1, <1>2, <1>5, <2>4, SameIds
<1> HIDE DEF F
<1>6. CASE Reject \/ Defer \/ AlreadyAttached \/ Submit
  <2>1. Entry \in poll.entries /\ InHand = {}
    <3>1. HasEntry
      BY <1>6 DEF Reject, Defer, AlreadyAttached, Submit
    <3>2. QED
      BY <3>1, EntryIsOne DEF InHand, At
  <2>2. /\ FedOK(F, poll.entries \ {Entry}, poll.took, poll.rejected, {})
        /\ FedOK(F, poll.entries \ {Entry}, poll.took, poll.rejected, {Entry})
        /\ FedOK(F, poll.entries \ {Entry}, poll.took, Append(poll.rejected, Entry), {})
    BY <1>3, <1>4, <2>1, FedMoves
  <2>3. /\ poll'.copy = poll.copy /\ poll'.loaded = poll.loaded /\ poll'.todo = poll.todo
        /\ poll'.sub = poll.sub /\ poll'.entries = poll.entries \ {Entry} /\ poll'.took = poll.took
        /\ \/ poll'.phase = "entries" /\ poll'.rejected \in {poll.rejected, Append(poll.rejected, Entry)}
           \/ /\ poll'.phase \in {"answered", "attached"} /\ poll'.video = Entry
              /\ poll'.rejected = poll.rejected
    <3>1. CASE Reject
      BY <1>3, <3>1 DEF Reject, Without, Runs, HasEntry, At
    <3>2. CASE Defer
      BY <1>3, <3>2 DEF Defer, Deferred, Without, Runs, HasEntry, At
    <3>3. CASE AlreadyAttached
      BY <1>3, <3>3 DEF AlreadyAttached, Without, Runs
    <3>4. CASE Submit
      BY <1>3, <3>4, SubmitCases DEF Without, Runs
    <3>5. QED
      BY <1>6, <3>1, <3>2, <3>3, <3>4
  <2>4. FedOK(F, poll'.entries, poll'.took, poll'.rejected, InHand')
    <3>1. CASE poll'.phase = "entries"
      <4>1. InHand' = {}
        BY <3>1 DEF InHand
      <4>2. QED
        BY <2>2, <2>3, <3>1, <4>1
    <3>2. CASE poll'.phase \in {"answered", "attached"}
      <4>1. InHand' = {Entry}
        BY <2>3, <3>2 DEF InHand
      <4>2. QED
        BY <2>2, <2>3, <3>2, <4>1
    <3>3. QED
      BY <2>3, <3>1, <3>2
  <2>5. QED
    BY <1>5, <2>3, <2>4
<1>7. CASE CountEntry \/ Blocked
  <2>1. InHand = {poll.video}
    BY <1>7 DEF CountEntry, Blocked, InHand, At
  <2>2. FedOK(F, poll.entries, Append(poll.took, poll.video), poll.rejected, {})
    BY <1>3, <1>4, <2>1, FedTakes
  <2>3. /\ poll'.sub = poll.sub /\ poll'.phase = "entries" /\ poll'.rejected = poll.rejected
        /\ poll'.took = Append(poll.took, poll.video) /\ poll'.entries = poll.entries
        /\ poll'.loaded = poll.loaded /\ poll'.todo = poll.todo
        /\ poll'.copy \in {poll.copy, CopyWith(Counted(Row))}
    BY <1>3, <1>7 DEF CountEntry, Blocked, Runs
  <2>4. \A s \in Subs : /\ poll'.copy[s].id = poll.copy[s].id
                        /\ poll'.copy[s].seen = poll.copy[s].seen
                        /\ s # poll.sub => poll'.copy[s] = poll.copy[s]
    <3>1. Counted(Row).seen = Row.seen /\ Counted(Row).id = Row.id
      BY <1>3 DEF Counted, Rows
    <3>2. QED
      BY <1>3, <2>3, <3>1 DEF CopyWith, Row
  <2>5. InHand' = {}
    BY <2>3 DEF InHand
  <2>6. QED
    BY <1>5, <2>2, <2>3, <2>4, <2>5
<1>8. QED
  BY <1>6, <1>7

\* A commit that ends or continues the poll of a subscription.
LEMMA CommitIds ==
    ASSUME TypeInv, IdsInv, ~At("idle"), ~At("next"), UNCHANGED uploads,
           NEW row \in Rows, row.id = Row.id,
           \/ row.seen = Row.seen
           \/ ListOK(uploads, ChannelOf[poll.sub], Row.seen) =>
                 /\ ListOK(uploads, ChannelOf[poll.sub], row.seen)
                 /\ \A v \in Seen(Row) : v \in Seen(row) \/ v \notin Feed(ChannelOf[poll.sub]),
           NEW next \in Runs, NEW lane, Commit(CopyWith(row), next, lane),
           next.todo = poll.todo, next.phase \in Phases \ {"idle"},
           next.phase # "next" => next.sub = poll.sub,
           (poll' # NoRun => FedInv')
    PROVE  IdsInv' /\ IdsAreKept
<1> DEFINE copy == CopyWith(row)
<1>1. /\ poll.loaded \in [Subs -> Rows] /\ poll.copy \in [Subs -> Rows] /\ poll \in Runs
      /\ poll.sub \in Subs /\ Row \in Rows /\ rows \in [Subs -> Rows]
  BY RunHasRows DEF TypeInv
<1>2. /\ ListsInSync /\ \A s \in Subs : ListOK(uploads, ChannelOf[s], rows[s].seen)
      /\ poll.loaded[poll.sub].id # 0 /\ ToSet(poll.todo) \subseteq {s \in Subs : poll.loaded[s].id # 0}
      /\ \A s \in Subs : /\ poll.copy[s].id = poll.loaded[s].id
                         /\ poll.loaded[s].id = 0 => poll.copy[s] = poll.loaded[s]
  BY DEF IdsInv, ListsInSync
<1>3. copy \in [Subs -> Rows] /\ \A s \in Subs : copy[s] = IF s = poll.sub THEN row ELSE poll.copy[s]
  BY <1>1 DEF CopyWith
<1>4. \A s \in Subs : /\ copy[s].id = poll.loaded[s].id
                      /\ poll.loaded[s].id = 0 => copy[s] = poll.loaded[s]
  BY <1>1, <1>2, <1>3 DEF Row
<1> HIDE DEF copy
<1>5. Commit(copy, next, lane)
  BY DEF copy
<1>6. ASSUME NEW s \in Subs
      PROVE  /\ rows'[s].id = rows[s].id
             /\ \/ rows'[s].seen = rows[s].seen
                \/ rows[s].seen = poll.copy[s].seen /\ rows'[s].seen = copy[s].seen
             /\ poll' # NoRun /\ poll.loaded[s].id # 0 =>
                   IF rows'[s].id = poll.loaded[s].id THEN rows'[s].seen = copy[s].seen
                                                      ELSE poll.loaded[s].id < MaxRows
  BY <1>2, <1>3, <1>4, <1>5, CommitLists
\* What is written of the ids.
<1>7. ASSUME NEW s \in Subs
      PROVE  /\ ListOK(uploads, ChannelOf[s], rows'[s].seen)
             /\ \A v \in ToSet(rows[s].seen) : v \in ToSet(rows'[s].seen) \/ v \notin Feed(ChannelOf[s])
  <2>1. CASE rows'[s].seen = rows[s].seen
    BY <1>2, <2>1
  <2>2. CASE /\ rows[s].seen = poll.copy[s].seen /\ rows'[s].seen = copy[s].seen
             /\ rows'[s].seen # rows[s].seen
    <3>1. s = poll.sub /\ copy[s] = row /\ poll.copy[s] = Row /\ row.seen # Row.seen
      BY <1>3, <2>2 DEF Row
    <3>2. rows[s].seen = Row.seen /\ rows'[s].seen = row.seen
      BY <2>2, <3>1
    <3>3. ListOK(uploads, ChannelOf[s], Row.seen)
      BY <1>2, <3>2
    <3>4. /\ ListOK(uploads, ChannelOf[s], row.seen)
          /\ \A v \in Seen(Row) : v \in Seen(row) \/ v \notin Feed(ChannelOf[s])
      BY <3>1, <3>3
    <3>5. QED
      BY <3>2, <3>4 DEF Seen
  <2>3. QED
    BY <1>6, <2>1, <2>2
<1>8. IdsAreKept
  BY <1>7 DEF IdsAreKept, Seen
<1>9. poll' = NoRun \/ poll' = [next EXCEPT !.loaded = copy, !.copy = copy]
  BY <1>5 DEF Commit
<1>10. CASE poll' = NoRun
  <2>1. poll'.phase = "idle"
    BY <1>10 DEF NoRun
  <2>2. QED
    BY <1>7, <1>8, <2>1, IdleIds DEF IdsInv
<1>11. CASE poll' # NoRun /\ poll' = [next EXCEPT !.loaded = copy, !.copy = copy]
  <2>1. /\ poll'.loaded = copy /\ poll'.copy = copy /\ poll'.todo = poll.todo
        /\ poll'.phase = next.phase /\ poll'.sub = next.sub
    BY <1>11 DEF Runs
  <2>2. ToSet(poll'.todo) \subseteq {s \in Subs : poll'.loaded[s].id # 0}
    BY <1>2, <1>4, <2>1
  <2>3. ~At("next")' => poll'.sub \in Subs /\ poll'.loaded[poll'.sub].id # 0
    BY <1>1, <1>2, <1>4, <2>1 DEF At
  <2>4. ASSUME NEW s \in Subs, poll'.loaded[s].id # 0
        PROVE  IF rows'[s].id = poll'.loaded[s].id THEN rows'[s].seen = poll'.loaded[s].seen
                                                   ELSE poll'.loaded[s].id < MaxRows
    BY <1>4, <1>6, <1>11, <2>1, <2>4
  <2>5. ListsInSync'
    BY <2>1, <2>2, <2>3, <2>4 DEF ListsInSync
  <2>6. QED
    BY <1>7, <1>8, <1>11, <2>5 DEF IdsInv
<1>12. QED
  BY <1>9, <1>10, <1>11

\* The commits within the poll of a subscription.
LEMMA EntryCommitIds ==
    ASSUME TypeInv, IdsInv, Attach \/ Tag \/ LaneItem
    PROVE  IdsInv' /\ IdsAreKept
<1>1. /\ ~At("idle") /\ ~At("next") /\ UNCHANGED uploads
      /\ poll.phase \in {"entries", "answered", "tagged", "attached"}
  BY DEF Attach, Tag, LaneItem, HasEntry, At
<1>2. /\ poll \in Runs /\ Row \in Rows /\ poll.sub \in Subs /\ poll.copy \in [Subs -> Rows]
      /\ poll.took \in Seq(Clips) /\ poll.rejected \in Seq(Clips)
  BY <1>1, RunHasRows DEF Runs
<1> DEFINE F == Feed(ChannelOf[poll.sub]) \ Seen(Row)
<1>3. FedOK(F, poll.entries, poll.took, poll.rejected, InHand) /\ F \subseteq Clips
  BY <1>1, FeedIsClips DEF IdsInv, FedInv
<1>4. CopyWith(Row) = poll.copy
  BY <1>2 DEF CopyWith, Row
\* What is left to show of such a step.
<1>5. ASSUME NEW next \in Runs, NEW lane, Commit(poll.copy, next, lane), next.todo = poll.todo,
             next.sub = poll.sub, next.phase \in {"tagged", "attached"},
             FedOK(F, next.entries, next.took, next.rejected, {next.video})
      PROVE  IdsInv' /\ IdsAreKept
  <2>1. ASSUME poll' # NoRun PROVE FedInv'
    <3>1. poll' = [next EXCEPT !.loaded = poll.copy, !.copy = poll.copy]
      BY <1>5, <2>1 DEF Commit
    <3>2. /\ poll'.phase = next.phase /\ poll'.sub = poll.sub /\ poll'.copy = poll.copy
          /\ poll'.entries = next.entries /\ poll'.took = next.took /\ poll'.rejected = next.rejected
          /\ poll'.video = next.video
      BY <1>5, <3>1 DEF Runs
    <3>3. InHand' = {next.video} /\ Row' = Row
      BY <1>5, <3>2 DEF InHand, Row
    <3>4. (Feed(ChannelOf[poll.sub]) \ Seen(Row))' = F
      BY <1>1, <3>2, <3>3 DEF Seen, Feed, Uploaded
    <3> HIDE DEF F
    <3>5. QED
      BY <1>5, <3>2, <3>3, <3>4 DEF FedInv
  <2>2. Commit(CopyWith(Row), next, lane)
    BY <1>4, <1>5
  <2>3. next.phase \in Phases \ {"idle"}
    BY <1>5 DEF Phases
  <2>4. QED
    BY <1>1, <1>2, <1>5, <2>1, <2>2, <2>3, CommitIds
<1> HIDE DEF F
<1>6. CASE Attach
  <2> DEFINE next == [Without(Entry) EXCEPT !.phase = "attached", !.video = Entry]
  <2>1. Entry \in poll.entries /\ Entry \in Clips /\ InHand = {}
    <3>1. HasEntry
      BY <1>6 DEF Attach
    <3>2. QED
      BY <3>1, EntryIsOne DEF InHand, At
  <2>2. FedOK(F, poll.entries \ {Entry}, poll.took, poll.rejected, {Entry})
    BY <1>2, <1>3, <2>1, FedMoves
  <2>3. /\ next \in Runs /\ next.todo = poll.todo /\ next.sub = poll.sub /\ next.phase = "attached"
        /\ next.entries = poll.entries \ {Entry} /\ next.took = poll.took
        /\ next.rejected = poll.rejected /\ next.video = Entry
    BY <1>2, <2>1 DEF Without, Runs, Phases
  <2>4. \E lane : Commit(poll.copy, next, lane)
    BY <1>6 DEF Attach
  <2> HIDE DEF next
  <2>5. QED
    BY <1>5, <2>2, <2>3, <2>4
<1>7. CASE Tag \/ LaneItem
  <2>1. InHand = {poll.video}
    BY <1>7 DEF Tag, LaneItem, InHand, At
  <2>2. \E next, lane :
          /\ next \in Runs /\ Commit(poll.copy, next, lane) /\ next.todo = poll.todo /\ next.sub = poll.sub
          /\ next.phase \in {"tagged", "attached"} /\ next.entries = poll.entries
          /\ next.took = poll.took /\ next.rejected = poll.rejected /\ next.video = poll.video
    <3> DEFINE tagged == Goes("tagged")
               attached == [poll EXCEPT !.phase = "attached", !.counted = @ + 1]
    <3>1. /\ tagged \in Runs /\ tagged.todo = poll.todo /\ tagged.sub = poll.sub
          /\ tagged.phase = "tagged" /\ tagged.entries = poll.entries
          /\ tagged.took = poll.took /\ tagged.rejected = poll.rejected /\ tagged.video = poll.video
      BY <1>2 DEF Goes, Runs, Phases
    <3>2. /\ attached \in Runs /\ attached.todo = poll.todo /\ attached.sub = poll.sub
          /\ attached.phase = "attached" /\ attached.entries = poll.entries
          /\ attached.took = poll.took /\ attached.rejected = poll.rejected /\ attached.video = poll.video
      <4> DEFINE n == poll.counted + 1
      <4>1. n \in Nat /\ attached = [poll EXCEPT !.phase = "attached", !.counted = n]
        BY <1>2 DEF Runs
      <4> HIDE DEF n, attached
      <4>2. QED
        BY <1>2, <4>1 DEF Runs, Phases
    <3>3. \/ Commit(poll.copy, tagged, items)
          \/ \E lane : Commit(poll.copy, attached, lane)
      BY <1>7 DEF Tag, LaneItem
    <3> HIDE DEF tagged, attached
    <3>4. QED
      BY <3>1, <3>2, <3>3
  <2>3. QED
    BY <1>3, <1>5, <2>1, <2>2
<1>8. QED
  BY <1>6, <1>7

\* The ends of the poll of a subscription.
LEMMA EndIds ==
    ASSUME TypeInv, IdsInv, ListIsLong, FeedFails \/ FeedHasNothing \/ SubmitFails \/ Finish
    PROVE  IdsInv' /\ IdsAreKept
<1>1. UNCHANGED uploads /\ ~At("idle") /\ ~At("next")
  BY DEF FeedFails, FeedHasNothing, SubmitFails, Finish, At
<1>2. /\ poll \in Runs /\ Row \in Rows /\ poll.sub \in Subs
      /\ poll.took \in Seq(Clips) /\ poll.rejected \in Seq(Clips)
      /\ poll.slots \in Int /\ poll.counted \in Int
  BY <1>1, RunHasRows DEF Runs
<1> DEFINE c == ChannelOf[poll.sub]
           Kept(row) == \/ row.seen = Row.seen
                        \/ ListOK(uploads, c, Row.seen) =>
                              /\ ListOK(uploads, c, row.seen)
                              /\ \A v \in Seen(Row) : v \in Seen(row) \/ v \notin Feed(c)
<1>3. \E row \in Rows, slots \in Int :
         row.id = Row.id /\ Kept(row) /\ Commit(CopyWith(row), Leaves(slots), items)
  <2>1. Marked \in Seq(Clips)
    BY <1>2 DEF Marked
  <2>2. /\ Failed(Row) \in Rows /\ Succeeded(Row, <<>>) \in Rows /\ Succeeded(Row, Marked) \in Rows
        /\ Failed(Row).id = Row.id /\ Succeeded(Row, <<>>).id = Row.id
        /\ Succeeded(Row, Marked).id = Row.id
    BY <1>2, <2>1, EmptySeq, PolledRows, PolledToday
  <2>3. Failed(Row).seen = Row.seen
    BY <1>2 DEF Failed, Rows
  <2>4. ASSUME NEW m \in Seq(Clips), NoneTwice(m), ToSet(m) \subseteq Feed(c) \ Seen(Row)
        PROVE  Kept(Succeeded(Row, m))
    BY <1>2, <2>4, EndKeepsFeed
  <2> HIDE DEF Kept
  <2>5. CASE FeedFails
    <3>1. Kept(Failed(Row))
      BY <2>3 DEF Kept
    <3>2. QED
      BY <1>2, <2>2, <2>5, <3>1 DEF FeedFails
  <2>6. CASE FeedHasNothing
    <3>1. NoneTwice(<<>>) /\ ToSet(<<>>) = {}
      BY DEF NoneTwice, ToSet
    <3>2. Kept(Succeeded(Row, <<>>))
      BY <2>4, <3>1, EmptySeq
    <3>3. QED
      BY <1>2, <2>2, <2>6, <3>2 DEF FeedHasNothing
  <2>7. CASE SubmitFails
    <3> DEFINE slots == IF InLane THEN poll.slots - poll.counted ELSE poll.slots
    <3>1. slots \in Int
      BY <1>2
    <3>2. Commit(CopyWith(Failed(Row)), Leaves(slots), items)
      BY <2>7 DEF SubmitFails
    <3> HIDE DEF slots
    <3>3. Kept(Failed(Row))
      BY <2>3 DEF Kept
    <3>4. QED
      BY <2>2, <3>1, <3>2, <3>3
  <2>8. CASE Finish
    <3>1. FedOK(Feed(c) \ Seen(Row), poll.entries, poll.took, poll.rejected, InHand)
      BY <2>8 DEF Finish, At, IdsInv, FedInv
    <3>2. NoneTwice(Marked) /\ ToSet(Marked) \subseteq Feed(c) \ Seen(Row)
      BY <1>2, <3>1, FedJoins DEF Marked
    <3>3. Kept(Succeeded(Row, Marked))
      BY <2>1, <2>4, <3>2
    <3>4. poll.slots - poll.counted \in Int
      BY <1>2
    <3>5. QED
      BY <2>2, <2>8, <3>3, <3>4 DEF Finish
  <2>9. QED
    BY <2>5, <2>6, <2>7, <2>8
<1>4. PICK row \in Rows, slots \in Int :
         row.id = Row.id /\ Kept(row) /\ Commit(CopyWith(row), Leaves(slots), items)
  BY <1>3
<1>5. /\ Leaves(slots) \in Runs /\ Leaves(slots).phase = "next" /\ Leaves(slots).todo = poll.todo
      /\ Leaves(slots).took = <<>> /\ Leaves(slots).rejected = <<>>
  <2>1. RunOK(Leaves(slots))
    BY <1>1, RunHasRows
  <2>2. QED
    BY <2>1 DEF RunOK, Leaves, NoRun
<1>6. ASSUME poll' # NoRun PROVE FedInv'
  <2>1. poll' = [Leaves(slots) EXCEPT !.loaded = CopyWith(row), !.copy = CopyWith(row)]
    BY <1>4, <1>6 DEF Commit
  <2>2. poll'.phase = "next" /\ poll'.took = <<>> /\ poll'.rejected = <<>>
    BY <1>5, <2>1 DEF Runs
  <2>3. QED
    BY <2>2 DEF FedInv
<1>7. Leaves(slots).phase \in Phases \ {"idle"}
  BY <1>5 DEF Phases
<1>8. QED
  BY <1>1, <1>4, <1>5, <1>6, <1>7, CommitIds

\* A run that is killed.
LEMMA KillIds ==
    ASSUME IdsInv, RunKilled
    PROVE  IdsInv' /\ IdsAreKept
<1>1. UNCHANGED <<uploads, rows>> /\ poll'.phase = "idle"
  BY DEF RunKilled, NoRun
<1>2. QED
  BY <1>1, IdleIds, SameLists DEF IdsInv

\* Uploads, and what users, the pipeline and the calendar do.
LEMMA WorldIds ==
    ASSUME TypeInv, IdsInv, World
    PROVE  IdsInv' /\ IdsAreKept
<1>1. /\ rows \in [Subs -> Rows] /\ \A s \in Subs : ListOK(uploads, ChannelOf[s], rows[s].seen)
      /\ MaxRows \in Nat \ {0}
      /\ ListsInSync /\ FedInv
  BY PollAssumption DEF IdsInv, TypeInv
<1>2. poll' = poll
  BY DEF World, Upload, Airs, PipelineEnds, PersonRetries, NewDay, BecomesDue, Enable, Disable,
         ResetFailures, DeleteRow, Subscribe
<1>3. ASSUME NEW c \in Channels, NEW k \in {"regular", "short", "upcoming"}, Upload(c, k)
      PROVE  IdsInv' /\ IdsAreKept
  <2>1. rows' = rows /\ (At("idle") \/ At("fetch"))
    BY <1>3 DEF Upload
  <2>2. \A s \in Subs : ListOK(uploads', ChannelOf[s], rows'[s].seen)
    <3> SUFFICES ASSUME NEW s \in Subs PROVE ListOK(uploads', ChannelOf[s], rows[s].seen)
      BY <2>1
    <3>1. rows[s].seen \in Seq(Clips)
      BY <1>1 DEF Rows
    <3>2. QED
      BY <1>1, <1>3, <3>1, UploadKeepsLists
  <2>3. IdsAreKept
    BY <2>1 DEF IdsAreKept
  <2>4. ListsInSync'
    BY <1>1, <1>2, <2>1 DEF ListsInSync, At
  <2>5. FedInv'
    BY <1>1, <1>2, <2>1 DEF FedInv, At
  <2>6. QED
    BY <2>2, <2>3, <2>4, <2>5 DEF IdsInv
\* What is left to show of the steps of rows.
<1>4. ASSUME UNCHANGED uploads,
             \A s \in Subs :
                \/ rows'[s].id = rows[s].id /\ rows'[s].seen = rows[s].seen
                \/ rows[s].id \in 1 .. MaxRows - 1 /\ rows'[s].id = 0 /\ rows'[s].seen = <<>>
                \/ rows[s].id = 0 /\ rows'[s].id = MaxRows /\ rows'[s].seen = <<>>
      PROVE  IdsInv' /\ IdsAreKept
  <2>1. \A s \in Subs : ListOK(uploads', ChannelOf[s], rows'[s].seen)
    <3>1. \A c : ListOK(uploads, c, <<>>)
      BY DEF ListOK
    <3>2. QED
      BY <1>1, <1>4, <3>1
  <2>2. IdsAreKept
    <3>1. \A s \in Subs : rows'[s].id # rows[s].id \/ rows'[s].seen = rows[s].seen
      BY <1>1, <1>4
    <3>2. QED
      BY <3>1 DEF IdsAreKept, Seen
  <2>3. ASSUME ~At("idle"), NEW s \in Subs, poll.loaded[s].id # 0
        PROVE  IF rows'[s].id = poll.loaded[s].id THEN rows'[s].seen = poll.loaded[s].seen
                                                  ELSE poll.loaded[s].id < MaxRows
    <3>1. IF rows[s].id = poll.loaded[s].id THEN rows[s].seen = poll.loaded[s].seen
                                            ELSE poll.loaded[s].id < MaxRows
      BY <1>1, <2>3 DEF ListsInSync
    <3>2. QED
      BY <1>1, <1>4, <2>3, <3>1
  <2>4. ListsInSync'
    BY <1>1, <1>2, <2>3 DEF ListsInSync, At
  <2>5. FedInv'
    BY <1>1, <1>2, <1>4 DEF FedInv, Feed, Uploaded, Row, Seen, InHand
  <2>6. QED
    BY <2>1, <2>2, <2>4, <2>5 DEF IdsInv
<1>5. ASSUME NEW v \in Clips, Airs(v) \/ PipelineEnds(v) \/ PersonRetries(v)
      PROVE  IdsInv' /\ IdsAreKept
  <2>1. UNCHANGED <<rows, uploads>>
    BY <1>5 DEF Airs, PipelineEnds, PersonRetries
  <2>2. QED
    BY <1>4, <2>1
<1>6. ASSUME NewDay PROVE IdsInv' /\ IdsAreKept
  <2>1. \A s \in Subs : /\ [rows[s] EXCEPT !.fresh = FALSE].id = rows[s].id
                        /\ [rows[s] EXCEPT !.fresh = FALSE].seen = rows[s].seen
    BY <1>1 DEF Rows
  <2>2. /\ UNCHANGED uploads
        /\ \A s \in Subs : rows'[s].id = rows[s].id /\ rows'[s].seen = rows[s].seen
    BY <1>6, <2>1 DEF NewDay
  <2>3. QED
    BY <1>4, <2>2
<1>7. ASSUME NEW s \in Subs,
             \/ BecomesDue(s) \/ Enable(s) \/ Disable(s) \/ ResetFailures(s)
             \/ DeleteRow(s) \/ Subscribe(s)
      PROVE  IdsInv' /\ IdsAreKept
  <2>1. rows[s] \in Rows
    BY <1>1
  <2>2. \A b \in BOOLEAN, n \in Nat :
           /\ [rows[s] EXCEPT !.due = b].id = rows[s].id /\ [rows[s] EXCEPT !.due = b].seen = rows[s].seen
           /\ [rows[s] EXCEPT !.enabled = b].id = rows[s].id
           /\ [rows[s] EXCEPT !.enabled = b].seen = rows[s].seen
           /\ [rows[s] EXCEPT !.failures = n].id = rows[s].id
           /\ [rows[s] EXCEPT !.failures = n].seen = rows[s].seen
    BY <2>1 DEF Rows
  <2>3. \A id : NewRow(id).id = id /\ NewRow(id).seen = <<>>
    BY DEF NewRow
  <2>4. /\ UNCHANGED uploads
        /\ \E row : /\ rows' = [rows EXCEPT ![s] = row]
                    /\ \/ row.id = rows[s].id /\ row.seen = rows[s].seen
                       \/ rows[s].id \in 1 .. MaxRows - 1 /\ row.id = 0 /\ row.seen = <<>>
                       \/ rows[s].id = 0 /\ row.id = MaxRows /\ row.seen = <<>>
    <3>1. CASE BecomesDue(s)
      BY <2>2, <3>1 DEF BecomesDue
    <3>2. CASE Enable(s) \/ Disable(s)
      BY <2>2, <3>2 DEF Enable, Disable
    <3>3. CASE ResetFailures(s)
      BY <2>2, <3>3 DEF ResetFailures
    <3>4. CASE DeleteRow(s)
      BY <2>3, <3>4 DEF DeleteRow
    <3>5. CASE Subscribe(s)
      BY <2>3, <3>5 DEF Subscribe
    <3>6. QED
      BY <1>7, <3>1, <3>2, <3>3, <3>4, <3>5
  <2>5. QED
    BY <1>1, <1>4, <2>4
<1>8. QED
  BY <1>3, <1>5, <1>6, <1>7 DEF World

\* IdsInv holds at first, and every step keeps it and the ids of the feed.
LEMMA IdsInvariant ==
    /\ PollInit => IdsInv
    /\ TypeInv /\ IdsInv /\ ListIsLong /\ [PollNext]_pollVars => IdsInv' /\ (IdsAreKept \/ UNCHANGED pollVars)
<1>1. ASSUME PollInit PROVE IdsInv
  <2>1. \A s \in Subs : rows[s].seen = <<>>
    BY <1>1 DEF PollInit, NewRow
  <2>2. \A s \in Subs : ListOK(uploads, ChannelOf[s], rows[s].seen)
    BY <2>1 DEF ListOK
  <2>3. poll.phase = "idle"
    BY <1>1 DEF PollInit, NoRun
  <2>4. QED
    BY <2>2, <2>3 DEF IdsInv, ListsInSync, FedInv, At
<1>2. ASSUME TypeInv, IdsInv, UNCHANGED pollVars PROVE IdsInv'
  <2>1. ListsInSync' /\ FedInv'
    BY <1>2 DEF pollVars, IdsInv, ListsInSync, FedInv, At, Feed, Uploaded, Row, Seen, InHand
  <2>2. QED
    BY <1>2, <2>1 DEF pollVars, IdsInv
<1>3. ASSUME TypeInv, IdsInv, ListIsLong, PollNext PROVE IdsInv' /\ IdsAreKept
  BY <1>3, QueryIds, FeedIds, EntryIds, EntryCommitIds, EndIds, KillIds, WorldIds
     DEF PollNext, RunSteps
<1>4. QED
  BY <1>1, <1>2, <1>3

\* What a subscription has marked seen stays on its list while the feed shows it, wherever runs
\* are killed, capped or refused and users edit, if the list is nearly twice as long as the feed
\* (mark_poll_success keeps 50 ids, fetch_channel_feed returns some 15).
THEOREM SeenStaysKnown ==
    ASSUME ListIsLong
    PROVE  PollSpec => [][IdsAreKept]_pollVars
<1>1. PollInit => IdsInv
  BY IdsInvariant
<1>2. TypeInv /\ IdsInv /\ [PollNext]_pollVars => IdsInv' /\ [IdsAreKept]_pollVars
  BY IdsInvariant
<1>3. QED
  BY <1>1, <1>2, PollTypes, PTL DEF PollSpec
=============================================================================

-------------------------- MODULE Messages_proofs ---------------------------
(***************************************************************************)
(* Proofs about the services that send messages to people and that keep    *)
(* on record what they sent, for any threads, events and recipients, any   *)
(* times, lanes, videos and sessions:                                      *)
(*                                                                         *)
(*   SendsAreOnRecordAlways   Notifier: what is suppressed was sent, and   *)
(*                            nothing is sent twice within the window;     *)
(*   AlertsAreTimelyAlways    OutcomeWatchdog: the operator knows the      *)
(*                            incident, and hears of it when it is due;    *)
(*   DigestsAreToldAlways     LaneDigests: what is marked was told, and    *)
(*                            told once;                                   *)
(*   ExchangesAreWholeAlways  ChatSessions: no question without an answer, *)
(*                            no late message undoes a choice of the user. *)
(*                                                                         *)
(* The services share nothing.  Each promise speaks of the record after a  *)
(* step; the invariant of each adds what a thread, run or message has in   *)
(* hand between two of its steps.                                          *)
(***************************************************************************)
EXTENDS Notifier, OutcomeWatchdog, LaneDigests, ChatSessions, FiniteSetTheorems, TLAPS

-----------------------------------------------------------------------------
(***************************************************************************)
(* Notifier.                                                               *)
(***************************************************************************)
\* The smaller of two numbers.
LEMMA MinOfTwo ==
    ASSUME NEW a \in Int, NEW b \in Int
    PROVE  Min({a, b}) = IF a <= b THEN a ELSE b
<1> DEFINE m == IF a <= b THEN a ELSE b
<1>1. m \in {a, b} /\ \A y \in {a, b} : m <= y
  OBVIOUS
<1>2. Min({a, b}) \in {a, b} /\ \A y \in {a, b} : Min({a, b}) <= y
  BY <1>1 DEF Min
<1>3. QED
  BY <1>2

-----------------------------------------------------------------------------
\* A thread that has reserved and not yet finished.
Sending(t) == thread[t].phase \in {"send", "finish"}

\* It has confirmed its message and not yet recorded it.
Unrecorded(t) == thread[t].phase = "finish" /\ thread[t].sent

\* What a thread is made of.
PushThread == [phase : {"away", "next", "send", "finish"}, event : Events,
               todo : SUBSET Recipients, to : SUBSET Recipients, sent : BOOLEAN]

\* Types; a thread that sends has one recipient.
PushTypeInv ==
    /\ muted \in SUBSET Events
    /\ dedupe \in [Keys -> 0 .. Never]
    /\ pending \in SUBSET Keys
    /\ thread \in [Threads -> PushThread]
    /\ sinceAccepted \in [Keys -> 0 .. Long]
    /\ \A t \in Threads : Sending(t) => \E r \in Recipients : thread[t].to = {r}

\* A key is reserved by one thread at a time, and by none that is not sending.
ReservedOnce ==
    /\ PendingIsUnderWay
    /\ \A t, u \in Threads : Sending(t) /\ Sending(u) /\ Key(t) = Key(u) => t = u

\* The table lags behind what was confirmed only while a thread has still to record it.
TableIsCurrent ==
    /\ \A key \in Keys : \/ dedupe[key] <= sinceAccepted[key]
                         \/ \E t \in Threads : Unrecorded(t) /\ Key(t) = key
    /\ \A t \in Threads : thread[t].phase = "send" => dedupe[Key(t)] = Never
    /\ \A t \in Threads : Unrecorded(t) => sinceAccepted[Key(t)] < Long
    /\ SuppressedWasSent

\* The invariant.
PushInv == PushTypeInv /\ ReservedOnce /\ TableIsCurrent

-----------------------------------------------------------------------------
\* The key of a thread that sends to one recipient.
LEMMA KeyIsPair ==
    ASSUME NEW t \in Threads, NEW r, thread[t].to = {r}
    PROVE  Key(t) = <<thread[t].event, r>>
<1>1. (CHOOSE x \in {r} : TRUE) = r
  OBVIOUS
<1>2. QED
  BY <1>1 DEF Key

\* A thread that sends has one recipient, and its key is one of the table.
LEMMA KeyOfSending ==
    ASSUME PushTypeInv, NEW t \in Threads, Sending(t)
    PROVE  Key(t) \in Keys
<1>1. PICK r \in Recipients : thread[t].to = {r}
  BY DEF PushTypeInv
<1>2. thread[t].event \in Events
  BY DEF PushTypeInv, PushThread
<1>3. QED
  BY <1>1, <1>2, KeyIsPair DEF Keys

\* A thread that a step leaves alone keeps its key.
LEMMA KeyStays ==
    ASSUME NEW t, thread'[t] = thread[t]
    PROVE  /\ Key(t)' = Key(t)
           /\ Sending(t)' = Sending(t)
           /\ Unrecorded(t)' = Unrecorded(t)
BY DEF Key, Sending, Unrecorded

-----------------------------------------------------------------------------
\* A step of a thread that neither starts nor stops sending.
LEMMA QuietStep ==
    ASSUME PushInv, NEW t \in Threads, NEW new \in PushThread,
           thread' = [thread EXCEPT ![t] = new],
           ~Sending(t), new.phase \notin {"send", "finish"},
           UNCHANGED <<muted, dedupe, pending, sinceAccepted>>
    PROVE  PushInv'
<1>1. \A u \in Threads : u # t => thread'[u] = thread[u]
  BY DEF PushInv, PushTypeInv
<1>2. thread'[t] = new
  BY DEF PushInv, PushTypeInv
<1>3. ~Sending(t)' /\ ~Unrecorded(t)' /\ ~Unrecorded(t)
  BY <1>2 DEF Sending, Unrecorded
<1>4. \A u \in Threads : /\ Sending(u)' = Sending(u)
                         /\ Unrecorded(u)' = Unrecorded(u)
                         /\ Sending(u) => Key(u)' = Key(u) /\ thread'[u] = thread[u]
  <2>1. ASSUME NEW u \in Threads, u # t
        PROVE  /\ Sending(u)' = Sending(u) /\ Unrecorded(u)' = Unrecorded(u)
               /\ Key(u)' = Key(u) /\ thread'[u] = thread[u]
    BY <1>1, <2>1, KeyStays
  <2>2. Sending(t)' = Sending(t) /\ Unrecorded(t)' = Unrecorded(t)
    <3>1. (Sending(t)' <=> Sending(t)) /\ (Unrecorded(t)' <=> Unrecorded(t))
      BY <1>3
    <3>2. QED
      BY <3>1 DEF Sending, Unrecorded
  <2>3. ~Sending(t)
    OBVIOUS
  <2>4. QED
    BY <2>1, <2>2, <2>3
<1>5. PushTypeInv'
  BY <1>2, <1>4 DEF PushInv, PushTypeInv
<1>6. ReservedOnce'
  <2>1. {Key(u)' : u \in {w \in Threads : Sending(w)'}} = {Key(u) : u \in {w \in Threads : Sending(w)}}
    BY <1>4
  <2>2. PendingIsUnderWay'
    BY <2>1 DEF PushInv, ReservedOnce, PendingIsUnderWay, Sending
  <2>3. QED
    BY <2>2, <1>4 DEF PushInv, ReservedOnce
<1>7. TableIsCurrent'
  <2>1. \A u \in Threads : Unrecorded(u) \/ thread[u].phase = "send" => Sending(u)
    BY DEF Unrecorded, Sending
  <2>2. \A u \in Threads : thread'[u].phase = "send" => Sending(u) /\ thread[u].phase = "send"
    BY <1>4 DEF Sending
  <2>3. QED
    BY <1>4, <2>1, <2>2 DEF PushInv, TableIsCurrent, SuppressedWasSent
<1>8. QED
  BY <1>5, <1>6, <1>7 DEF PushInv

\* The next recipient is suppressed, or reserved.
LEMMA ReserveStep ==
    ASSUME PushInv, NEW t \in Threads, NEW r \in Recipients, Reserve(t, r)
    PROVE  PushInv'
<1> DEFINE key == <<thread[t].event, r>>
           new == [thread[t] EXCEPT !.phase = "send", !.todo = @ \ {r}, !.to = {r}]
<1>1. thread[t] \in PushThread /\ thread[t].phase = "next" /\ ~Sending(t) /\ ~Unrecorded(t)
  BY DEF PushInv, PushTypeInv, Reserve, Sending, Unrecorded
<1>2. CASE Suppressed(key)
  <2>1. [thread[t] EXCEPT !.todo = @ \ {r}] \in PushThread
        /\ [thread[t] EXCEPT !.todo = @ \ {r}].phase = "next"
    BY <1>1 DEF PushThread
  <2>2. thread' = [thread EXCEPT ![t] = [thread[t] EXCEPT !.todo = @ \ {r}]]
        /\ UNCHANGED <<muted, dedupe, pending, sinceAccepted>>
    BY <1>2 DEF Reserve, PushInv, PushTypeInv
  <2>3. QED
    BY <1>1, <2>1, <2>2, QuietStep
<1>3. CASE ~Suppressed(key)
  <2>1. /\ pending' = pending \cup {key} /\ thread' = [thread EXCEPT ![t] = new]
        /\ UNCHANGED <<muted, dedupe, sinceAccepted>>
    BY <1>1, <1>3 DEF Reserve, PushInv, PushTypeInv
  <2>2. new \in PushThread /\ new.to = {r} /\ new.phase = "send" /\ new.event = thread[t].event
    BY <1>1 DEF PushThread
  <2>3. key \in Keys /\ key \notin pending /\ dedupe[key] = Never
    <3>1. thread[t].event \in Events
      BY <1>1 DEF PushThread
    <3>2. key \in Keys
      BY <3>1 DEF Keys
    <3>3. dedupe[key] \in 0 .. DedupeWindow /\ DedupeWindow \in Nat
      BY <3>2, NotifierAssumption DEF PushInv, PushTypeInv, Never
    <3>4. QED
      BY <1>3, <3>2, <3>3 DEF Suppressed, Never
  <2>4. thread'[t] = new /\ \A u \in Threads : u # t => thread'[u] = thread[u]
    BY <2>1 DEF PushInv, PushTypeInv
  <2>5. Sending(t)' /\ ~Unrecorded(t)' /\ Key(t)' = key
    <3>1. (CHOOSE x \in {r} : TRUE) = r
      OBVIOUS
    <3>2. thread'[t].to = {r} /\ thread'[t].phase = "send" /\ thread'[t].event = thread[t].event
      BY <2>2, <2>4
    <3>3. QED
      BY <3>1, <3>2 DEF Sending, Unrecorded, Key
  <2>6. \A u \in Threads : u # t =>
           /\ Sending(u)' = Sending(u) /\ Unrecorded(u)' = Unrecorded(u)
           /\ Key(u)' = Key(u) /\ thread'[u] = thread[u]
    BY <2>4, KeyStays
  <2>7. PushTypeInv'
    BY <2>1, <2>2, <2>3, <2>4, <2>6 DEF PushInv, PushTypeInv
  <2>8. {Key(u)' : u \in {w \in Threads : Sending(w)'}}
           = {Key(u) : u \in {w \in Threads : Sending(w)}} \cup {key}
    BY <1>1, <2>5, <2>6
  <2>9. ReservedOnce'
    <3>1. PendingIsUnderWay'
      BY <2>1, <2>8 DEF PushInv, ReservedOnce, PendingIsUnderWay, Sending
    <3>2. \A u \in Threads : Sending(u) => Key(u) \in pending
      BY DEF PushInv, ReservedOnce, PendingIsUnderWay, Sending
    <3>3. QED
      BY <2>3, <2>5, <2>6, <3>1, <3>2 DEF PushInv, ReservedOnce
  <2>10. TableIsCurrent'
    <3>1. \A u \in Threads : thread'[u].phase = "send" => dedupe[Key(u)'] = Never
      BY <2>3, <2>4, <2>5, <2>6 DEF PushInv, TableIsCurrent
    <3>2. QED
      BY <1>1, <2>1, <2>5, <2>6, <3>1 DEF PushInv, TableIsCurrent, SuppressedWasSent
  <2>11. QED
    BY <2>7, <2>9, <2>10 DEF PushInv
<1>4. QED
  BY <1>2, <1>3

\* The request: what was reserved is far from its last message.
LEMMA PushSent ==
    ASSUME PushInv, NEW t \in Threads, SendPush(t)
    PROVE  PushInv' /\ sinceAccepted[Key(t)] >= DedupeWindow
<1>1. /\ thread[t] \in PushThread /\ thread[t].phase = "send"
      /\ Sending(t) /\ ~Unrecorded(t) /\ Key(t) \in Keys
  BY KeyOfSending DEF PushInv, PushTypeInv, SendPush, Sending, Unrecorded
<1>2. dedupe[Key(t)] = Never /\ sinceAccepted[Key(t)] \in 0 .. Long
  BY <1>1 DEF PushInv, PushTypeInv, TableIsCurrent
<1>3. \A u \in Threads : Unrecorded(u) => Key(u) # Key(t)
  BY <1>1 DEF PushInv, ReservedOnce, Sending, Unrecorded
<1>4. sinceAccepted[Key(t)] >= DedupeWindow
  BY <1>1, <1>2, <1>3, NotifierAssumption DEF PushInv, TableIsCurrent, Never, Long
<1>5. PICK sent, confirmed \in BOOLEAN :
          /\ thread' = [thread EXCEPT ![t].phase = "finish", ![t].sent = confirmed]
          /\ sinceAccepted' = IF confirmed THEN [sinceAccepted EXCEPT ![Key(t)] = 0] ELSE sinceAccepted
  BY DEF SendPush
<1>6. UNCHANGED <<muted, dedupe, pending>>
  BY DEF SendPush
<1> DEFINE new == [thread[t] EXCEPT !.phase = "finish", !.sent = confirmed]
<1>7. thread' = [thread EXCEPT ![t] = new] /\ thread'[t] = new
      /\ \A u \in Threads : u # t => thread'[u] = thread[u]
  BY <1>5 DEF PushInv, PushTypeInv
<1>8. /\ new \in PushThread /\ new.phase = "finish" /\ new.sent = confirmed
      /\ new.to = thread[t].to /\ new.event = thread[t].event
  BY <1>1, <1>5 DEF PushThread
<1>9. Sending(t)' /\ Unrecorded(t)' = confirmed /\ Key(t)' = Key(t)
  BY <1>7, <1>8 DEF Sending, Unrecorded, Key
<1>10. \A u \in Threads : u # t =>
           /\ Sending(u)' = Sending(u) /\ Unrecorded(u)' = Unrecorded(u)
           /\ Key(u)' = Key(u) /\ thread'[u] = thread[u]
  BY <1>7, KeyStays
<1>11. sinceAccepted' \in [Keys -> 0 .. Long]
       /\ \A key \in Keys : key # Key(t) => sinceAccepted'[key] = sinceAccepted[key]
  BY <1>1, <1>5, NotifierAssumption DEF PushInv, PushTypeInv, Long
<1>12. IF confirmed THEN sinceAccepted'[Key(t)] = 0 ELSE sinceAccepted' = sinceAccepted
  BY <1>1, <1>5 DEF PushInv, PushTypeInv
<1>13. PushTypeInv'
  BY <1>1, <1>6, <1>7, <1>8, <1>10, <1>11 DEF PushInv, PushTypeInv
<1>14. ReservedOnce'
  <2>1. {Key(u)' : u \in {w \in Threads : Sending(w)'}} = {Key(u) : u \in {w \in Threads : Sending(w)}}
    BY <1>1, <1>9, <1>10
  <2>2. PendingIsUnderWay'
    BY <1>6, <2>1 DEF PushInv, ReservedOnce, PendingIsUnderWay, Sending
  <2>3. QED
    BY <1>1, <1>9, <1>10, <2>2 DEF PushInv, ReservedOnce
<1>15. TableIsCurrent'
  <2>1. \A u \in Threads : u # t /\ Sending(u) => Key(u) # Key(t) /\ Key(u) \in Keys
    BY <1>1, KeyOfSending DEF PushInv, ReservedOnce
  <2>2. \A u \in Threads : thread'[u].phase = "send" => u # t /\ thread[u].phase = "send"
    BY <1>7, <1>8
  <2>3. \A key \in Keys : \/ dedupe[key] <= sinceAccepted'[key]
                          \/ \E u \in Threads : Unrecorded(u)' /\ Key(u)' = key
    <3>1. ASSUME NEW key \in Keys, key # Key(t)
          PROVE  \/ dedupe[key] <= sinceAccepted'[key]
                 \/ \E u \in Threads : Unrecorded(u)' /\ Key(u)' = key
      BY <1>1, <1>10, <1>11, <3>1 DEF PushInv, TableIsCurrent
    <3>2. CASE confirmed
      BY <1>9, <3>1, <3>2
    <3>3. CASE ~confirmed
      BY <1>2, <1>4, <1>12, <3>1, <3>3, NotifierAssumption DEF Never
    <3>4. QED
      BY <3>2, <3>3
  <2>4. \A u \in Threads : Unrecorded(u)' => sinceAccepted'[Key(u)'] < Long
    <3>1. \A u \in Threads : Unrecorded(u) => Sending(u)
      BY DEF Unrecorded, Sending
    <3>2. 0 < Long
      BY NotifierAssumption DEF Long
    <3>3. QED
      BY <1>9, <1>10, <1>11, <1>12, <2>1, <3>1, <3>2 DEF PushInv, TableIsCurrent
  <2>5. SuppressedWasSent'
    <3>1. \A key \in Keys : dedupe[key] < Never => sinceAccepted[key] < Long
      BY DEF PushInv, TableIsCurrent, SuppressedWasSent
    <3>2. 0 < Long
      BY NotifierAssumption DEF Long
    <3>3. \A key \in Keys : dedupe[key] < Never => sinceAccepted'[key] < Long
      BY <1>11, <1>12, <3>1, <3>2
    <3>4. QED
      BY <1>6, <3>3 DEF SuppressedWasSent
  <2>6. \A u \in Threads : thread'[u].phase = "send" => dedupe'[Key(u)'] = Never
    BY <1>6, <1>10, <2>2 DEF PushInv, TableIsCurrent
  <2>7. QED
    BY <1>6, <2>3, <2>4, <2>5, <2>6 DEF TableIsCurrent
<1>16. QED
  BY <1>4, <1>13, <1>14, <1>15 DEF PushInv

\* What was confirmed enters the table, and the reservation ends whatever became of it.
LEMMA FinishStep ==
    ASSUME PushInv, NEW t \in Threads, FinishPush(t)
    PROVE  PushInv'
<1> DEFINE new == [thread[t] EXCEPT !.phase = "next", !.to = {}, !.sent = FALSE]
<1>1. thread[t] \in PushThread /\ thread[t].phase = "finish" /\ Sending(t) /\ Key(t) \in Keys
  BY KeyOfSending DEF PushInv, PushTypeInv, FinishPush, Sending
<1>2. /\ pending' = pending \ {Key(t)}
      /\ dedupe' = IF thread[t].sent THEN [dedupe EXCEPT ![Key(t)] = 0] ELSE dedupe
      /\ UNCHANGED <<muted, sinceAccepted>>
  BY DEF FinishPush, Released, Committed
<1>3. thread' = [thread EXCEPT ![t] = new] /\ thread'[t] = new
      /\ \A u \in Threads : u # t => thread'[u] = thread[u]
  BY DEF FinishPush, PushInv, PushTypeInv
<1>4. new \in PushThread /\ new.phase = "next"
  BY <1>1 DEF PushThread
<1>5. ~Sending(t)' /\ ~Unrecorded(t)'
  BY <1>3, <1>4 DEF Sending, Unrecorded
<1>6. \A u \in Threads : u # t =>
           /\ Sending(u)' = Sending(u) /\ Unrecorded(u)' = Unrecorded(u)
           /\ Key(u)' = Key(u) /\ thread'[u] = thread[u]
  BY <1>3, KeyStays
<1>7. \A u \in Threads : u # t /\ Sending(u) => Key(u) # Key(t) /\ Key(u) \in Keys
  BY <1>1, KeyOfSending DEF PushInv, ReservedOnce
<1>8. dedupe' \in [Keys -> 0 .. Never]
      /\ \A key \in Keys : key # Key(t) => dedupe'[key] = dedupe[key]
  BY <1>1, <1>2, NotifierAssumption DEF PushInv, PushTypeInv, Never
<1>9. IF thread[t].sent THEN dedupe'[Key(t)] = 0 ELSE dedupe' = dedupe
  BY <1>1, <1>2 DEF PushInv, PushTypeInv
<1>10. PushTypeInv'
  BY <1>2, <1>3, <1>4, <1>5, <1>6, <1>8 DEF PushInv, PushTypeInv
<1>11. ReservedOnce'
  <2>1. {Key(u)' : u \in {w \in Threads : Sending(w)'}}
           = {Key(u) : u \in {w \in Threads : Sending(w)}} \ {Key(t)}
    BY <1>1, <1>5, <1>6, <1>7
  <2>2. PendingIsUnderWay'
    BY <1>2, <2>1 DEF PushInv, ReservedOnce, PendingIsUnderWay, Sending
  <2>3. QED
    BY <1>5, <1>6, <2>2 DEF PushInv, ReservedOnce
<1>12. TableIsCurrent'
  <2>1. \A u \in Threads : Unrecorded(u) \/ thread[u].phase = "send" => Sending(u)
    BY DEF Unrecorded, Sending
  <2>2. \A u \in Threads : thread'[u].phase = "send" => u # t /\ thread[u].phase = "send"
    BY <1>3, <1>4
  <2>3. \A u \in Threads : thread'[u].phase = "send" => dedupe'[Key(u)'] = Never
    BY <1>6, <1>7, <1>8, <2>1, <2>2 DEF PushInv, TableIsCurrent
  <2>4. \A u \in Threads : Unrecorded(u)' => sinceAccepted'[Key(u)'] < Long
    BY <1>2, <1>5, <1>6 DEF PushInv, TableIsCurrent
  <2>5. sinceAccepted[Key(t)] \in 0 .. Long /\ (thread[t].sent => sinceAccepted[Key(t)] < Long)
    BY <1>1 DEF PushInv, PushTypeInv, TableIsCurrent, Unrecorded
  <2>6. \A key \in Keys : \/ dedupe'[key] <= sinceAccepted[key]
                          \/ \E u \in Threads : Unrecorded(u)' /\ Key(u)' = key
    <3>1. ASSUME NEW key \in Keys, key # Key(t)
          PROVE  \/ dedupe'[key] <= sinceAccepted[key]
                 \/ \E u \in Threads : Unrecorded(u)' /\ Key(u)' = key
      BY <1>6, <1>8, <3>1 DEF PushInv, TableIsCurrent
    <3>2. dedupe'[Key(t)] <= sinceAccepted[Key(t)]
      <4>1. CASE thread[t].sent
        BY <1>9, <2>5, <4>1
      <4>2. CASE ~thread[t].sent
        <5>1. \A u \in Threads : Unrecorded(u) => Key(u) # Key(t)
          BY <1>7, <2>1, <4>2 DEF Unrecorded
        <5>2. QED
          BY <1>1, <1>9, <4>2, <5>1 DEF PushInv, TableIsCurrent
      <4>3. QED
        BY <4>1, <4>2
    <3>3. QED
      BY <3>1, <3>2
  <2>7. SuppressedWasSent'
    <3>1. \A key \in Keys : dedupe[key] < Never => sinceAccepted[key] < Long
      BY DEF PushInv, TableIsCurrent, SuppressedWasSent
    <3>2. \A key \in Keys : dedupe'[key] < Never => sinceAccepted[key] < Long
      BY <1>8, <1>9, <2>5, <3>1
    <3>3. QED
      BY <1>2, <3>2 DEF SuppressedWasSent
  <2>8. QED
    BY <1>2, <2>3, <2>4, <2>6, <2>7 DEF TableIsCurrent
<1>13. QED
  BY <1>10, <1>11, <1>12 DEF PushInv

\* A thread begins or ends its round.
LEMMA RoundStep ==
    ASSUME PushInv, NEW t \in Threads, Return(t) \/ \E e \in Events : Notify(t, e)
    PROVE  PushInv'
<1>1. Away \in PushThread /\ Away.phase = "away"
  BY NotifierAssumption DEF Away, PushThread
<1>2. CASE Return(t)
  <2>1. ~Sending(t) /\ thread' = [thread EXCEPT ![t] = Away]
        /\ UNCHANGED <<muted, dedupe, pending, sinceAccepted>>
    BY <1>2 DEF Return, Sending
  <2>2. QED
    BY <1>1, <2>1, QuietStep
<1>3. ASSUME NEW e \in Events, Notify(t, e) PROVE PushInv'
  <2> DEFINE new == [Away EXCEPT !.phase = "next", !.event = e, !.todo = Recipients]
  <2>1. ~Sending(t) /\ thread' = [thread EXCEPT ![t] = new]
        /\ UNCHANGED <<muted, dedupe, pending, sinceAccepted>>
    BY <1>3 DEF Notify, Sending
  <2>2. new \in PushThread /\ new.phase = "next"
    BY <1>1 DEF PushThread
  <2>3. QED
    BY <2>1, <2>2, QuietStep
<1>4. QED
  BY <1>2, <1>3

\* Every thread is away and both tables are empty.
EmptyTables ==
    /\ dedupe = [key \in Keys |-> Never] /\ pending = {} /\ muted \in SUBSET Events
    /\ thread = [t \in Threads |-> Away] /\ sinceAccepted = [key \in Keys |-> Long]

\* Then everything is on record.
LEMMA EmptyIsOnRecord == EmptyTables => PushInv
<1> SUFFICES ASSUME EmptyTables PROVE PushInv
  OBVIOUS
<1> USE DEF EmptyTables
<1>1. Away \in PushThread /\ Away.phase = "away"
  BY NotifierAssumption DEF Away, PushThread
<1>2. \A t \in Threads : ~Sending(t) /\ ~Unrecorded(t) /\ thread[t].phase = "away"
  BY <1>1 DEF Sending, Unrecorded
<1>3. PushTypeInv
  BY <1>1, <1>2, NotifierAssumption DEF PushTypeInv, Never, Long
<1>4. ReservedOnce
  BY <1>2 DEF ReservedOnce, PendingIsUnderWay, Sending
<1>5. TableIsCurrent
  BY <1>2, NotifierAssumption DEF TableIsCurrent, SuppressedWasSent, Never, Long
<1>6. QED
  BY <1>3, <1>4, <1>5 DEF PushInv

\* The same of a step that leaves both tables empty.
LEMMA EmptyStaysOnRecord == EmptyTables' => PushInv'
<1>1. (EmptyTables => PushInv)'
  BY EmptyIsOnRecord, PTL
<1>2. QED
  BY <1>1

\* Nothing that the threads have under way changes.
LEMMA SameThreads ==
    ASSUME UNCHANGED <<thread, pending>>
    PROVE  /\ PendingIsUnderWay' = PendingIsUnderWay
           /\ \A t : /\ Key(t)' = Key(t) /\ Sending(t)' = Sending(t)
                    /\ Unrecorded(t)' = Unrecorded(t)
BY DEF PendingIsUnderWay, Key, Sending, Unrecorded

\* Time passes in the table and since the last message alike.
LEMMA NotifierTickStep == PushInv /\ NotifierTick => PushInv'
<1> SUFFICES ASSUME PushInv, NotifierTick PROVE PushInv'
  OBVIOUS
<1>1. UNCHANGED <<muted, pending, thread>>
  BY DEF NotifierTick
<1>2. \A key \in Keys : dedupe[key] \in 0 .. Never /\ sinceAccepted[key] \in 0 .. Long
  BY DEF PushInv, PushTypeInv
<1>3. Never \in Nat \ {0} /\ Never = DedupeWindow /\ Long = Never + 1
  BY NotifierAssumption DEF Never, Long
<1>4. \A key \in Keys : dedupe'[key] = IF Never <= dedupe[key] + 1 THEN Never ELSE dedupe[key] + 1
  <2>1. \A key \in Keys : dedupe'[key] = Min({Never, dedupe[key] + 1})
    BY DEF NotifierTick
  <2>2. TAKE key \in Keys
  <2>3. Never \in Int /\ dedupe[key] + 1 \in Int
    BY <1>2, <1>3
  <2>4. QED
    BY <2>1, <2>3, MinOfTwo
<1>5. \A key \in Keys :
         sinceAccepted'[key] = IF sinceAccepted[key] = Long THEN Long
                               ELSE IF Never <= sinceAccepted[key] + 1 THEN Never
                               ELSE sinceAccepted[key] + 1
  <2>1. \A key \in Keys : sinceAccepted'[key] = IF sinceAccepted[key] = Long THEN Long
                                               ELSE Min({Never, sinceAccepted[key] + 1})
    BY <1>3 DEF NotifierTick
  <2>2. TAKE key \in Keys
  <2>3. Never \in Int /\ sinceAccepted[key] + 1 \in Int
    BY <1>2, <1>3
  <2>4. Min({Never, sinceAccepted[key] + 1})
          = IF Never <= sinceAccepted[key] + 1 THEN Never ELSE sinceAccepted[key] + 1
    BY <2>3, MinOfTwo
  <2>5. QED
    BY <2>1, <2>4
<1>6. dedupe' \in [Keys -> 0 .. Never]
  <2>1. \A key \in Keys : dedupe'[key] \in 0 .. Never
    BY <1>2, <1>3, <1>4
  <2>2. DOMAIN dedupe' = Keys /\ dedupe' = [key \in Keys |-> dedupe'[key]]
    BY DEF NotifierTick
  <2>3. QED
    BY <2>1, <2>2
<1>7. sinceAccepted' \in [Keys -> 0 .. Long]
  <2>1. \A key \in Keys : sinceAccepted'[key] \in 0 .. Long
    BY <1>2, <1>3, <1>5
  <2>2. DOMAIN sinceAccepted' = Keys /\ sinceAccepted' = [key \in Keys |-> sinceAccepted'[key]]
    BY DEF NotifierTick
  <2>3. QED
    BY <2>1, <2>2
<1>8. PushTypeInv'
  BY <1>1, <1>6, <1>7, SameThreads DEF PushInv, PushTypeInv
<1>9. ReservedOnce'
  BY <1>1, SameThreads DEF PushInv, ReservedOnce
<1>10. TableIsCurrent'
  <2>1. \A key \in Keys : dedupe[key] <= sinceAccepted[key] => dedupe'[key] <= sinceAccepted'[key]
    BY <1>2, <1>3, <1>4, <1>5
  <2>2. \A key \in Keys : sinceAccepted[key] < Long => sinceAccepted'[key] < Long
    BY <1>2, <1>3, <1>5
  <2>3. \A key \in Keys : (dedupe'[key] < Never => dedupe[key] < Never)
                          /\ (dedupe[key] = Never => dedupe'[key] = Never)
    BY <1>2, <1>3, <1>4
  <2>4. \A t \in Threads : Sending(t) => Key(t) \in Keys
    BY KeyOfSending DEF PushInv
  <2>5. \A t \in Threads : Unrecorded(t) \/ thread[t].phase = "send" => Sending(t)
    BY DEF Unrecorded, Sending
  <2>6. \A key \in Keys : \/ dedupe'[key] <= sinceAccepted'[key]
                          \/ \E t \in Threads : Unrecorded(t)' /\ Key(t)' = key
    BY <1>1, <2>1, SameThreads DEF PushInv, TableIsCurrent
  <2>7. \A t \in Threads : thread'[t].phase = "send" => dedupe'[Key(t)'] = Never
    BY <1>1, <2>3, <2>4, <2>5, SameThreads DEF PushInv, TableIsCurrent
  <2>8. \A t \in Threads : Unrecorded(t)' => sinceAccepted'[Key(t)'] < Long
    BY <1>1, <2>2, <2>4, <2>5, SameThreads DEF PushInv, TableIsCurrent
  <2>9. SuppressedWasSent'
    <3>1. \A key \in Keys : dedupe[key] < Never => sinceAccepted[key] < Long
      BY DEF PushInv, TableIsCurrent, SuppressedWasSent
    <3>2. \A key \in Keys : dedupe'[key] < Never => sinceAccepted'[key] < Long
      BY <2>2, <2>3, <3>1
    <3>3. QED
      BY <3>2 DEF SuppressedWasSent
  <2>10. QED
    BY <2>6, <2>7, <2>8, <2>9 DEF TableIsCurrent
<1>11. QED
  BY <1>8, <1>9, <1>10 DEF PushInv

\* A step that changes at most the preferences.
LEMMA MutedStep ==
    ASSUME PushInv, muted' \in SUBSET Events, UNCHANGED <<dedupe, pending, thread, sinceAccepted>>
    PROVE  PushInv'
<1>1. PushTypeInv'
  BY SameThreads DEF PushInv, PushTypeInv
<1>2. ReservedOnce'
  BY SameThreads DEF PushInv, ReservedOnce
<1>3. SuppressedWasSent'
  BY DEF PushInv, TableIsCurrent, SuppressedWasSent
<1>4. TableIsCurrent'
  BY <1>3, SameThreads DEF PushInv, TableIsCurrent
<1>5. QED
  BY <1>1, <1>2, <1>4 DEF PushInv

\* Every step keeps the record, and none sends again what it has.
LEMMA PushStep == PushInv /\ NotifierNext => PushInv' /\ OncePerWindow
<1> SUFFICES ASSUME PushInv, NotifierNext PROVE PushInv' /\ OncePerWindow
  OBVIOUS
<1>1. OncePerWindow
  BY PushSent DEF OncePerWindow
<1>2. ASSUME NEW t \in Threads,
             \/ SendPush(t) \/ FinishPush(t) \/ Return(t)
             \/ \E e \in Events : Notify(t, e)
             \/ \E r \in Recipients : Reserve(t, r)
      PROVE  PushInv'
  BY <1>2, PushSent, FinishStep, RoundStep, ReserveStep
<1>3. ASSUME NEW e \in Events, Mute(e) PROVE PushInv'
  <2>1. muted' \in SUBSET Events
    BY <1>3 DEF Mute, PushInv, PushTypeInv
  <2>2. QED
    BY <1>3, <2>1, MutedStep DEF Mute
<1>4. CASE Restart
  <2>1. EmptyTables'
    BY <1>4 DEF Restart, EmptyTables, PushInv, PushTypeInv
  <2>2. QED
    BY <1>1, <2>1, EmptyStaysOnRecord
<1>5. QED
  BY <1>1, <1>2, <1>3, <1>4, NotifierTickStep DEF NotifierNext

\* For any number of events, recipients and threads, what the tables say was sent and is
\* under way is so after every step, and no step sends again within the window what they
\* have, although the check of a message and its record are separate steps of a thread.
THEOREM SendsAreOnRecordAlways == NotifierSpec => SendsAreOnRecord
<1>1. NotifierInit => PushInv
  BY EmptyIsOnRecord DEF NotifierInit, EmptyTables
<1>2. PushInv /\ [NotifierNext]_notifierVars
        => PushInv' /\ [PendingIsUnderWay' /\ SuppressedWasSent' /\ OncePerWindow]_notifierVars
  <2> SUFFICES ASSUME PushInv, [NotifierNext]_notifierVars
               PROVE  PushInv' /\ [PendingIsUnderWay' /\ SuppressedWasSent' /\ OncePerWindow]_notifierVars
    OBVIOUS
  <2>1. CASE NotifierNext
    BY <2>1, PushStep DEF PushInv, ReservedOnce, TableIsCurrent
  <2>2. CASE UNCHANGED notifierVars
    BY <2>2, MutedStep DEF notifierVars, PushInv, PushTypeInv
  <2>3. QED
    BY <2>1, <2>2
<1>3. QED
  BY <1>1, <1>2, PTL DEF NotifierSpec, SendsAreOnRecord

-----------------------------------------------------------------------------
(***************************************************************************)
(* OutcomeWatchdog.                                                        *)
(***************************************************************************)
\* What the variables are made of.
Incidents == [failed : SUBSET (Ingested \X Nat), overdue : SUBSET (Ingested \X Nat)]

Attempts == [recent : BOOLEAN, number : Nat,
             status : {"none", "active", "overdue", "failed", "completed"}]

Kinds == {"none", "healthy", "recovered", "new", "changed", "reminder", "suppressed"}

Files == [degraded : BOOLEAN, incident : Incidents, alerted : 0 .. Reminder]

Checks == [phase : {"idle", "collected", "saved"}, asked : Incidents, kind : Kinds]

CheckTypeInv ==
    /\ outcomes \in [Ingested -> Attempts]
    /\ incidentFile \in Files
    /\ check \in Checks
    /\ heard \in Incidents
    /\ sinceHeard \in 0 .. Reminder
    /\ lost \in BOOLEAN

\* What the operator should have heard.
FileTells == IF incidentFile.degraded THEN incidentFile.incident ELSE NoIncident

\* The file says what was told and when.
FileIsTold == heard = FileTells /\ (incidentFile.degraded => incidentFile.alerted = sinceHeard)

\* Until a run has saved, the file says what was told, unless a message was lost.
UnsavedIsTold == check.phase # "saved" /\ ~lost => FileIsTold

\* A run that has saved: the file says what its message will tell.
SavedIsAsked ==
    check.phase = "saved" =>
       /\ check.kind \in {"healthy", "recovered", "new", "changed", "reminder", "suppressed"}
       /\ IF check.kind \in {"healthy", "recovered"} THEN ~incidentFile.degraded
          ELSE incidentFile.degraded /\ incidentFile.incident = check.asked
       /\ check.kind \in {"new", "changed", "reminder"} => incidentFile.alerted = 0
       /\ check.kind = "suppressed" => incidentFile.alerted < Reminder
       /\ check.kind \in {"healthy", "suppressed"} /\ ~lost => FileIsTold
       /\ check.kind \in {"new", "changed"} /\ ~lost => heard # check.asked
       /\ check.kind = "reminder" /\ ~lost => sinceHeard >= Reminder

\* The invariant.
WatchInv == CheckTypeInv /\ UnsavedIsTold /\ SavedIsAsked

-----------------------------------------------------------------------------
\* No incident is one, and degrades nothing.
LEMMA NothingIsNoIncident == NoIncident \in Incidents /\ ~Degraded(NoIncident)
<1>1. Cardinality({}) = 0
  BY FS_EmptySet
<1>2. QED
  BY <1>1, WatchdogAssumption DEF NoIncident, Incidents, Degraded

\* What a run writes is a file.
LEMMA FilesAre ==
    /\ \A d \in BOOLEAN, i \in Incidents, a \in 0 .. Reminder :
          [degraded |-> d, incident |-> i, alerted |-> a] \in Files
    /\ [degraded |-> FALSE, incident |-> NoIncident, alerted |-> 0] \in Files
    /\ \A i \in Incidents : [degraded |-> TRUE, incident |-> i, alerted |-> 0] \in Files
<1>1. 0 \in 0 .. Reminder /\ NoIncident \in Incidents
  BY NothingIsNoIncident, WatchdogAssumption
<1>2. QED
  BY <1>1 DEF Files

\* A run that ends is at rest.
LEMMA NoCheckIsCheck == NoCheck \in Checks /\ NoCheck.phase = "idle"
BY NothingIsNoIncident DEF NoCheck, Checks, Kinds

\* What a run collects is an incident, maybe none.
LEMMA CollectedIsIncident == CheckTypeInv => Collected \in Incidents
<1> SUFFICES ASSUME CheckTypeInv PROVE Collected \in Incidents
  OBVIOUS
<1>1. ASSUME NEW status PROVE WithStatus(status) \in SUBSET (Ingested \X Nat)
  <2>1. \A v \in Ingested : outcomes[v].number \in Nat
    BY DEF CheckTypeInv, Attempts
  <2>2. QED
    BY <2>1 DEF WithStatus, Cohort
<1>2. QED
  BY <1>1 DEF Collected, Incidents

\* A step that leaves what is told and what the file says.
LEMMA OutcomeStep ==
    ASSUME WatchInv, NEW v \in Ingested, NEW o \in Attempts, Outcome(v, o)
    PROVE  WatchInv' /\ OperatorKnows'
BY DEF Outcome, WatchInv, CheckTypeInv, UnsavedIsTold, SavedIsAsked, FileIsTold, FileTells,
       OperatorKnows

\* The file is written before the message goes out.
LEMMA SaveStep ==
    ASSUME WatchInv, Save
    PROVE  WatchInv' /\ OperatorKnows'
<1> DEFINE asked == check.asked
           kind  == Kind(asked)
<1>1. /\ check.phase = "collected" /\ incidentFile' = NextFile(asked, kind)
      /\ check' = [check EXCEPT !.phase = "saved", !.kind = kind]
      /\ UNCHANGED <<outcomes, heard, sinceHeard, lost>>
  BY DEF Save
<1>2. CheckTypeInv /\ asked \in Incidents /\ (~lost => FileIsTold)
  BY <1>1 DEF WatchInv, CheckTypeInv, Checks, UnsavedIsTold
<1>3. Degraded(asked) => asked # NoIncident
  BY NothingIsNoIncident
<1>4. Degraded(asked) \in BOOLEAN /\ incidentFile.degraded \in BOOLEAN
  BY <1>2 DEF Degraded, CheckTypeInv, Files
<1>5. \/ /\ kind = "healthy" /\ ~incidentFile.degraded /\ incidentFile' = incidentFile
      \/ /\ kind = "recovered" /\ incidentFile.degraded
         /\ incidentFile' = [degraded |-> FALSE, incident |-> NoIncident, alerted |-> 0]
      \/ /\ kind = "new" /\ ~incidentFile.degraded /\ Degraded(asked)
         /\ incidentFile' = [degraded |-> TRUE, incident |-> asked, alerted |-> 0]
      \/ /\ kind = "changed" /\ incidentFile.degraded /\ asked # incidentFile.incident
         /\ incidentFile' = [degraded |-> TRUE, incident |-> asked, alerted |-> 0]
      \/ /\ kind = "reminder" /\ incidentFile.degraded /\ asked = incidentFile.incident
         /\ incidentFile.alerted >= Reminder
         /\ incidentFile' = [degraded |-> TRUE, incident |-> asked, alerted |-> 0]
      \/ /\ kind = "suppressed" /\ incidentFile.degraded /\ asked = incidentFile.incident
         /\ ~(incidentFile.alerted >= Reminder)
         /\ incidentFile' = [degraded |-> TRUE, incident |-> asked, alerted |-> incidentFile.alerted]
  <2>1. CASE ~Degraded(asked)
    BY <1>1, <1>4, <2>1 DEF Kind, NextFile, Alerted
  <2>2. CASE Degraded(asked)
    BY <1>1, <1>4, <2>2 DEF Kind, NextFile, Alerted
  <2>3. QED
    BY <2>1, <2>2
<1>6. check'.phase = "saved" /\ check'.kind = kind /\ check'.asked = asked
  BY <1>1, <1>2 DEF CheckTypeInv, Checks
<1>7. CheckTypeInv'
  <2>1. incidentFile' \in Files
    BY <1>2, <1>5, FilesAre DEF CheckTypeInv, Files
  <2>2. check' \in Checks
    <3>1. kind \in Kinds
      BY <1>5 DEF Kinds
    <3>2. QED
      BY <1>1, <1>2, <3>1 DEF CheckTypeInv, Checks
  <2>3. QED
    BY <1>1, <1>2, <2>1, <2>2 DEF CheckTypeInv
<1>8. SavedIsAsked'
  BY <1>1, <1>2, <1>3, <1>5, <1>6, WatchdogAssumption
     DEF SavedIsAsked, FileIsTold, FileTells, CheckTypeInv, Files
<1>9. UnsavedIsTold' /\ OperatorKnows'
  BY <1>6 DEF UnsavedIsTold, OperatorKnows
<1>10. QED
  BY <1>7, <1>8, <1>9 DEF WatchInv

\* A message tells what the file has, and is neither too early nor missing.
LEMMA EmitStep ==
    ASSUME WatchInv, Emit
    PROVE  WatchInv' /\ OperatorKnows' /\ NoRepeatedAlert /\ SilenceIsShort
<1>1. /\ check.phase = "saved" /\ check' = NoCheck /\ UNCHANGED <<outcomes, incidentFile>>
      /\ CheckTypeInv /\ SavedIsAsked
  BY DEF Emit, WatchInv
<1>2. CheckTypeInv'
  <2>1. heard' \in Incidents /\ sinceHeard' \in 0 .. Reminder /\ lost' \in BOOLEAN
    <3>1. check.asked \in Incidents /\ 0 \in 0 .. Reminder
      BY <1>1, WatchdogAssumption DEF CheckTypeInv, Checks
    <3>2. CASE check.kind \in {"healthy", "suppressed"}
      BY <1>1, <3>2 DEF CheckTypeInv, Emit
    <3>3. CASE check.kind \notin {"healthy", "suppressed"}
      BY <3>1, <3>3, NothingIsNoIncident DEF Emit
    <3>4. QED
      BY <3>2, <3>3
  <2>2. QED
    BY <1>1, <2>1, NoCheckIsCheck DEF CheckTypeInv
<1>3. check'.phase = "idle"
  BY <1>1 DEF NoCheck
<1>4. UnsavedIsTold' /\ OperatorKnows'
  <2>1. CASE check.kind \in {"healthy", "suppressed"}
    BY <1>1, <1>3, <2>1
       DEF Emit, SavedIsAsked, UnsavedIsTold, OperatorKnows, FileIsTold, FileTells
  <2>2. CASE check.kind \notin {"healthy", "suppressed"}
    BY <1>1, <1>3, <2>2
       DEF Emit, SavedIsAsked, UnsavedIsTold, OperatorKnows, FileIsTold, FileTells
  <2>3. QED
    BY <2>1, <2>2
<1>5. SavedIsAsked'
  BY <1>3 DEF SavedIsAsked
<1>6. NoRepeatedAlert
  BY <1>1 DEF NoRepeatedAlert, SavedIsAsked
<1>7. SilenceIsShort
  BY <1>1 DEF SilenceIsShort, SavedIsAsked, FileIsTold
<1>8. QED
  BY <1>2, <1>4, <1>5, <1>6, <1>7 DEF WatchInv

\* The time since the last message and the time in the file run together.
LEMMA WatchdogTickStep ==
    ASSUME WatchInv, WatchdogTick
    PROVE  WatchInv' /\ OperatorKnows'
<1>1. /\ check.phase = "idle" /\ UNCHANGED <<outcomes, check, heard, lost>>
      /\ sinceHeard' = IF sinceHeard = Reminder THEN Reminder ELSE sinceHeard + 1
      /\ CheckTypeInv /\ UnsavedIsTold
  BY DEF WatchdogTick, WatchInv
<1>2. /\ incidentFile'.degraded = incidentFile.degraded
      /\ incidentFile'.incident = incidentFile.incident
      /\ incidentFile' \in Files
      /\ incidentFile.degraded =>
            incidentFile'.alerted = IF incidentFile.alerted = Reminder THEN Reminder
                                    ELSE incidentFile.alerted + 1
  BY <1>1, WatchdogAssumption DEF WatchdogTick, CheckTypeInv, Files
<1>3. CheckTypeInv'
  BY <1>1, <1>2, WatchdogAssumption DEF CheckTypeInv
<1>4. UnsavedIsTold' /\ OperatorKnows'
  BY <1>1, <1>2 DEF UnsavedIsTold, OperatorKnows, FileIsTold, FileTells
<1>5. SavedIsAsked'
  BY <1>1 DEF SavedIsAsked
<1>6. QED
  BY <1>3, <1>4, <1>5 DEF WatchInv

\* Every step keeps the file and the operator together.
LEMMA WatchStep ==
    ASSUME WatchInv, [WatchdogNext]_watchdogVars
    PROVE  WatchInv' /\ [OperatorKnows' /\ NoRepeatedAlert /\ SilenceIsShort]_watchdogVars
<1>1. CheckTypeInv
  BY DEF WatchInv
<1>2. NoRepeatedAlert /\ SilenceIsShort
  BY EmitStep DEF NoRepeatedAlert, SilenceIsShort
<1>3. CASE Collect
  <2>1. check' = [NoCheck EXCEPT !.phase = "collected", !.asked = Collected]
        /\ check.phase = "idle" /\ UNCHANGED <<outcomes, incidentFile, heard, sinceHeard, lost>>
    BY <1>3 DEF Collect
  <2>2. CheckTypeInv' /\ check'.phase = "collected"
    BY <1>1, <2>1, CollectedIsIncident, NoCheckIsCheck DEF CheckTypeInv, Checks
  <2>3. UnsavedIsTold' /\ SavedIsAsked' /\ OperatorKnows'
    BY <2>1, <2>2
       DEF WatchInv, UnsavedIsTold, SavedIsAsked, OperatorKnows, FileIsTold, FileTells
  <2>4. QED
    BY <1>2, <2>2, <2>3 DEF WatchInv
<1>4. CASE CheckDies
  <2>1. check'.phase = "idle" /\ lost' = TRUE
    BY <1>4 DEF CheckDies, NoCheck
  <2>2. CheckTypeInv'
    BY <1>1, <1>4, NoCheckIsCheck, FilesAre DEF CheckDies, CheckTypeInv
  <2>3. QED
    BY <1>2, <2>1, <2>2 DEF WatchInv, UnsavedIsTold, SavedIsAsked, OperatorKnows
<1>5. ASSUME NEW v \in Ingested, Attempt(v) \/ Advance(v) \/ LeavesWindow(v)
      PROVE  WatchInv' /\ OperatorKnows'
  <2>1. outcomes[v] \in Attempts
    BY <1>1 DEF CheckTypeInv
  <2>2. \E o \in Attempts : Outcome(v, o)
    <3>1. CASE Attempt(v)
      <4>1. PICK seen \in {TRUE, outcomes[v].recent} :
               Outcome(v, [recent |-> seen, number |-> outcomes[v].number + 1, status |-> "active"])
        BY <3>1 DEF Attempt
      <4>2. [recent |-> seen, number |-> outcomes[v].number + 1, status |-> "active"] \in Attempts
        <5>1. outcomes[v].recent \in BOOLEAN /\ outcomes[v].number \in Nat
          BY <2>1 DEF Attempts
        <5>2. {TRUE, outcomes[v].recent} \subseteq BOOLEAN /\ outcomes[v].number + 1 \in Nat
          BY <5>1
        <5>3. \A r \in BOOLEAN, n \in Nat :
                 [recent |-> r, number |-> n, status |-> "active"] \in Attempts
          BY DEF Attempts
        <5>4. QED
          BY <4>1, <5>2, <5>3
      <4>3. QED
        BY <4>1, <4>2
    <3>2. CASE Advance(v)
      <4>1. PICK status \in {"overdue", "failed", "completed"} :
               Outcome(v, [outcomes[v] EXCEPT !.status = status])
        BY <3>2 DEF Advance
      <4>2. [outcomes[v] EXCEPT !.status = status] \in Attempts
        BY <2>1, <4>1 DEF Attempts
      <4>3. QED
        BY <4>1, <4>2
    <3>3. CASE LeavesWindow(v)
      <4>1. [outcomes[v] EXCEPT !.recent = FALSE] \in Attempts
        BY <2>1 DEF Attempts
      <4>2. QED
        BY <3>3, <4>1 DEF LeavesWindow
    <3>4. QED
      BY <1>5, <3>1, <3>2, <3>3
  <2>3. QED
    BY <2>2, OutcomeStep
<1>6. CASE UNCHANGED watchdogVars
  BY <1>6 DEF watchdogVars, WatchInv, CheckTypeInv, UnsavedIsTold, SavedIsAsked, FileIsTold, FileTells
<1>7. QED
  BY <1>2, <1>3, <1>4, <1>5, <1>6, SaveStep, EmitStep, WatchdogTickStep DEF WatchdogNext

\* At first there is no incident and nothing to tell.
LEMMA WatchInit == WatchdogInit => WatchInv
<1> SUFFICES ASSUME WatchdogInit PROVE WatchInv
  OBVIOUS
<1>1. CheckTypeInv /\ check.phase = "idle"
  <2>1. NoAttempt \in Attempts /\ Reminder \in 0 .. Reminder
    BY WatchdogAssumption DEF NoAttempt, Attempts
  <2>2. QED
    BY <2>1, NothingIsNoIncident, FilesAre, NoCheckIsCheck DEF WatchdogInit, CheckTypeInv
<1>2. QED
  BY <1>1 DEF WatchdogInit, WatchInv, UnsavedIsTold, SavedIsAsked, FileIsTold, FileTells

\* For any number of videos and any times, every step leaves an operator who knows the
\* incident the file has, who was not told of it twice within the time of a reminder, and for
\* whom silence means that the last message is younger than that; a run that dies excuses
\* only until the next message.
THEOREM AlertsAreTimelyAlways == WatchdogSpec => AlertsAreTimely
BY WatchInit, WatchStep, PTL DEF WatchdogSpec, AlertsAreTimely

-----------------------------------------------------------------------------
(***************************************************************************)
(* LaneDigests.                                                            *)
(***************************************************************************)
\* What a run is made of.
DigestRuns == [phase : {"idle", "gather", "send", "mark"}, todo : SUBSET Lanes,
               known : SUBSET Lanes, lane : Lanes \cup {NoDigest.lane},
               ready : SUBSET LaneVideos, others : SUBSET Pairs]

DigestTypeInv ==
    /\ chats \subseteq Lanes
    /\ delivered \subseteq Pairs /\ told \subseteq Pairs /\ unmarked \subseteq Pairs
    /\ run \in [Runs -> DigestRuns]
    /\ \A r \in Runs : run[r].phase \in {"send", "mark"} => run[r].lane \in Lanes

\* The videos that a run has told, or is about to tell, its lane.
Tells(r) == Pair(run[r].lane, run[r].ready)

\* Whatever was told is marked, about to be marked, or its run has died.
ToldIsMarked ==
    \A p \in told : \/ p \in delivered \cup unmarked
                    \/ \E r \in Runs : run[r].phase = "mark" /\ p \in Tells(r)

\* A run that has told has told what it will mark.
MarksWhatItTold == \A r \in Runs : run[r].phase = "mark" => Tells(r) \subseteq told

\* A run that is about to tell repeats only what it could not know.
RepeatsAreExcused ==
    \A r \in Runs : run[r].phase = "send" => Tells(r) \cap told \subseteq unmarked \cup run[r].others

\* The invariant.
DigestInv ==
    DigestTypeInv /\ DeliveredWasTold /\ ToldIsMarked /\ MarksWhatItTold /\ RepeatsAreExcused

-----------------------------------------------------------------------------
\* A run that ends, or has not begun, is at rest.
LEMMA NoDigestIsRun == NoDigest \in DigestRuns /\ NoDigest.phase = "idle"
BY DEF NoDigest, DigestRuns

\* A run that turns to its next lane goes on to gather.
LEMMA NextLaneIsRun ==
    ASSUME NEW r, run[r] \in DigestRuns
    PROVE  NextLane(r) \in DigestRuns /\ NextLane(r).phase = "gather"
BY NoDigestIsRun DEF NextLane, DigestRuns

\* The pairs of a lane and of videos.
LEMMA PairsOfLane ==
    ASSUME NEW l, NEW S, NEW p
    PROVE  /\ p \in Pair(l, S) => p[1] = l
           /\ l \in Lanes /\ S \subseteq LaneVideos => Pair(l, S) \subseteq Pairs
BY DEF Pair, Pairs

\* A run whose phase is neither send nor mark.
Passive(new) == new \in DigestRuns /\ new.phase \notin {"send", "mark"}

\* A run that gives up nothing: it has told nothing that is not marked.
LEMMA PassiveStep ==
    ASSUME DigestInv, NEW r \in Runs, NEW new, Passive(new),
           run' = [run EXCEPT ![r] = new], UNCHANGED <<chats, told>>,
           delivered \subseteq delivered', unmarked \subseteq unmarked',
           delivered' \subseteq told, unmarked' \subseteq Pairs,
           run[r].phase = "mark" => Tells(r) \subseteq delivered' \cup unmarked'
    PROVE  DigestInv'
<1>1. run'[r] = new /\ \A q \in Runs : q # r => run'[q] = run[q] /\ Tells(q)' = Tells(q)
  BY DEF DigestInv, DigestTypeInv, Tells
<1>2. DigestTypeInv' /\ DeliveredWasTold'
  BY <1>1 DEF DigestInv, DigestTypeInv, DeliveredWasTold, Passive
<1>3. ToldIsMarked'
  BY <1>1 DEF DigestInv, ToldIsMarked
<1>4. MarksWhatItTold' /\ RepeatsAreExcused'
  BY <1>1 DEF DigestInv, MarksWhatItTold, RepeatsAreExcused, Passive
<1>5. QED
  BY <1>2, <1>3, <1>4 DEF DigestInv

\* A step of the pipeline or of a recipient.
LEMMA OtherStep ==
    ASSUME DigestInv, chats' \subseteq Lanes, UNCHANGED <<delivered, run, told, unmarked>>
    PROVE  DigestInv'
BY DEF DigestInv, DigestTypeInv, DeliveredWasTold, ToldIsMarked, MarksWhatItTold,
       RepeatsAreExcused, Tells

\* What is gathered is not marked: it was told only by runs that died or are under way.
LEMMA GatherStep ==
    ASSUME DigestInv, NEW r \in Runs, NEW l \in Lanes, Gather(r, l)
    PROVE  DigestInv'
<1>1. run[r] \in DigestRuns /\ run[r].phase = "gather" /\ l \in run[r].todo
      /\ UNCHANGED <<chats, delivered, told, unmarked>>
  BY DEF Gather, DigestInv, DigestTypeInv
<1>2. CASE l \notin run[r].known
  <2> DEFINE new == [run[r] EXCEPT !.todo = @ \ {l}, !.phase = "gather", !.ready = {}, !.others = {}]
  <2>1. run' = [run EXCEPT ![r] = new]
    BY <1>1, <1>2 DEF Gather, DigestInv, DigestTypeInv, DigestRuns
  <2>2. Passive(new)
    BY <1>1 DEF Passive, DigestRuns
  <2> HIDE DEF new
  <2>3. QED
    BY <1>1, <2>1, <2>2, PassiveStep DEF DigestInv, DigestTypeInv, DeliveredWasTold
<1>3. CASE l \in run[r].known
  <2> DEFINE new == [run[r] EXCEPT !.todo = @ \ {l}, !.lane = l, !.phase = "send",
                                   !.ready = Ready(l), !.others = Underway(l)]
  <2>1. run' = [run EXCEPT ![r] = new]
    BY <1>1, <1>3 DEF Gather, DigestInv, DigestTypeInv, DigestRuns
  <2>2. Ready(l) \subseteq LaneVideos /\ Pair(l, Ready(l)) \cap delivered = {}
    BY DEF Ready, Items, FailedItems, Pair
  <2>3. Underway(l) \subseteq Pairs
    <3>1. \A q \in Runs : run[q].ready \subseteq LaneVideos
      BY DEF DigestInv, DigestTypeInv, DigestRuns
    <3>2. QED
      BY <3>1 DEF Underway, Pair, Pairs
  <2>4. /\ new \in DigestRuns /\ new.lane = l /\ new.ready = Ready(l)
        /\ new.others = Underway(l) /\ new.phase = "send"
    BY <1>1, <2>2, <2>3 DEF DigestRuns
  <2>5. run'[r] = new /\ Tells(r)' = Pair(l, Ready(l))
        /\ \A q \in Runs : q # r => run'[q] = run[q] /\ Tells(q)' = Tells(q)
    BY <2>1, <2>4 DEF DigestInv, DigestTypeInv, Tells
  <2>6. DigestTypeInv' /\ DeliveredWasTold'
    BY <1>1, <2>1, <2>4, <2>5 DEF DigestInv, DigestTypeInv, DeliveredWasTold
  <2>7. ToldIsMarked' /\ MarksWhatItTold'
    <3>1. \A q \in Runs : (run'[q].phase = "mark" <=> run[q].phase = "mark")
                          /\ (run[q].phase = "mark" => Tells(q)' = Tells(q))
      BY <1>1, <2>4, <2>5
    <3>2. QED
      BY <1>1, <3>1 DEF DigestInv, ToldIsMarked, MarksWhatItTold
  <2>8. Pair(l, Ready(l)) \cap told \subseteq unmarked \cup Underway(l)
    <3> SUFFICES ASSUME NEW p \in Pair(l, Ready(l)), p \in told, p \notin unmarked
                 PROVE  p \in Underway(l)
      OBVIOUS
    <3>1. PICK q \in Runs : run[q].phase = "mark" /\ p \in Tells(q)
      BY <2>2 DEF DigestInv, ToldIsMarked
    <3>2. run[q].lane = l
      BY <3>1, PairsOfLane DEF Tells
    <3>3. QED
      BY <3>1, <3>2 DEF Underway, Tells
  <2>9. RepeatsAreExcused'
    BY <1>1, <2>4, <2>5, <2>8 DEF DigestInv, RepeatsAreExcused
  <2>10. QED
    BY <2>6, <2>7, <2>9 DEF DigestInv
<1>4. QED
  BY <1>2, <1>3

\* A message that is confirmed excuses the runs of the lane that have gathered before it.
LEMMA DigestSent ==
    ASSUME DigestInv, NEW r \in Runs, SendDigest(r)
    PROVE  DigestInv'
<1>1. run[r] \in DigestRuns /\ run[r].phase = "send"
      /\ UNCHANGED <<chats, delivered, unmarked>>
  BY DEF SendDigest, DigestInv, DigestTypeInv
<1>2. CASE run' = [run EXCEPT ![r] = NextLane(r)] /\ told' = told
  <2>1. Passive(NextLane(r))
    BY <1>1, NextLaneIsRun DEF Passive
  <2>2. QED
    BY <1>1, <1>2, <2>1, PassiveStep DEF DigestInv, DigestTypeInv, DeliveredWasTold
<1>3. CASE /\ told' = told \cup Tells(r)
           /\ run' = [q \in Runs |->
                 IF q = r THEN [run[r] EXCEPT !.phase = "mark"]
                 ELSE [run[q] EXCEPT !.others = IF run[q].phase = "send" /\ run[q].lane = run[r].lane
                                               THEN @ \cup Tells(r) ELSE @]]
  <2>1. Tells(r) \subseteq Pairs
    <3>1. run[r].lane \in Lanes /\ run[r].ready \subseteq LaneVideos
      BY <1>1 DEF DigestInv, DigestTypeInv, DigestRuns
    <3>2. QED
      BY <3>1, PairsOfLane DEF Tells
  <2>2. run'[r].phase = "mark" /\ Tells(r)' = Tells(r) /\ run'[r] \in DigestRuns
        /\ run'[r].lane = run[r].lane
    BY <1>1, <1>3 DEF Tells, DigestRuns
  <2>3. \A q \in Runs : q # r =>
           /\ run'[q] \in DigestRuns /\ run'[q].phase = run[q].phase /\ Tells(q)' = Tells(q)
           /\ run'[q].lane = run[q].lane
           /\ run'[q].others = IF run[q].phase = "send" /\ run[q].lane = run[r].lane
                               THEN run[q].others \cup Tells(r) ELSE run[q].others
    <3> SUFFICES ASSUME NEW q \in Runs, q # r
                 PROVE  /\ run'[q] \in DigestRuns /\ run'[q].phase = run[q].phase
                        /\ run'[q].lane = run[q].lane /\ run'[q].ready = run[q].ready
                        /\ run'[q].others = IF run[q].phase = "send" /\ run[q].lane = run[r].lane
                                            THEN run[q].others \cup Tells(r) ELSE run[q].others
      BY DEF Tells
    <3>1. run[q] \in DigestRuns
      BY DEF DigestInv, DigestTypeInv
    <3>2. QED
      BY <1>3, <2>1, <3>1 DEF DigestRuns
  <2>4. DigestTypeInv' /\ DeliveredWasTold'
    <3>1. run' \in [Runs -> DigestRuns]
      BY <1>3, <2>2, <2>3
    <3>2. QED
      BY <1>1, <1>3, <2>1, <2>2, <2>3, <3>1 DEF DigestInv, DigestTypeInv, DeliveredWasTold, Tells
  <2>5. ToldIsMarked' /\ MarksWhatItTold'
    <3>1. \A q \in Runs : (run'[q].phase = "mark" <=> q = r \/ run[q].phase = "mark")
                          /\ Tells(q)' = Tells(q)
      BY <1>1, <2>2, <2>3
    <3>2. ToldIsMarked'
      BY <1>1, <1>3, <3>1 DEF DigestInv, ToldIsMarked
    <3>3. MarksWhatItTold'
      BY <1>1, <1>3, <3>1 DEF DigestInv, MarksWhatItTold
    <3>4. QED
      BY <3>2, <3>3
  <2>6. RepeatsAreExcused'
    <3> SUFFICES ASSUME NEW q \in Runs, run'[q].phase = "send", NEW p \in Tells(q), p \in told'
                 PROVE  p \in unmarked \cup run'[q].others
      BY <1>1, <2>2, <2>3 DEF RepeatsAreExcused
    <3>1. q # r /\ run[q].phase = "send"
      BY <2>2, <2>3
    <3>2. CASE p \in told
      BY <2>3, <3>1, <3>2 DEF DigestInv, RepeatsAreExcused
    <3>3. CASE p \in Tells(r)
      <4>1. run[q].lane = run[r].lane
        BY <3>3, PairsOfLane DEF Tells
      <4>2. QED
        BY <2>3, <3>1, <3>3, <4>1
    <3>4. QED
      BY <1>3, <3>2, <3>3
  <2>7. QED
    BY <2>4, <2>5, <2>6 DEF DigestInv
<1>4. QED
  BY <1>2, <1>3 DEF SendDigest, Tells

\* Every step keeps what was told together with what is marked.
LEMMA DigestStep ==
    ASSUME DigestInv, [LaneNext]_laneVars
    PROVE  DigestInv'
<1>1. DigestTypeInv /\ DeliveredWasTold
  BY DEF DigestInv
<1>2. ASSUME NEW r \in Runs,
             StartRun(r) \/ SendDigest(r) \/ Mark(r) \/ FinishRun(r) \/ RunDies(r)
      PROVE  DigestInv'
  <2>1. run[r] \in DigestRuns
    BY <1>1 DEF DigestTypeInv
  <2>2. CASE StartRun(r)
    <3>1. \A S \in SUBSET Lanes :
             Passive([NoDigest EXCEPT !.phase = "gather", !.todo = S, !.known = chats])
      BY <1>1, NoDigestIsRun DEF Passive, DigestRuns, DigestTypeInv
    <3>2. /\ run[r].phase = "idle" /\ UNCHANGED <<chats, told, delivered, unmarked>>
          /\ \E S \in SUBSET Lanes : run' =
                [run EXCEPT ![r] = [NoDigest EXCEPT !.phase = "gather", !.todo = S, !.known = chats]]
      <4>1. CASE r \in Scheduled
        BY <2>2, <4>1 DEF StartRun
      <4>2. CASE r \notin Scheduled
        <5>1. PICK l \in Lanes : run' =
                 [run EXCEPT ![r] = [NoDigest EXCEPT !.phase = "gather", !.todo = {l}, !.known = chats]]
          BY <2>2, <4>2 DEF StartRun
        <5>2. {l} \in SUBSET Lanes
          OBVIOUS
        <5>3. QED
          BY <2>2, <5>1, <5>2 DEF StartRun
      <4>3. QED
        BY <4>1, <4>2
    <3>3. QED
      BY <1>1, <3>1, <3>2, PassiveStep DEF DigestTypeInv, DeliveredWasTold
  <2>3. CASE Mark(r)
    <3>1. /\ run[r].phase = "mark" /\ delivered' = delivered \cup Tells(r)
          /\ run' = [run EXCEPT ![r] = NextLane(r)] /\ UNCHANGED <<chats, told, unmarked>>
      BY <2>3 DEF Mark, MarkedItems, Tells
    <3>2. delivered' \subseteq told
      BY <1>1, <3>1 DEF DeliveredWasTold, DigestInv, MarksWhatItTold
    <3>3. Passive(NextLane(r))
      BY <2>1, NextLaneIsRun DEF Passive
    <3>4. QED
      BY <1>1, <3>1, <3>2, <3>3, PassiveStep DEF DigestTypeInv
  <2>4. CASE FinishRun(r)
    <3>1. Passive(NoDigest)
      BY NoDigestIsRun DEF Passive
    <3>2. QED
      BY <1>1, <2>4, <3>1, PassiveStep DEF FinishRun, DigestTypeInv, DeliveredWasTold
  <2>5. CASE RunDies(r)
    <3>1. Passive(NoDigest)
      BY NoDigestIsRun DEF Passive
    <3>2. /\ unmarked' = IF run[r].phase = "mark" THEN unmarked \cup Tells(r) ELSE unmarked
          /\ run' = [run EXCEPT ![r] = NoDigest] /\ UNCHANGED <<chats, delivered, told>>
      BY <2>5 DEF RunDies, Tells
    <3>3. unmarked' \subseteq Pairs
      BY <1>1, <3>2 DEF DigestTypeInv, DigestInv, MarksWhatItTold
    <3>4. QED
      BY <1>1, <3>1, <3>2, <3>3, PassiveStep DEF DigestTypeInv, DeliveredWasTold
  <2>6. QED
    BY <1>2, <2>2, <2>3, <2>4, <2>5, DigestSent
<1>3. ASSUME NEW r \in Runs, NEW l \in Lanes, Gather(r, l) PROVE DigestInv'
  BY <1>3, GatherStep
<1>4. CASE \/ \E l \in Lanes : Greet(l)
           \/ \E v \in LaneVideos : Process(v) \/ Settle(v)
           \/ \E l \in Lanes, v \in LaneVideos : AttachItem(l, v) \/ LaneRetry(l, v)
           \/ \E p \in Pairs : Ages(p)
           \/ UNCHANGED laneVars
  <2>1. chats' \subseteq Lanes /\ UNCHANGED <<delivered, run, told, unmarked>>
    BY <1>1, <1>4 DEF DigestTypeInv, Greet, Process, Settle, AttachItem, LaneRetry, Ages, laneVars
  <2>2. QED
    BY <2>1, OtherStep
<1>5. QED
  BY <1>2, <1>3, <1>4 DEF LaneNext

\* At first nothing was told and nothing is marked.
LEMMA DigestBegins == LaneInit => DigestInv
<1> SUFFICES ASSUME LaneInit PROVE DigestInv
  OBVIOUS
<1>1. \A r \in Runs : run[r].phase = "idle"
  BY NoDigestIsRun DEF LaneInit
<1>2. QED
  BY <1>1, NoDigestIsRun
     DEF LaneInit, DigestInv, DigestTypeInv, DeliveredWasTold, ToldIsMarked, MarksWhatItTold,
         RepeatsAreExcused

\* What a run tells when its message is confirmed.
LEMMA ToldAgainIsExcused == DigestInv => ToldOnce
<1> SUFFICES ASSUME DigestInv, NEW r \in Runs, SendDigest(r)
             PROVE  Tells(r) \cap told \subseteq unmarked \cup run[r].others
  BY DEF ToldOnce, Tells
<1>1. run[r].phase = "send"
  BY DEF SendDigest
<1>2. QED
  BY <1>1 DEF DigestInv, RepeatsAreExcused

\* For any number of lanes, videos and overlapping runs, only what a confirmed message
\* counted as ready is marked as delivered, and no run tells a lane again what it could know
\* to be told: what remains was told by a run that died, or by one that overlapped.
THEOREM DigestsAreToldAlways == LaneSpec => DigestsAreTold
<1>1. DigestInv /\ [LaneNext]_laneVars => DigestInv' /\ [DeliveredWasTold' /\ ToldOnce]_laneVars
  BY DigestStep, ToldAgainIsExcused DEF DigestInv
<1>2. QED
  BY <1>1, DigestBegins, PTL DEF LaneSpec, DigestsAreTold

-----------------------------------------------------------------------------
(***************************************************************************)
(* ChatSessions.                                                           *)
(***************************************************************************)
\* What sessions and messages under way are made of.
ChatTitles == {"none", "renamed", "auto"}

ChatRows == [exists : BOOLEAN, telegram : BOOLEAN, title : ChatTitles,
             created : Nat, updated : Nat, questions : Nat, answers : Nat]

ChatMessages == [phase : {"idle", "selected", "asking", "answered"},
                 about : Sessions \cup {Quiet.about}, began : Nat,
                 untitled : BOOLEAN, opens : BOOLEAN]

ChatTypeInv ==
    /\ session \in [Sessions -> ChatRows]
    /\ sending \in [Senders -> ChatMessages]
    /\ clock \in Nat
    /\ stirred \in [Sessions -> Nat]
    /\ \A w \in Senders : sending[w].phase # "idle" => sending[w].about \in Sessions

\* The times of a row are those of transactions about it; an id that was never used has none.
TimesAgree ==
    \A s \in Sessions :
       /\ session[s].created <= session[s].updated
       /\ session[s].updated <= stirred[s] /\ stirred[s] <= clock
       /\ stirred[s] = 0 => session[s] = NoSession

\* A message under way has read a row that is no younger; one that opens its session is
\* alone with it until it commits.
MessagesFollow ==
    \A w \in Senders : sending[w].phase # "idle" =>
       LET s == sending[w].about IN
       /\ 1 <= sending[w].began /\ sending[w].began <= stirred[s]
       /\ ~sending[w].opens => session[s].created <= sending[w].began
       /\ sending[w].opens =>
             /\ sending[w].untitled /\ ~session[s].exists
             /\ \A v \in Senders : sending[v].phase # "idle" /\ sending[v].about = s => v = w

\* The invariant.
ChatInv == ChatTypeInv /\ WholeExchanges /\ TimesAgree /\ MessagesFollow

-----------------------------------------------------------------------------
\* A sender that has ended, or has not begun, is at rest.
LEMMA QuietIsMessage == Quiet \in ChatMessages /\ Quiet.phase = "idle"
BY DEF Quiet, ChatMessages

\* An id without a session has an empty row.
LEMMA NoSessionIsRow ==
    /\ NoSession \in ChatRows /\ ~NoSession.exists /\ NoSession.created = 0
    /\ NoSession.updated = 0 /\ NoSession.questions = NoSession.answers
    /\ NoSession.title = "none"
BY DEF NoSession, ChatRows, ChatTitles

\* The rows that the requests write.
LEMMA WrittenRows ==
    /\ \A row \in ChatRows, time \in Nat :
          LET new == [row EXCEPT !.title = "renamed", !.updated = time] IN
          /\ new \in ChatRows /\ new.created = row.created /\ new.updated = time
          /\ new.questions = row.questions /\ new.answers = row.answers
          /\ new.exists = row.exists
    /\ \A telegram \in BOOLEAN, time \in Nat :
          LET new == [NoSession EXCEPT !.exists = TRUE, !.telegram = telegram,
                                       !.created = time, !.updated = time] IN
          /\ new \in ChatRows /\ new.created = time /\ new.updated = time
          /\ new.questions = new.answers
BY DEF ChatRows, ChatTitles, NoSession

\* The row that the commit of an exchange writes.
Exchanged(row, title, time, m, n) ==
    [row EXCEPT !.title = title, !.updated = time, !.questions = m, !.answers = n]

\* Nothing else of the row is written.
LEMMA ExchangedIsRow ==
    ASSUME NEW row \in ChatRows, NEW time \in Nat, NEW m \in Nat, NEW n \in Nat,
           NEW title \in ChatTitles
    PROVE  /\ Exchanged(row, title, time, m, n) \in ChatRows
           /\ Exchanged(row, title, time, m, n).questions = m
           /\ Exchanged(row, title, time, m, n).answers = n
           /\ Exchanged(row, title, time, m, n).created = row.created
           /\ Exchanged(row, title, time, m, n).updated = time
           /\ Exchanged(row, title, time, m, n).title = title
<1> DEFINE dated == [row EXCEPT !.title = title, !.updated = time]
           new   == [dated EXCEPT !.questions = m, !.answers = n]
<1>1. dated \in ChatRows /\ dated.title = title /\ dated.updated = time /\ dated.created = row.created
  BY DEF ChatRows
<1> HIDE DEF dated
<1>2. /\ new \in ChatRows /\ new.title = dated.title /\ new.updated = dated.updated
      /\ new.created = dated.created /\ new.questions = m /\ new.answers = n
  BY <1>1 DEF ChatRows
<1>3. new = Exchanged(row, title, time, m, n)
  BY DEF dated, Exchanged
<1> HIDE DEF new
<1>4. QED
  BY <1>1, <1>2, <1>3

\* A step of a message under way that leaves the rows, and goes on or falls silent.
LEMMA MessageStep ==
    ASSUME ChatInv, NEW w \in Senders, NEW new \in ChatMessages,
           sending' = [sending EXCEPT ![w] = new], UNCHANGED <<session, clock, stirred>>,
           new.phase # "idle" =>
              /\ sending[w].phase # "idle" /\ new.about = sending[w].about
              /\ new.began = sending[w].began
              /\ new.untitled = sending[w].untitled /\ new.opens = sending[w].opens
    PROVE  ChatInv'
<1>1. sending'[w] = new /\ \A v \in Senders : v # w => sending'[v] = sending[v]
  BY DEF ChatInv, ChatTypeInv
<1>2. ChatTypeInv'
  BY <1>1 DEF ChatInv, ChatTypeInv
<1>3. WholeExchanges' /\ TimesAgree'
  BY DEF ChatInv, WholeExchanges, TimesAgree
<1>4. MessagesFollow'
  BY <1>1 DEF ChatInv, MessagesFollow
<1>5. QED
  BY <1>2, <1>3, <1>4 DEF ChatInv

\* A step about one session that no message opens: a new row, or none, and a new time, or none.
LEMMA RowStep ==
    ASSUME ChatInv, NEW s \in Sessions, NEW row \in ChatRows, NEW time \in Nat,
           session' = [session EXCEPT ![s] = row], stirred' = [stirred EXCEPT ![s] = time],
           clock' \in Nat, clock <= clock', UNCHANGED sending,
           row.questions = row.answers, row.created <= row.updated, row.updated <= time,
           time <= clock', stirred[s] <= time, time # 0,
           \A w \in Senders : sending[w].phase # "idle" /\ sending[w].about = s =>
              (sending[w].opens => ~row.exists) /\ row.created <= sending[w].began
    PROVE  ChatInv'
<1>1. /\ session'[s] = row /\ stirred'[s] = time
      /\ \A q \in Sessions : q # s => session'[q] = session[q] /\ stirred'[q] = stirred[q]
  BY DEF ChatInv, ChatTypeInv
<1>2. ChatTypeInv'
  BY DEF ChatInv, ChatTypeInv
<1>3. WholeExchanges'
  BY <1>1 DEF ChatInv, WholeExchanges
<1>4. TimesAgree'
  <2>1. \A q \in Sessions : stirred[q] \in Nat
    BY DEF ChatInv, ChatTypeInv
  <2>2. clock \in Nat
    BY DEF ChatInv, ChatTypeInv
  <2>3. QED
    BY <1>1, <2>1, <2>2 DEF ChatInv, TimesAgree
<1>5. MessagesFollow'
  <2> SUFFICES ASSUME NEW w \in Senders, sending[w].phase # "idle"
               PROVE  LET q == sending[w].about IN
                      /\ 1 <= sending[w].began /\ sending[w].began <= stirred'[q]
                      /\ ~sending[w].opens => session'[q].created <= sending[w].began
                      /\ sending[w].opens =>
                            /\ sending[w].untitled /\ ~session'[q].exists
                            /\ \A v \in Senders : sending[v].phase # "idle" /\ sending[v].about = q
                                                    => v = w
    BY DEF MessagesFollow
  <2>1. sending[w].about \in Sessions /\ sending[w].began \in Nat /\ stirred[sending[w].about] \in Nat
    BY DEF ChatInv, ChatTypeInv, ChatMessages
  <2>2. CASE sending[w].about = s
    BY <1>1, <2>1, <2>2 DEF ChatInv, MessagesFollow
  <2>3. CASE sending[w].about # s
    BY <1>1, <2>1, <2>3 DEF ChatInv, MessagesFollow
  <2>4. QED
    BY <2>2, <2>3
<1>6. QED
  BY <1>2, <1>3, <1>4, <1>5 DEF ChatInv

\* A new session has a later time than every other.
LEMMA OpenStep ==
    ASSUME ChatInv, NEW s \in Sessions, NEW telegram \in BOOLEAN, OpenSession(s, telegram)
    PROVE  ChatInv'
<1> DEFINE row == OpenedRow(telegram)
           time == clock + 1
<1>1. /\ stirred[s] = 0 /\ clock' = time /\ stirred' = [stirred EXCEPT ![s] = time]
      /\ session' = [session EXCEPT ![s] = row] /\ UNCHANGED sending
  BY DEF OpenSession, ReadsClock, Unused
<1>2. clock \in Nat
  BY DEF ChatInv, ChatTypeInv
<1>3. /\ row \in ChatRows /\ row.created = time /\ row.updated = time
      /\ row.questions = row.answers
  <2>1. time \in Nat
    BY <1>2
  <2>2. QED
    BY <2>1, WrittenRows DEF OpenedRow
<1>4. \A w \in Senders : ~(sending[w].phase # "idle" /\ sending[w].about = s)
  <2>1. \A w \in Senders : sending[w].began \in Nat
    BY DEF ChatInv, ChatTypeInv, ChatMessages
  <2>2. QED
    BY <1>1, <2>1 DEF ChatInv, MessagesFollow
<1>5. /\ time \in Nat /\ time # 0 /\ clock <= time /\ stirred[s] <= time
      /\ clock <= clock' /\ time <= clock' /\ clock' \in Nat
      /\ row.created <= row.updated /\ row.updated <= time
  BY <1>1, <1>2, <1>3
<1> HIDE DEF row, time
<1>6. QED
  BY <1>1, <1>3, <1>4, <1>5, RowStep

\* A rename touches the session without an exchange.
LEMMA RenameStep ==
    ASSUME ChatInv, NEW s \in Sessions, Rename(s)
    PROVE  ChatInv'
<1> DEFINE row == [session[s] EXCEPT !.title = "renamed", !.updated = clock + 1]
           time == clock + 1
<1>1. /\ session[s].exists /\ clock' = time /\ stirred' = [stirred EXCEPT ![s] = time]
      /\ session' = [session EXCEPT ![s] = row] /\ UNCHANGED sending
  BY DEF Rename, ReadsClock, Existing, ChatInv, ChatTypeInv
<1>2. clock \in Nat /\ session[s] \in ChatRows /\ stirred[s] \in Nat
  BY DEF ChatInv, ChatTypeInv
<1>3. /\ row \in ChatRows /\ row.created = session[s].created /\ row.updated = time
      /\ row.questions = session[s].questions /\ row.answers = session[s].answers
      /\ row.exists = session[s].exists
  <2>1. time \in Nat
    BY <1>2
  <2>2. QED
    BY <1>2, <2>1, WrittenRows
<1>4. /\ session[s].created <= session[s].updated /\ session[s].updated <= stirred[s]
      /\ stirred[s] <= clock /\ session[s].questions = session[s].answers
      /\ session[s].created \in Nat /\ session[s].updated \in Nat
  BY <1>2 DEF ChatInv, TimesAgree, WholeExchanges, ChatRows
<1>5. \A w \in Senders : sending[w].phase # "idle" /\ sending[w].about = s =>
         ~sending[w].opens /\ session[s].created <= sending[w].began
  BY <1>1 DEF ChatInv, MessagesFollow
<1>6. /\ time \in Nat /\ time # 0 /\ clock <= time /\ stirred[s] <= time
      /\ clock <= clock' /\ time <= clock' /\ clock' \in Nat
      /\ row.created <= row.updated /\ row.updated <= time
      /\ row.questions = row.answers
  BY <1>1, <1>2, <1>3, <1>4
<1>7. \A w \in Senders : sending[w].phase # "idle" /\ sending[w].about = s =>
         (sending[w].opens => ~row.exists) /\ row.created <= sending[w].began
  BY <1>3, <1>5
<1> HIDE DEF row, time
<1>8. QED
  BY <1>1, <1>3, <1>6, <1>7, RowStep

\* A session that is deleted takes its exchanges with it.
LEMMA DeleteStep ==
    ASSUME ChatInv, NEW s \in Sessions, DeleteSession(s)
    PROVE  ChatInv'
<1>1. /\ session[s].exists /\ session' = [session EXCEPT ![s] = NoSession]
      /\ UNCHANGED <<sending, clock, stirred>>
  BY DEF DeleteSession, Existing
<1>2. stirred[s] \in Nat /\ clock \in Nat /\ stirred' = [stirred EXCEPT ![s] = stirred[s]]
  BY <1>1 DEF ChatInv, ChatTypeInv
<1>3. stirred[s] # 0 /\ stirred[s] <= clock
  BY <1>1, NoSessionIsRow DEF ChatInv, TimesAgree
<1>4. \A w \in Senders : NoSession.created <= sending[w].began
  BY NoSessionIsRow DEF ChatInv, ChatTypeInv, ChatMessages
<1>5. NoSession.created <= NoSession.updated /\ NoSession.updated <= stirred[s]
      /\ stirred[s] <= clock' /\ clock <= clock' /\ clock' \in Nat /\ stirred[s] <= stirred[s]
  BY <1>1, <1>2, <1>3, NoSessionIsRow
<1>6. QED
  BY <1>1, <1>2, <1>3, <1>4, <1>5, NoSessionIsRow, RowStep

\* A message reads its session, or opens one that was never used.
LEMMA ReadStep ==
    ASSUME ChatInv, NEW w \in Senders, NEW s \in Sessions, NEW opens \in BOOLEAN,
           NEW phase \in {"selected", "asking"},
           sending[w].phase = "idle", Reads(w, s, phase, opens),
           IF opens THEN stirred[s] = 0 ELSE session[s].exists
    PROVE  ChatInv'
<1> DEFINE new == [phase |-> phase, about |-> s, began |-> clock + 1,
                   untitled |-> opens \/ session[s].title = "none", opens |-> opens]
<1>1. /\ clock' = clock + 1 /\ stirred' = [stirred EXCEPT ![s] = clock + 1]
      /\ sending' = [sending EXCEPT ![w] = new] /\ UNCHANGED session
  BY DEF Reads, ReadsClock
<1>2. clock \in Nat
  BY DEF ChatInv, ChatTypeInv
<1>3. new \in ChatMessages
  <2>1. clock + 1 \in Nat /\ (opens \/ session[s].title = "none") \in BOOLEAN
    BY <1>2
  <2>2. QED
    BY <2>1 DEF ChatMessages
<1>4. /\ sending'[w] = new /\ \A v \in Senders : v # w => sending'[v] = sending[v]
      /\ stirred'[s] = clock + 1 /\ \A q \in Sessions : q # s => stirred'[q] = stirred[q]
  BY <1>1 DEF ChatInv, ChatTypeInv
<1>5. ChatTypeInv'
  BY <1>1, <1>2, <1>3, <1>4 DEF ChatInv, ChatTypeInv
<1>6. \A q \in Sessions : /\ session[q].created \in Nat /\ session[q].updated \in Nat
                          /\ stirred[q] \in Nat
  BY DEF ChatInv, ChatTypeInv, ChatRows
<1>7. WholeExchanges'
  BY <1>1 DEF ChatInv, WholeExchanges
<1>8. TimesAgree'
  BY <1>1, <1>2, <1>4, <1>6 DEF ChatInv, TimesAgree
<1>9. MessagesFollow'
  <2>1. \A v \in Senders : sending[v].phase # "idle" =>
           sending[v].about \in Sessions /\ sending[v].began \in Nat
    BY DEF ChatInv, ChatTypeInv, ChatMessages
  <2>2. \A v \in Senders : sending[v].phase # "idle" => sending[v].began <= stirred'[sending[v].about]
    BY <1>2, <1>4, <1>6, <2>1 DEF ChatInv, MessagesFollow, TimesAgree
  <2>3. \A v \in Senders : v # w /\ sending[v].phase # "idle" /\ sending[v].about = s =>
           ~opens /\ ~sending[v].opens
    BY <2>1 DEF ChatInv, MessagesFollow
  <2>4. new.phase # "idle" /\ new.about = s /\ new.began = clock + 1 /\ new.opens = opens
        /\ (opens => new.untitled)
    OBVIOUS
  <2>5. opens => ~session[s].exists
    BY NoSessionIsRow DEF ChatInv, TimesAgree
  <2>6. session[s].created <= clock
    BY <1>2, <1>6 DEF ChatInv, TimesAgree
  <2> HIDE DEF new
  <2> SUFFICES ASSUME NEW v \in Senders, sending'[v].phase # "idle"
               PROVE  LET q == sending'[v].about IN
                      /\ 1 <= sending'[v].began /\ sending'[v].began <= stirred'[q]
                      /\ ~sending'[v].opens => session[q].created <= sending'[v].began
                      /\ sending'[v].opens =>
                            /\ sending'[v].untitled /\ ~session[q].exists
                            /\ \A u \in Senders : sending'[u].phase # "idle"
                                                  /\ sending'[u].about = q => u = v
    BY <1>1 DEF MessagesFollow
  <2>7. CASE v = w
    BY <1>2, <1>4, <1>6, <2>3, <2>4, <2>5, <2>6, <2>7
  <2>8. CASE v # w
    BY <1>4, <2>2, <2>3, <2>4, <2>8 DEF ChatInv, MessagesFollow
  <2>9. QED
    BY <2>7, <2>8
<1>10. QED
  BY <1>5, <1>7, <1>8, <1>9 DEF ChatInv

\* The answer: one exchange more, at the time of its beginning.
LEMMA CommitStep ==
    ASSUME ChatInv, NEW w \in Senders, CommitExchange(w)
    PROVE  ChatInv' /\ RenameIsKept
<1> DEFINE s    == sending[w].about
           base == IF sending[w].opens
                   THEN [NoSession EXCEPT !.exists = TRUE, !.telegram = TRUE, !.created = sending[w].began]
                   ELSE session[s]
           row  == [base EXCEPT !.title = TitleOf(w), !.updated = Touched(w),
                                !.questions = @ + 1, !.answers = @ + 1]
<1>1. /\ sending[w].phase = "answered" /\ session' = [session EXCEPT ![s] = row]
      /\ sending' = [sending EXCEPT ![w] = Quiet] /\ UNCHANGED <<clock, stirred>>
  BY DEF CommitExchange
<1>2. s \in Sessions /\ session[s] \in ChatRows /\ sending[w] \in ChatMessages
  BY <1>1 DEF ChatInv, ChatTypeInv
<1>3. /\ sending[w].began \in Nat /\ 1 <= sending[w].began /\ sending[w].began <= stirred[s]
      /\ sending[w].untitled \in BOOLEAN /\ sending[w].opens \in BOOLEAN
  BY <1>1, <1>2 DEF ChatInv, MessagesFollow, ChatMessages
<1>4. base \in ChatRows /\ base.questions = base.answers /\ base.created <= sending[w].began
  <2>1. CASE sending[w].opens
    <3>1. \A time \in Nat :
             LET new == [NoSession EXCEPT !.exists = TRUE, !.telegram = TRUE, !.created = time] IN
             new \in ChatRows /\ new.questions = new.answers /\ new.created = time
      BY DEF NoSession, ChatRows, ChatTitles
    <3> DEFINE new == [NoSession EXCEPT !.exists = TRUE, !.telegram = TRUE,
                                        !.created = sending[w].began]
    <3>2. new \in ChatRows /\ new.questions = new.answers /\ new.created = sending[w].began
      BY <1>3, <3>1
    <3>3. base = new
      BY <2>1
    <3> HIDE DEF base, new
    <3>4. QED
      BY <1>3, <3>2, <3>3
  <2>2. CASE ~sending[w].opens
    BY <1>1, <1>2, <2>2 DEF ChatInv, WholeExchanges, MessagesFollow
  <2>3. QED
    BY <2>1, <2>2
<1>5. TitleOf(w) \in ChatTitles /\ (TitleOf(w) # "auto" => TitleOf(w) = session[s].title)
      /\ (TitleOf(w) = "auto" => sending[w].untitled \/ session[s].title = "auto")
  BY <1>2 DEF TitleOf, ChatRows, ChatTitles
<1>6. /\ row \in ChatRows /\ row.questions = row.answers /\ row.created = base.created
      /\ row.updated = sending[w].began /\ row.title = TitleOf(w)
  <2>1. Touched(w) = sending[w].began /\ Touched(w) \in Nat
    BY <1>3 DEF Touched
  <2> HIDE DEF base
  <2>2. /\ row \in ChatRows /\ row.questions = base.questions + 1
        /\ row.answers = base.answers + 1 /\ row.created = base.created
        /\ row.updated = Touched(w) /\ row.title = TitleOf(w)
    <3> DEFINE m == base.questions + 1
               n == base.answers + 1
               title == TitleOf(w)
               time == Touched(w)
               new == Exchanged(base, title, time, m, n)
    <3>1. row = new
      BY DEF Exchanged
    <3>2. /\ base \in ChatRows /\ m \in Nat /\ n \in Nat /\ time \in Nat
          /\ title \in ChatTitles
      BY <1>4, <1>5, <2>1 DEF ChatRows
    <3> HIDE DEF row, m, n, title, time
    <3>3. /\ new \in ChatRows /\ new.questions = m /\ new.answers = n
          /\ new.created = base.created /\ new.updated = time /\ new.title = title
      BY ONLY <3>2, ExchangedIsRow
    <3>4. QED
      BY <3>1, <3>3 DEF m, n, title, time
  <2> HIDE DEF row
  <2>3. QED
    BY <1>4, <2>1, <2>2
<1> HIDE DEF base, row
<1>7. /\ session'[s] = row /\ \A q \in Sessions : q # s => session'[q] = session[q]
      /\ sending'[w] = Quiet /\ \A v \in Senders : v # w => sending'[v] = sending[v]
  BY <1>1, <1>2 DEF ChatInv, ChatTypeInv
<1>8. \A v \in Senders : sending'[v].phase # "idle" => v # w /\ sending'[v] = sending[v]
  BY <1>7, QuietIsMessage
<1>9. ChatTypeInv'
  BY <1>1, <1>6, <1>7, <1>8, QuietIsMessage DEF ChatInv, ChatTypeInv
<1>10. WholeExchanges'
  BY <1>6, <1>7 DEF ChatInv, WholeExchanges
<1>11. TimesAgree'
  BY <1>1, <1>3, <1>4, <1>6, <1>7 DEF ChatInv, TimesAgree
<1>12. MessagesFollow'
  <2>1. \A v \in Senders : v # w /\ sending[v].phase # "idle" /\ sending[v].about = s =>
           ~sending[v].opens /\ ~sending[w].opens
    BY <1>1 DEF ChatInv, MessagesFollow
  <2>2. ~sending[w].opens => row.created = session[s].created
    BY <1>6 DEF base
  <2> SUFFICES ASSUME NEW v \in Senders, v # w, sending[v].phase # "idle"
               PROVE  LET q == sending[v].about IN
                      /\ 1 <= sending[v].began /\ sending[v].began <= stirred[q]
                      /\ ~sending[v].opens => session'[q].created <= sending[v].began
                      /\ sending[v].opens =>
                            /\ sending[v].untitled /\ ~session'[q].exists
                            /\ \A u \in Senders : sending'[u].phase # "idle"
                                                  /\ sending'[u].about = q => u = v
    BY <1>1, <1>8 DEF MessagesFollow
  <2>3. sending[v].about \in Sessions
    BY DEF ChatInv, ChatTypeInv
  <2>4. CASE sending[v].about = s
    BY <1>7, <2>1, <2>2, <2>4 DEF ChatInv, MessagesFollow
  <2>5. CASE sending[v].about # s
    BY <1>7, <1>8, <2>3, <2>5 DEF ChatInv, MessagesFollow
  <2>6. QED
    BY <2>4, <2>5
<1>13. RenameIsKept
  <2> SUFFICES ASSUME NEW q \in Sessions, session[q].title = "renamed", session'[q].title # "renamed"
               PROVE  \E v \in Senders : sending[v].about = q /\ sending[v].untitled
    BY DEF RenameIsKept
  <2>1. q = s
    BY <1>7
  <2>2. sending[w].untitled
    BY <1>5, <1>6, <1>7, <2>1
  <2>3. QED
    BY <2>1, <2>2
<1>14. QED
  BY <1>9, <1>10, <1>11, <1>12, <1>13 DEF ChatInv

\* The current session was used no earlier than any other was opened.
LEMMA CurrentIsNewest ==
    ASSUME ChatInv
    PROVE  NewIsUsed
<1> SUFFICES ASSUME NEW s \in Sessions, SelectCurrent(s), s \in Telegrams,
                    NEW q \in Telegrams \ {s}
             PROVE  stirred[s] >= session[q].created
  BY DEF NewIsUsed
<1>1. q \in Sessions /\ session[q].updated <= session[s].updated
  BY DEF SelectCurrent, Current, Telegrams, Existing
<1>2. /\ session[q].created \in Nat /\ session[q].updated \in Nat
      /\ session[s].updated \in Nat /\ stirred[s] \in Nat
  BY <1>1 DEF ChatInv, ChatTypeInv, ChatRows
<1>3. QED
  BY <1>1, <1>2 DEF ChatInv, TimesAgree

\* Every step keeps whole exchanges and the choices of the user.
LEMMA ChatStep ==
    ASSUME ChatInv, [ChatNext]_chatVars
    PROVE  ChatInv' /\ [WholeExchanges' /\ NewIsUsed /\ RenameIsKept]_chatVars
<1>1. ASSUME session' = session PROVE RenameIsKept
  BY <1>1 DEF RenameIsKept
<1>2. ASSUME NEW s \in Sessions,
             \/ \E telegram \in BOOLEAN : OpenSession(s, telegram)
             \/ Rename(s) \/ DeleteSession(s)
      PROVE  ChatInv' /\ RenameIsKept
  <2>1. ChatInv'
    BY <1>2, OpenStep, RenameStep, DeleteStep
  <2>2. \A q \in Sessions : q # s => session'[q] = session[q]
    BY <1>2 DEF ChatInv, ChatTypeInv, OpenSession, Rename, DeleteSession
  <2>3. session[s].title = "renamed" /\ session'[s].exists => session'[s].title = "renamed"
    <3>1. CASE \E telegram \in BOOLEAN : OpenSession(s, telegram)
      <4>1. stirred[s] = 0
        BY <3>1 DEF OpenSession, Unused
      <4>2. session[s].title = "none"
        BY <4>1, NoSessionIsRow DEF ChatInv, TimesAgree
      <4>3. QED
        BY <4>2
    <3>2. CASE Rename(s)
      <4>1. session' = [session EXCEPT ![s].title = "renamed", ![s].updated = clock + 1]
            /\ session[s] \in ChatRows
        BY <3>2 DEF Rename, ChatInv, ChatTypeInv
      <4>2. session'[s].title = "renamed"
        BY <4>1 DEF ChatInv, ChatTypeInv, ChatRows
      <4>3. QED
        BY <4>2
    <3>3. CASE DeleteSession(s)
      BY <3>3, NoSessionIsRow DEF DeleteSession, ChatInv, ChatTypeInv
    <3>4. QED
      BY <1>2, <3>1, <3>2, <3>3
  <2>4. QED
    BY <2>1, <2>2, <2>3 DEF RenameIsKept
<1>3. ASSUME NEW s \in Sessions, SelectCurrent(s) \/ \E w \in Senders : Select(w, s)
      PROVE  ChatInv' /\ RenameIsKept
  <2>1. ASSUME NEW w \in Senders, Select(w, s) PROVE ChatInv' /\ session' = session
    BY <2>1, ReadStep DEF Select, Existing, Reads
  <2>2. CASE SelectCurrent(s)
    <3>1. Bot \in Senders /\ sending[Bot].phase = "idle"
      BY <2>2 DEF SelectCurrent, Senders
    <3>2. CASE Telegrams # {}
      <4>1. session[s].exists /\ Reads(Bot, s, "selected", FALSE)
        BY <2>2, <3>2 DEF SelectCurrent, Current, Telegrams, Existing
      <4>2. QED
        BY <3>1, <4>1, ReadStep, <1>1 DEF Reads
    <3>3. CASE Telegrams = {}
      <4>1. stirred[s] = 0 /\ Reads(Bot, s, "asking", TRUE)
        BY <2>2, <3>3 DEF SelectCurrent, Unused
      <4>2. QED
        BY <3>1, <4>1, ReadStep, <1>1 DEF Reads
    <3>4. QED
      BY <3>2, <3>3
  <2>3. QED
    BY <1>1, <1>3, <2>1, <2>2
<1>4. ASSUME NEW w \in Senders, Flush(w) \/ Answer(w) \/ Abort(w)
      PROVE  ChatInv' /\ RenameIsKept
  <2>1. /\ sending[w] \in ChatMessages /\ sending[w].phase # "idle"
        /\ UNCHANGED <<session, clock, stirred>>
    BY <1>4 DEF ChatInv, ChatTypeInv, Flush, AfterFlush, Answer, Abort
  <2>2. \E new \in ChatMessages :
           /\ sending' = [sending EXCEPT ![w] = new]
           /\ new.phase # "idle" =>
                 /\ new.about = sending[w].about /\ new.began = sending[w].began
                 /\ new.untitled = sending[w].untitled /\ new.opens = sending[w].opens
    <3>1. \A phase \in {"asking", "answered"} :
             LET new == [sending[w] EXCEPT !.phase = phase] IN
             /\ new \in ChatMessages
             /\ new.about = sending[w].about /\ new.began = sending[w].began
             /\ new.untitled = sending[w].untitled /\ new.opens = sending[w].opens
      BY <2>1 DEF ChatMessages
    <3>2. CASE sending' = [sending EXCEPT ![w] = Quiet]
      BY <3>2, QuietIsMessage
    <3>3. CASE \E phase \in {"asking", "answered"} :
                  sending' = [sending EXCEPT ![w] = [sending[w] EXCEPT !.phase = phase]]
      BY <3>1, <3>3
    <3>4. QED
      BY <1>4, <3>2, <3>3 DEF Flush, Answer, Abort
  <2>3. QED
    BY <1>1, <2>1, <2>2, MessageStep
<1>5. ASSUME NEW w \in Senders, CommitExchange(w) PROVE ChatInv' /\ RenameIsKept
  BY <1>5, CommitStep
<1>6. CASE UNCHANGED chatVars
  BY <1>6 DEF chatVars, ChatInv, ChatTypeInv, WholeExchanges, TimesAgree, MessagesFollow
<1>7. CASE ChatNext
  <2>1. ChatInv' /\ RenameIsKept
    BY <1>2, <1>3, <1>4, <1>5, <1>7 DEF ChatNext
  <2>2. WholeExchanges'
    BY <2>1 DEF ChatInv
  <2>3. QED
    BY <2>1, <2>2, CurrentIsNewest
<1>8. QED
  BY <1>6, <1>7

\* At first there is no session.
LEMMA ChatBegins == ChatInit => ChatInv
<1> SUFFICES ASSUME ChatInit PROVE ChatInv
  OBVIOUS
<1>1. \A w \in Senders : sending[w] = Quiet /\ sending[w].phase = "idle"
  BY QuietIsMessage DEF ChatInit
<1>2. ChatTypeInv
  BY <1>1, QuietIsMessage, NoSessionIsRow DEF ChatInit, ChatTypeInv
<1>3. QED
  BY <1>1, <1>2, NoSessionIsRow
     DEF ChatInit, ChatInv, WholeExchanges, TimesAgree, MessagesFollow

\* For any number of sessions and requests: after every step each question has its answer,
\* the next message goes to a session used no earlier than the newest was opened, and the
\* title that a user gave is overwritten only by a message that had not seen it.
THEOREM ExchangesAreWholeAlways == ChatSpec => ExchangesAreWhole
BY ChatBegins, ChatStep, PTL DEF ChatSpec, ExchangesAreWhole
=============================================================================

------------------------------ MODULE Notifier ------------------------------
(***************************************************************************)
(* Push notifications to the allowed recipients.  Threads of a process     *)
(* share a table of what was sent when and a set of sends under way; each  *)
(* process has its own.  A send is one HTTP request, which Telegram may    *)
(* accept, refuse, or accept without the caller learning of it.            *)
(***************************************************************************)
EXTENDS Integers, FiniteSets, FiniteSetsExt

CONSTANTS
    Events,       \* what a message is about: an event type with its dedupe key
    Recipients,   \* telegram_allowed_users
    Threads,
    DedupeWindow  \* _DEDUPE_WINDOW_SECONDS, in ticks

ASSUME NotifierAssumption == Events # {} /\ DedupeWindow \in Nat \ {0}

Keys == Events \X Recipients

VARIABLES
    muted,        \* the events that the preference file mutes
    dedupe,       \* _DEDUPE: ticks since the last successful send; Never if none is kept
    pending,      \* _DEDUPE_PENDING
    thread,       \* what each thread is doing
    sinceAccepted \* history: ticks since Telegram confirmed a message, Long if it never did

notifierVars == <<muted, dedupe, pending, thread, sinceAccepted>>

Never == DedupeWindow
Long  == DedupeWindow + 1

Away == [phase |-> "away", event |-> CHOOSE e \in Events : TRUE, todo |-> {}, to |-> {}, sent |-> FALSE]

Key(t) == <<thread[t].event, CHOOSE r \in thread[t].to : TRUE>>

-----------------------------------------------------------------------------
\* notify: the preferences are read once; an event that is muted is dropped.
Notify(t, e) ==
    /\ thread[t].phase = "away" /\ e \notin muted
    /\ thread' = [thread EXCEPT ![t] = [Away EXCEPT !.phase = "next", !.event = e, !.todo = Recipients]]
    /\ UNCHANGED <<muted, dedupe, pending, sinceAccepted>>

Suppressed(key) == dedupe[key] < DedupeWindow \/ key \in pending

\* _dedupe_reserve, for the next recipient.
Reserve(t, r) ==
    LET key == <<thread[t].event, r>> IN
    /\ thread[t].phase = "next" /\ r \in thread[t].todo
    /\ IF Suppressed(key)
       THEN /\ thread' = [thread EXCEPT ![t].todo = @ \ {r}]
            /\ UNCHANGED pending
       ELSE /\ pending' = pending \cup {key}
            /\ thread' = [thread EXCEPT ![t].phase = "send", ![t].todo = @ \ {r}, ![t].to = {r}]
    /\ UNCHANGED <<muted, dedupe, sinceAccepted>>

\* _send and _send_document: accepted, refused, or a timeout after it was accepted.
SendPush(t) ==
    /\ thread[t].phase = "send"
    /\ \E sent, confirmed \in BOOLEAN :
          /\ confirmed => sent
          /\ thread' = [thread EXCEPT ![t].phase = "finish", ![t].sent = confirmed]
          /\ sinceAccepted' = IF confirmed THEN [sinceAccepted EXCEPT ![Key(t)] = 0] ELSE sinceAccepted
    /\ UNCHANGED <<muted, dedupe, pending>>

\* Mutant: a failed send counts like one that was accepted.
CommittedAlways(key, sent) == [dedupe EXCEPT ![key] = 0]

Committed(key, sent) == IF sent THEN [dedupe EXCEPT ![key] = 0] ELSE dedupe

Released(key, sent) == pending \ {key}

\* _dedupe_finish.
FinishPush(t) ==
    /\ thread[t].phase = "finish"
    /\ pending' = Released(Key(t), thread[t].sent)
    /\ dedupe' = Committed(Key(t), thread[t].sent)
    /\ thread' = [thread EXCEPT ![t].phase = "next", ![t].to = {}, ![t].sent = FALSE]
    /\ UNCHANGED <<muted, sinceAccepted>>

Return(t) ==
    /\ thread[t].phase = "next" /\ thread[t].todo = {}
    /\ thread' = [thread EXCEPT ![t] = Away]
    /\ UNCHANGED <<muted, dedupe, pending, sinceAccepted>>
-----------------------------------------------------------------------------
\* The bot turns an event on or off in the preference file.
Mute(e) ==
    /\ muted' = IF e \in muted THEN muted \ {e} ELSE muted \cup {e}
    /\ UNCHANGED <<dedupe, pending, thread, sinceAccepted>>

\* A restarted process has empty tables; what it promises, it promises from then on.
Restart ==
    /\ dedupe' = [key \in Keys |-> Never]
    /\ pending' = {}
    /\ thread' = [t \in Threads |-> Away]
    /\ sinceAccepted' = [key \in Keys |-> Long]
    /\ UNCHANGED muted

NotifierTick ==
    /\ dedupe' = [key \in Keys |-> Min({Never, dedupe[key] + 1})]
    /\ sinceAccepted' = [key \in Keys |-> IF sinceAccepted[key] = Long THEN Long
                                        ELSE Min({DedupeWindow, sinceAccepted[key] + 1})]
    /\ UNCHANGED <<muted, pending, thread>>

NotifierInit ==
    /\ muted = {}
    /\ dedupe = [key \in Keys |-> Never]
    /\ pending = {}
    /\ thread = [t \in Threads |-> Away]
    /\ sinceAccepted = [key \in Keys |-> Long]

NotifierNext ==
    \/ \E t \in Threads :
          \/ SendPush(t) \/ FinishPush(t) \/ Return(t)
          \/ \E e \in Events : Notify(t, e)
          \/ \E r \in Recipients : Reserve(t, r)
    \/ \E e \in Events : Mute(e)
    \/ Restart \/ NotifierTick

NotifierSpec == NotifierInit /\ [][NotifierNext]_notifierVars

-----------------------------------------------------------------------------
\* No reservation outlives its send: a failed send can be tried again at once
\* (_dedupe_finish in the finally of notify).
PendingIsUnderWay ==
    pending = {Key(t) : t \in {u \in Threads : thread[u].phase \in {"send", "finish"}}}

\* A process does not send the same event to the same recipient twice within the window,
\* although the check and the record of the send are separate steps of many threads.
OncePerWindow ==
    \A t \in Threads : SendPush(t) /\ thread'[t].sent =>
       sinceAccepted[Key(t)] >= DedupeWindow

\* What is suppressed was sent: only a message that Telegram confirmed counts, and for
\* that recipient alone (_dedupe_finish).
SuppressedWasSent ==
    \A key \in Keys : dedupe[key] < Never => sinceAccepted[key] < Long

\* After every step the table and the pending sends say what was sent and what is under way,
\* and no step sends again what they have (_dedupe_begin, _dedupe_finish).
SendsAreOnRecord ==
    [][PendingIsUnderWay' /\ SuppressedWasSent' /\ OncePerWindow]_notifierVars
=============================================================================

---------------------------- MODULE ChatSessions ----------------------------
(***************************************************************************)
(* Conversations with the library, from the web, with the persona of a     *)
(* channel, and from Telegram, where the session that was updated last is  *)
(* the current one.  A message is one transaction around a call of the     *)
(* model that takes its time; sessions are meanwhile opened, renamed and   *)
(* deleted.  now() is the start of a transaction.                          *)
(***************************************************************************)
EXTENDS Integers, FiniteSets

CONSTANTS
    Sessions,   \* rows of chat_sessions
    Web,        \* requests of the web
    Bot,        \* the handler of the bot: one update at a time
    MaxClock    \* bound: transactions that read the time

ASSUME ChatAssumption == Web \cap {Bot} = {} /\ MaxClock \in Nat

Senders == Web \cup {Bot}

VARIABLES
    session,    \* the rows, with the number of their questions and answers
    sending,    \* the message that each request is about
    clock,
    stirred     \* history: when the last transaction about a session began

chatVars == <<session, sending, clock, stirred>>

\* title "none": no title yet, or the one that a persona session gets at first.
NoSession == [exists |-> FALSE, telegram |-> FALSE, title |-> "none",
              created |-> 0, updated |-> 0, questions |-> 0, answers |-> 0]
Quiet == [phase |-> "idle", about |-> CHOOSE s \in Sessions : TRUE, began |-> 0,
          untitled |-> FALSE, opens |-> FALSE]

Existing == {s \in Sessions : session[s].exists}
Unused   == {s \in Sessions : stirred[s] = 0}   \* an id is never used again

OpenedRow(telegram) == [NoSession EXCEPT !.exists = TRUE, !.telegram = telegram,
                                         !.created = clock + 1, !.updated = clock + 1]

\* A title that was flushed and not committed locks the row against other updates.
TitleLocked(s) == \E w \in Senders : /\ sending[w].phase \in {"asking", "answered"}
                                     /\ sending[w].about = s /\ sending[w].untitled

\* Sessions of the chat, the last updated ones.
Telegrams == {s \in Existing : session[s].telegram}
Current == {s \in Telegrams : \A q \in Telegrams : session[q].updated <= session[s].updated}

ReadsClock(s) == clock < MaxClock /\ clock' = clock + 1 /\ stirred' = [stirred EXCEPT ![s] = clock + 1]
-----------------------------------------------------------------------------
\* The button of the page, the page of a persona, and /new.
OpenSession(s, telegram) ==
    /\ s \in Unused
    /\ ReadsClock(s)
    /\ session' = [session EXCEPT ![s] = OpenedRow(telegram)]
    /\ UNCHANGED sending

\* updated_at is also set by a rename.
Rename(s) ==
    /\ s \in Existing /\ ~TitleLocked(s)
    /\ ReadsClock(s)
    /\ session' = [session EXCEPT ![s].title = "renamed", ![s].updated = clock + 1]
    /\ UNCHANGED sending

\* The messages refer to the session: a message under way holds the deletion up.
DeleteSession(s) ==
    /\ s \in Existing
    /\ \A w \in Senders : sending[w].about = s => sending[w].phase \in {"idle", "selected"}
    /\ session' = [session EXCEPT ![s] = NoSession]
    /\ UNCHANGED <<sending, clock, stirred>>

Reads(w, s, phase, opens) ==
    /\ ReadsClock(s)
    /\ sending' = [sending EXCEPT ![w] =
          [phase |-> phase, about |-> s, began |-> clock + 1,
           untitled |-> opens \/ session[s].title = "none", opens |-> opens]]
    /\ UNCHANGED session

\* send_message and send_channel_message read the session.
Select(w, s) ==
    /\ w \in Web /\ sending[w].phase = "idle" /\ s \in Existing
    /\ Reads(w, s, "selected", FALSE)

\* handle_message: the current session, or a new one in the same transaction.
SelectCurrent(s) ==
    /\ sending[Bot].phase = "idle"
    /\ IF Telegrams # {} THEN s \in Current /\ Reads(Bot, s, "selected", FALSE)
       ELSE s \in Unused /\ Reads(Bot, s, "asking", TRUE)

\* Mutant: the question is committed before the model is called.
QuestionKept(w) == [session EXCEPT ![sending[w].about].questions = @ + 1]

\* What others see after the flush: nothing.
AfterFlush(w) == session

\* Title and question are flushed; without the session this fails.  The history is read.
Flush(w) ==
    LET s == sending[w].about IN
    /\ sending[w].phase = "selected"
    /\ IF s \in Existing
       THEN /\ sending[w].untitled => ~TitleLocked(s)
            /\ sending' = [sending EXCEPT ![w].phase = "asking"]
            /\ session' = AfterFlush(w)
       ELSE sending' = [sending EXCEPT ![w] = Quiet] /\ UNCHANGED session
    /\ UNCHANGED <<clock, stirred>>

\* chat_with_context: an answer, or a text that says why there is none.
Answer(w) ==
    /\ sending[w].phase = "asking"
    /\ sending' = [sending EXCEPT ![w].phase = "answered"]
    /\ UNCHANGED <<session, clock, stirred>>

\* now(): the start of the transaction.
Touched(w) == sending[w].began

TitleOf(w) == IF sending[w].untitled THEN "auto" ELSE session[sending[w].about].title

\* Answer, title and updated_at in one commit.
CommitExchange(w) ==
    LET s == sending[w].about
        row == IF sending[w].opens THEN [NoSession EXCEPT !.exists = TRUE, !.telegram = TRUE,
                                                          !.created = sending[w].began]
               ELSE session[s]
    IN
    /\ sending[w].phase = "answered"
    /\ \A v \in Senders \ {w} : sending[v].phase \in {"asking", "answered"} /\ sending[v].about = s
                                   => ~sending[v].untitled
    /\ session' = [session EXCEPT ![s] = [row EXCEPT !.title = TitleOf(w), !.updated = Touched(w),
                                                     !.questions = @ + 1, !.answers = @ + 1]]
    /\ sending' = [sending EXCEPT ![w] = Quiet]
    /\ UNCHANGED <<clock, stirred>>

\* The process ends or a statement fails: the transaction is rolled back.
Abort(w) ==
    /\ sending[w].phase # "idle"
    /\ sending' = [sending EXCEPT ![w] = Quiet]
    /\ UNCHANGED <<session, clock, stirred>>

ChatInit ==
    /\ session = [s \in Sessions |-> NoSession]
    /\ sending = [w \in Senders |-> Quiet]
    /\ clock = 0
    /\ stirred = [s \in Sessions |-> 0]

ChatNext ==
    \/ \E s \in Sessions :
          \/ \E telegram \in BOOLEAN : OpenSession(s, telegram)
          \/ Rename(s) \/ DeleteSession(s) \/ SelectCurrent(s)
          \/ \E w \in Senders : Select(w, s)
    \/ \E w \in Senders : Flush(w) \/ Answer(w) \/ CommitExchange(w) \/ Abort(w)

ChatSpec == ChatInit /\ [][ChatNext]_chatVars

-----------------------------------------------------------------------------
\* A question is never kept without its answer, although the call of the model may fail, its
\* process die, or the session be deleted meanwhile (send_message, handle_message).
WholeExchanges == \A s \in Sessions : session[s].questions = session[s].answers

\* After /new the next message goes to the new session, also when an answer to an older
\* message is committed in between (handle_message).
NewIsUsed ==
    \A s \in Sessions :
       /\ s \in Telegrams /\ SelectCurrent(s)
       => \A q \in Telegrams \ {s} :
             \E p \in Telegrams \ {q} : stirred[p] >= session[q].created

\* The title that a user gave is overwritten only by a message that had read the session
\* before the rename and not yet flushed its own title (send_message, rename_session).
RenameIsKept ==
    \A s \in Sessions :
       session[s].title = "renamed" /\ session'[s].exists /\ session'[s].title # "renamed" =>
          \E w \in Senders : sending[w].about = s /\ sending[w].untitled

\* An answer that is late undoes nothing: every step leaves whole exchanges and the choices of
\* the user (send_message, handle_message, rename_session).
ExchangesAreWhole ==
    [][WholeExchanges' /\ NewIsUsed /\ RenameIsKept]_chatVars
=============================================================================

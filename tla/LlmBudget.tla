------------------------------ MODULE LlmBudget ------------------------------
(***************************************************************************)
(* Calls of language models.  A call looks at the spend of the day, goes   *)
(* to a provider, perhaps to a second one, and records its cost when it is *)
(* over; several are under way at a time and summaries never look.  The    *)
(* source of a cost is ambient: a variable of the thread, set by some of   *)
(* the tasks and left behind for the next task of the process.             *)
(***************************************************************************)
EXTENDS Integers, FiniteSets

CONSTANTS
    Mains,         \* main threads of the worker processes
    ChunkThreads,  \* threads that clean the chunks of a long transcript
    Cap,           \* daily_llm_budget_usd, in billed calls
    MaxCalls       \* bound: billed calls in a behaviour

ASSUME BudgetAssumption ==
    /\ Cap \in Nat \ {0} /\ MaxCalls \in Nat
    /\ IsFiniteSet(Mains) /\ IsFiniteSet(ChunkThreads) /\ Mains \cap ChunkThreads = {}

Callers == Mains \cup ChunkThreads

VARIABLES
    usage,     \* llm_usage of today: the cost by source
    tag,       \* _cost_source_ctx of each thread
    calls,     \* what each thread is doing
    billed,    \* history: cost today of the calls that looked at the budget
    excused    \* history: of these, not recorded, or begun while the spend was unreadable

budgetVars == <<usage, tag, calls, billed, excused>>

Sources == {"auto_ingest", "none"}
Kinds   == {"cleanup", "summary", "persona"}   \* persona: also the digests and the chat

NoCall == [phase |-> "idle", kind |-> "persona", source |-> "none", cost |-> 0, blind |-> 0,
           second |-> FALSE]

Today == usage["auto_ingest"] + usage["none"]

\* check_budget raises.
Exceeded == Today >= Cap

\* Only these calls look at the budget.
Checks(kind) == kind # "summary"

Works(c) == calls[c].phase # "idle"

CallsUnderWay == Cardinality({c \in Callers : calls[c].phase = "record"})
-----------------------------------------------------------------------------
\* Mutant: a task without a source keeps the tag of the task before it.
SourceKept(c, kind, source) == IF kind # "persona" /\ source # "none" THEN source ELSE tag[c]

\* set_cost_source, at the entry of the cleanup and of the summary; other tasks set none.
SourceSet(c, kind, source) == IF kind # "persona" THEN source ELSE tag[c]

\* A task reaches a call of a model, or its next call.
BeginCall(c) ==
    /\ c \in Mains /\ ~Works(c)
    /\ \E kind \in Kinds, source \in Sources :
          /\ kind = "persona" => source = "none"
          /\ calls' = [calls EXCEPT ![c] = [NoCall EXCEPT
                !.phase = IF Checks(kind) THEN "check" ELSE "call", !.kind = kind, !.source = source]]
          /\ tag' = [tag EXCEPT ![c] = SourceSet(c, kind, source)]
    /\ UNCHANGED <<usage, billed, excused>>

\* A chunk of a long transcript in a thread of the pool, whose context is empty.
BeginChunk(c) ==
    /\ c \in ChunkThreads /\ ~Works(c)
    /\ \E source \in Sources :
          calls' = [calls EXCEPT ![c] = [NoCall EXCEPT
             !.phase = "check", !.kind = "cleanup", !.source = source]]
    /\ UNCHANGED <<usage, tag, billed, excused>>

\* check_budget; a spend that cannot be read counts as zero.
Check(c) ==
    /\ calls[c].phase = "check"
    /\ \/ calls' = [calls EXCEPT ![c] = IF Exceeded THEN NoCall ELSE [@ EXCEPT !.phase = "call"]]
       \/ calls' = [calls EXCEPT ![c].phase = "call", ![c].blind = 1]
    /\ UNCHANGED <<usage, tag, billed, excused>>

\* Anthropic answers: the call is billed.  At most MaxCalls such calls.
Answered(c) ==
    /\ Today + excused + CallsUnderWay < MaxCalls
    /\ calls' = [calls EXCEPT ![c].phase = "record", ![c].cost = 1]

\* The local route answers: free.
AnsweredLocally(c) ==
    /\ ~calls[c].second
    /\ calls' = [calls EXCEPT ![c].phase = "record"]

\* An error that is no transient one, or still is after the retries.
CallFails(c) == calls' = [calls EXCEPT ![c] = NoCall]

\* After a failed local route Anthropic takes over: for a persona and a chat by way of the
\* budget, for the others at once, which is the first case.
FallsBack(c) ==
    /\ calls[c].kind = "persona" /\ ~calls[c].second
    /\ calls' = [calls EXCEPT ![c].phase = "check", ![c].second = TRUE, ![c].blind = 0]

Call(c) ==
    /\ calls[c].phase = "call"
    /\ Answered(c) \/ AnsweredLocally(c) \/ CallFails(c) \/ FallsBack(c)
    /\ UNCHANGED <<usage, tag, billed, excused>>

\* record_usage: best effort.
RecordCost(c) ==
    LET cost == calls[c].cost
        checked == IF Checks(calls[c].kind) THEN cost ELSE 0 IN
    /\ calls[c].phase = "record"
    /\ \/ /\ usage' = [usage EXCEPT ![tag[c]] = @ + cost]
          /\ excused' = excused + checked * calls[c].blind
       \/ /\ excused' = excused + checked
          /\ UNCHANGED usage
    /\ billed' = billed + checked
    /\ calls' = [calls EXCEPT ![c] = NoCall]
    /\ UNCHANGED tag

\* Midnight: the sum starts again, calls under way are recorded in the new day.
Midnight ==
    /\ Today > 0
    /\ usage' = [s \in Sources |-> 0]
    /\ billed' = 0 /\ excused' = 0
    /\ UNCHANGED <<tag, calls>>

BudgetInit ==
    /\ usage = [s \in Sources |-> 0]
    /\ tag = [c \in Callers |-> "none"]
    /\ calls = [c \in Callers |-> NoCall]
    /\ billed = 0 /\ excused = 0

BudgetNext ==
    \/ \E c \in Callers : BeginCall(c) \/ BeginChunk(c) \/ Check(c) \/ Call(c) \/ RecordCost(c)
    \/ Midnight

BudgetSpec == BudgetInit /\ [][BudgetNext]_budgetVars

-----------------------------------------------------------------------------
\* What looks at the budget passes it by no more than one call for each thread, apart from
\* calls that were not recorded or saw no sum (check_budget, record_usage).
SpendIsBounded == billed <= Cap - 1 + Cardinality(Callers) + excused

\* The cleanup and the summary of an attempt are recorded under the source of this attempt,
\* whatever the process ran before; chunks in threads of their own are not (set_cost_source).
SourceIsTheAttempts ==
    \A c \in Mains :
       RecordCost(c) /\ usage' # usage /\ calls[c].kind # "persona" =>
          usage'[calls[c].source] = usage[calls[c].source] + calls[c].cost

\* After every step the spend is within the cap and the calls that had passed the check, and
\* the step put its cost where it belongs (check_budget, record_usage).
CostsAreOnRecord ==
    [][SpendIsBounded' /\ SourceIsTheAttempts]_budgetVars
=============================================================================

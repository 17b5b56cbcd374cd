---------------------------- MODULE ChatHistory -----------------------------
(***************************************************************************)
(* How the AI chat rebuilds the conversation the front end sends back into *)
(* the messages of an LLM request: buildAnthropicMessages and its repairs  *)
(* (internal/biz/use_dashboard_ai_chat.go 209-452).                        *)
(*                                                                         *)
(* A message keeps what the protocol looks at: its role, whether it has a  *)
(* text block, the ids of its tool_use blocks and its tool_result blocks,  *)
(* each with the id it answers and whether it is a real result or one of   *)
(* the placeholders the repairs put in.  The order of a text block among   *)
(* the others is left out.                                                 *)
(***************************************************************************)
EXTENDS Naturals, Sequences, FiniteSets, SequencesExt

CONSTANTS
    DataTools,   \* ids of calls of data tools
    Reserved,    \* ids of calls of clarify and submit_plan (isReservedTool)
    MaxHistory,  \* aiMaxHistory
    MaxLen       \* bound: the length of the history

ASSUME HistoryAssumption == MaxHistory \in Nat

Ids == DataTools \cup Reserved

User(text, results) == [role |-> "user", text |-> text, uses |-> <<>>, results |-> results]
Assistant(text, uses) == [role |-> "assistant", text |-> text, uses |-> uses, results |-> <<>>]

Real(id) == [id |-> id, real |-> TRUE]
Placeholder(id) == [id |-> id, real |-> FALSE]

\* The calls of a message and the calls it answers; none beyond either end.
UsesAt(msgs, i) == IF i \in DOMAIN msgs THEN ToSet(msgs[i].uses) ELSE {}
Answered(m) == {r.id : r \in ToSet(m.results)}
IsUser(msgs, i) == i \in DOMAIN msgs /\ msgs[i].role = "user"
IsAssistant(msgs, i) == i \in DOMAIN msgs /\ msgs[i].role = "assistant"

\* Each message becomes a sequence of messages, which are joined.
Rewrite(msgs, Replacement(_)) == FlattenSeq([i \in DOMAIN msgs |-> Replacement(i)])

\* The elements at the positions that satisfy the test.
KeepAt(s, Test(_)) == FlattenSeq([i \in DOMAIN s |-> IF Test(i) THEN <<s[i]>> ELSE <<>>])

FirstOfEach(ids) == KeepAt(ids, LAMBDA i : \A j \in 1 .. i - 1 : ids[j] # ids[i])
Without(ids, done) == KeepAt(ids, LAMBDA i : ids[i] \notin done)
Placeholders(ids) == [k \in DOMAIN ids |-> Placeholder(ids[k])]

-----------------------------------------------------------------------------
(* From the history of the front end to protocol messages                  *)

\* historyEndsWithToolResult
EndsWithToolResult(hist) ==
    /\ hist # <<>>
    /\ Last(hist).role = "user" /\ Last(hist).results # <<>>

Truncate(hist) ==
    IF Len(hist) > MaxHistory
    THEN SubSeq(hist, Len(hist) - MaxHistory + 1, Len(hist)) ELSE hist

\* Results win over the text of a user message; empty messages are skipped.
ConvertOne(h) ==
    IF h.role = "user"
    THEN IF h.results # <<>> THEN <<User(FALSE, h.results)>>
         ELSE IF h.text THEN <<User(TRUE, <<>>)>> ELSE <<>>
    ELSE IF h.text \/ h.uses # <<>> THEN <<Assistant(h.text, h.uses)>> ELSE <<>>

Convert(hist) == Rewrite(hist, LAMBDA i : ConvertOne(hist[i]))

\* Placeholders for the calls of a message to data tools, but for those done
Fill(m, done) == Placeholders(Without(FirstOfEach(m.uses), done \cup Reserved))

\* The results of a message that answer a call of the message before it, once each
KeptResults(msgs, i) ==
    LET rs == msgs[i].results
    IN  KeepAt(rs, LAMBDA k : /\ rs[k].id \in UsesAt(msgs, i - 1)
                              /\ \A j \in 1 .. k - 1 : rs[j].id # rs[k].id)

\* sanitizeAnthropicMessages: an assistant message loses its duplicate calls;
\* in the user message right after it, results that answer none of its calls
\* or answer one again are dropped and placeholders for unanswered data tools
\* added; without such a user message one is made of the placeholders.
SanitizeAt(msgs, i) ==
    LET deduped == [msgs[i] EXCEPT !.uses = FirstOfEach(msgs[i].uses)]
        fill == Fill(msgs[i], {})
        answers == KeptResults(msgs, i) \o Fill(msgs[i - 1], Answered(msgs[i]))
    IN  IF IsAssistant(msgs, i)
        THEN IF IsUser(msgs, i + 1) \/ fill = <<>> THEN <<deduped>>
             ELSE <<deduped, User(FALSE, fill)>>
        ELSE IF IsAssistant(msgs, i - 1) THEN <<[msgs[i] EXCEPT !.results = answers]>>
             ELSE <<msgs[i]>>

Sanitize(msgs) == Rewrite(msgs, LAMBDA i : SanitizeAt(msgs, i))

\* Mutant of DropOrphans: what the truncation cut off its call is not looked at.
DropOrphansOfACall(msgs) ==
    LET kept(i) == SelectSeq(msgs[i].results, LAMBDA r :
                       \E j \in 1 .. i - 1 : r.id \in UsesAt(msgs, j))
    IN  [i \in DOMAIN msgs |-> IF \E j \in 1 .. i - 1 : IsAssistant(msgs, j)
                               THEN [msgs[i] EXCEPT !.results = kept(i)] ELSE msgs[i]]

\* Mutant of DropOrphans: a message that loses all its results is sent empty.
DropOrphansOnly(msgs) ==
    LET kept(i) == SelectSeq(msgs[i].results, LAMBDA r :
                       \E j \in 1 .. i - 1 : r.id \in UsesAt(msgs, j))
    IN  [i \in DOMAIN msgs |-> [msgs[i] EXCEPT !.results = kept(i)]]

\* The calls of the last assistant message before a message
LastUses(msgs, i) ==
    LET before == {j \in 1 .. i - 1 : IsAssistant(msgs, j)}
    IN  UNION {UsesAt(msgs, j) : j \in {j \in before : \A k \in before : k <= j}}

\* dropOrphanToolResults: a result has to answer a call of the last assistant
\* message before it; a message that is left with nothing is dropped, unless
\* it had no result to begin with.
DropOrphansAt(msgs, i) ==
    LET rs == msgs[i].results
        kept == KeepAt(rs, LAMBDA k : rs[k].id \in LastUses(msgs, i))
    IN  IF kept = rs THEN <<msgs[i]>>
        ELSE IF kept = <<>> /\ ~msgs[i].text THEN <<>>
        ELSE <<[msgs[i] EXCEPT !.results = kept]>>

DropOrphans(msgs) == Rewrite(msgs, LAMBDA i : DropOrphansAt(msgs, i))

\* missingToolResultIDs
Missing(msgs, i) ==
    Without(msgs[i].uses, IF IsUser(msgs, i + 1) THEN Answered(msgs[i + 1]) ELSE {})

\* Mutant of Backfill: only a user message that is there is completed.
BackfillMerges(msgs) ==
    [i \in DOMAIN msgs |->
        IF IsUser(msgs, i) /\ IsAssistant(msgs, i - 1)
        THEN [msgs[i] EXCEPT !.results = Placeholders(Missing(msgs, i - 1)) \o @] ELSE msgs[i]]

\* Mutant of Backfill: the placeholders take the place of the results.
BackfillReplaces(msgs) ==
    [i \in DOMAIN msgs |->
        IF IsUser(msgs, i) /\ IsAssistant(msgs, i - 1) /\ Missing(msgs, i - 1) # <<>>
        THEN [msgs[i] EXCEPT !.results = Placeholders(Missing(msgs, i - 1))] ELSE msgs[i]]

\* backfillToolResults: calls the next user message does not answer get a
\* placeholder in front of it, or in a user message of their own.
BackfillAt(msgs, i) ==
    LET completed == Placeholders(Missing(msgs, i - 1)) \o msgs[i].results
    IN  IF IsAssistant(msgs, i)
        THEN IF IsUser(msgs, i + 1) \/ Missing(msgs, i) = <<>> THEN <<msgs[i]>>
             ELSE <<msgs[i], User(FALSE, Placeholders(Missing(msgs, i)))>>
        ELSE IF IsAssistant(msgs, i - 1) THEN <<[msgs[i] EXCEPT !.results = completed]>>
             ELSE <<msgs[i]>>

Backfill(msgs) == Rewrite(msgs, LAMBDA i : BackfillAt(msgs, i))

Rejected == <<[role |-> "rejected"]>>

\* buildAnthropicMessages; question: there is one that is not blank.
Build(question, hist) ==
    LET asked == IF question THEN <<User(TRUE, <<>>)>> ELSE <<>>
        recent == Truncate(hist)
    IN  IF \/ ~question /\ ~EndsWithToolResult(hist)
           \/ \E i \in DOMAIN recent : recent[i].role \notin {"user", "assistant"}
        THEN Rejected
        ELSE Backfill(DropOrphans(Sanitize(Convert(recent)) \o asked))

-----------------------------------------------------------------------------
(* The front end grows a history and posts it.                             *)

VARIABLES history, request
vars == <<history, request>>

NotSent == <<>>

Calls == {<<>>} \cup {<<a>> : a \in Ids} \cup {<<a, b>> : a \in DataTools, b \in Ids}
Answers == {<<a>> : a \in Ids} \cup {<<a, b>> : a, b \in Ids}

Messages ==
    {Assistant(t, u) : t \in BOOLEAN, u \in Calls}
    \cup {User(t, <<>>) : t \in BOOLEAN}
    \cup {User(TRUE, [k \in DOMAIN a |-> Real(a[k])]) : a \in Answers}
    \cup {[User(TRUE, <<>>) EXCEPT !.role = "system"]}

Init == history = <<>> /\ request = NotSent

\* The browser keeps the conversation: nothing limits what it holds.
Grow ==
    /\ request = NotSent /\ Len(history) < MaxLen
    /\ \E m \in Messages : history' = Append(history, m)
    /\ UNCHANGED request

\* StreamChat's first step
Post ==
    /\ request = NotSent
    /\ \E question \in BOOLEAN : request' = Build(question, history)
    /\ UNCHANGED history

Next == Grow \/ Post

Spec == Init /\ [][Next]_vars

-----------------------------------------------------------------------------
(* Properties: what the protocol of the LLM asks of a request              *)

Sent == IF request = Rejected THEN <<>> ELSE request

\* The calls of message i that message j answers with a real result.
RealPairs(msgs, i, j) ==
    {id \in UsesAt(msgs, i) : IsUser(msgs, j) /\ Real(id) \in ToSet(msgs[j].results)}

\* The calls that the next message answers so, each at its place
AnsweredCalls(msgs) ==
    {call \in (DOMAIN msgs) \X Ids : call[2] \in RealPairs(msgs, call[1], call[1] + 1)}

Times(id, m) == Cardinality({k \in DOMAIN m.results : m.results[k].id = id})

\* Whatever the history was, the assistant messages of a request hold no call twice,
\* and each of their calls is answered exactly once by the very next message, which
\* is a user message.
EveryUseIsAnswered ==
    \A i \in DOMAIN Sent :
        /\ IsInjective(Sent[i].uses)
        /\ \A id \in UsesAt(Sent, i) : IsUser(Sent, i + 1) /\ Times(id, Sent[i + 1]) = 1

\* Every result of a request answers a call of the last assistant message
\* before it: the user messages between them answer nothing else.
NoOrphans ==
    \A j \in DOMAIN Sent : Sent[j].results # <<>> =>
        \E i \in 1 .. j - 1 :
            /\ IsAssistant(Sent, i) /\ \A k \in i + 1 .. j : IsUser(Sent, k)
            /\ Answered(Sent[j]) \subseteq UsesAt(Sent, i)

\* The repairs lose no real answer and add none: the real results that follow
\* their call in the recent history still follow it in the request.
RealAnswersAreKept ==
    request \notin {NotSent, Rejected} =>
        Cardinality(AnsweredCalls(Convert(Truncate(history)))) = Cardinality(AnsweredCalls(request))

\* The next user message answers the calls of an assistant message and only
\* those, once each; nothing else answers a call.
TidyAt(i) ==
    /\ IsInjective(history[i].uses)
    /\ IsInjective(history[i].results)
    /\ history[i].uses # <<>> => IsUser(history, i + 1) /\ history[i + 1].results # <<>>
    /\ Answered(history[i]) \subseteq UsesAt(history, i - 1)

\* A conversation whose every round of calls is answered by one user message,
\* even one that misses answers, becomes a request the protocol accepts: no
\* message is empty and no call has a second result anywhere.
TidyHistoryIsExact ==
    (\A i \in DOMAIN history : TidyAt(i)) =>
        \A j \in DOMAIN Sent :
            /\ Sent[j].text \/ Sent[j].uses # <<>> \/ Sent[j].results # <<>>
            /\ Answered(Sent[j]) \subseteq UsesAt(Sent, j - 1)

\* The conversation the chat panel builds: after a round the hidden message
\* holds the results of the data tools, and the user's answer to clarify or
\* submit_plan comes in the user message after that.
AtOnce(uses) == IF uses \cap DataTools # {} THEN uses \cap DataTools ELSE uses
PanelAt(i) ==
    /\ IsInjective(history[i].uses) /\ IsInjective(history[i].results)
    /\ IsUser(history, i) =>
           Answered(history[i]) =
               IF IsAssistant(history, i - 1) THEN AtOnce(UsesAt(history, i - 1))
               ELSE UsesAt(history, i - 2) \ AtOnce(UsesAt(history, i - 2))

\* What the repairs promise of the calls of clarify and submit_plan: the answer
\* comes in another user message, so no placeholder gives them a second result.
OneResultPerUse ==
    (\A i \in DOMAIN history : PanelAt(i)) =>
        \A i \in DOMAIN Sent : \A id \in UsesAt(Sent, i) :
            ~ \E j, k \in i + 1 .. Len(Sent) :
                /\ j < k /\ \A n \in i + 1 .. k : IsUser(Sent, n)
                /\ id \in Answered(Sent[j]) \cap Answered(Sent[k])
=============================================================================

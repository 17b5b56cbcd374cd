----------------------------- MODULE ChatAgent ------------------------------
(***************************************************************************)
(* One answer of the AI chat: the agent loop StreamChat                    *)
(* (internal/biz/use_dashboard_ai_chat.go 66-206) with the handler that    *)
(* writes its events as SSE frames and turns its error into an error frame *)
(* (internal/service/dashboard_ai.go 76-118).                              *)
(*                                                                         *)
(* The browser may leave at any time.  A write then still succeeds while   *)
(* buffers take it, until one fails; from there on every write fails.  The *)
(* request's context is done some time after the browser left, or when the *)
(* server's timeout expires.  The LLM's answer is a choice: an error, or a *)
(* list of tool calls and whether it stopped for them.  A tool's own error *)
(* is a result like any other and is not told apart.  Deltas and thinking  *)
(* are one frame here, as are several of them in a row.                    *)
(***************************************************************************)
EXTENDS Naturals, Sequences, FiniteSets, SequencesExt

CONSTANTS
    MaxRounds,  \* aiMaxRounds
    MaxTools    \* bound: the calls of one answer of the LLM

ASSUME AgentAssumption == MaxRounds \in Nat \ {0} /\ MaxTools \in Nat

Tools == {"data", "clarify", "plan"}
Stops == {"end_turn", "clarify", "plan", "max_rounds"}

VARIABLES
    pc,      \* the place in the loop
    calls,   \* the LLM calls begun, one for each round
    msgs,    \* the rounds added to the context: calls and their results
    todo,    \* the calls of this round that the tool loop has not reached
    uses,    \* the calls of this round
    paused,  \* the pausing tools of this round it has reached
    results, \* the calls of this round with a result, by position
    frames,  \* the frames that were written
    wire,    \* "open", "gone" (the browser left), "broken" (a write failed)
    ctx,     \* "live" or "done"
    late     \* LLM calls and tool runs begun although the stream was cut

round == <<todo, uses, paused, results>>
vars == <<pc, calls, msgs, round, frames, wire, ctx, late>>

Frame(type, ref) == [type |-> type, ref |-> ref]
Call == Len(uses) - Len(todo)   \* the call the tool loop is at

Cut == wire = "broken" \/ ctx = "done"

\* The history was accepted, or rejected by buildAnthropicMessages.
Init ==
    /\ pc \in {"check", "failed"}
    /\ calls = 0 /\ msgs = <<>> /\ late = 0
    /\ todo = <<>> /\ uses = <<>> /\ paused = {} /\ results = <<>>
    /\ frames = <<>> /\ wire = "open" /\ ctx = "live"

-----------------------------------------------------------------------------
(* The connection                                                          *)

Leave ==
    /\ wire = "open" /\ wire' = "gone"
    /\ UNCHANGED <<pc, calls, msgs, round, frames, ctx, late>>

\* The server notices that the browser left, or its timeout expires.
Cancel ==
    /\ ctx = "live" /\ ctx' = "done"
    /\ UNCHANGED <<pc, calls, msgs, round, frames, wire, late>>

\* emit, and safeEmit after a failed write: nothing is written
Write(frame) ==
    \/ /\ wire # "broken"
       /\ frames' = IF frames # <<>> /\ Last(frames) = frame THEN frames
                    ELSE Append(frames, frame)
       /\ UNCHANGED wire
    \/ /\ wire # "open"
       /\ wire' = "broken"
       /\ UNCHANGED frames

\* Mutant of Close: the return after the done frame is missing.
CloseAndGoOn(stop) ==
    /\ Write(Frame("done", stop))
    /\ pc' = IF wire' = "broken" THEN "failed" ELSE "check"

\* The done frame is the last thing StreamChat writes: its error makes an error frame.
Close(stop) ==
    /\ Write(Frame("done", stop))
    /\ pc' = IF wire' = "broken" THEN "failed" ELSE "ended"

-----------------------------------------------------------------------------
(* The rounds                                                              *)

\* Mutant of Check: the context is not looked at between the rounds.
CheckRoundsOnly ==
    /\ pc = "check"
    /\ IF calls = MaxRounds THEN Close("max_rounds")
       ELSE pc' = "call" /\ UNCHANGED <<frames, wire>>
    /\ UNCHANGED <<calls, msgs, round, ctx, late>>

\* The loop's condition, then the context.
Check ==
    /\ pc = "check"
    /\ IF calls = MaxRounds THEN Close("max_rounds")
       ELSE pc' = (IF ctx = "done" THEN "failed" ELSE "call") /\ UNCHANGED <<frames, wire>>
    /\ UNCHANGED <<calls, msgs, round, ctx, late>>

Ask ==
    /\ pc = "call" /\ pc' = "stream"
    /\ calls' = calls + 1
    /\ late' = IF Cut THEN late + 1 ELSE late
    /\ todo' = <<>> /\ uses' = <<>> /\ paused' = {} /\ results' = <<>>
    /\ UNCHANGED <<msgs, frames, wire, ctx>>

Delta ==
    /\ pc = "stream"
    /\ Write(Frame("delta", calls))
    /\ UNCHANGED <<pc, calls, msgs, round, ctx, late>>

\* Mutant of AskFailed: the call of the LLM is not bound to the context.
AskFailedAtGateway ==
    /\ pc = "stream" /\ ctx = "live" /\ pc' = "failed"
    /\ UNCHANGED <<calls, msgs, round, frames, wire, ctx, late>>

\* The stream fails: an error of the gateway or, always, of a context that is done.
AskFailed ==
    /\ pc = "stream" /\ pc' = "failed"
    /\ UNCHANGED <<calls, msgs, round, frames, wire, ctx, late>>

\* The stream is complete.  Without calls, or when the LLM did not stop for
\* them, the answer is finished.
AskReturned(called, stopped) ==
    /\ pc = "stream"
    /\ IF wire = "broken" THEN pc' = "failed" /\ UNCHANGED <<frames, wire, todo, uses>>
       ELSE IF called = <<>> \/ ~stopped
       THEN Close("end_turn") /\ UNCHANGED <<todo, uses>>
       ELSE /\ pc' = "tools" /\ uses' = called /\ todo' = called
            /\ UNCHANGED <<frames, wire>>
    /\ UNCHANGED <<calls, msgs, paused, results, ctx, late>>

-----------------------------------------------------------------------------
(* The calls of a round                                                    *)

\* The next call is not made when the stream was cut: StreamChat returns the
\* error of the write, and none when only the context is done.
Abort ==
    /\ pc = "tools" /\ todo # <<>> /\ Cut
    /\ pc' = IF wire = "broken" THEN "failed" ELSE "ended"
    /\ UNCHANGED <<calls, msgs, round, frames, wire, ctx, late>>

\* clarify and submit_plan become a frame.
Pause ==
    /\ pc = "tools" /\ todo # <<>> /\ ~Cut /\ Head(todo) # "data"
    /\ Write(Frame(Head(todo), calls))
    /\ todo' = Tail(todo) /\ paused' = paused \cup {Head(todo)}
    /\ UNCHANGED <<pc, calls, msgs, uses, results, ctx, late>>

\* A data tool is announced.
Announce ==
    /\ pc = "tools" /\ todo # <<>> /\ ~Cut /\ Head(todo) = "data"
    /\ Write(Frame("tool_call", <<calls, Call + 1>>))
    /\ todo' = Tail(todo) /\ pc' = "announced"
    /\ UNCHANGED <<calls, msgs, uses, paused, results, ctx, late>>

\* It runs whether or not the announcement was written.
Exec ==
    /\ pc = "announced" /\ pc' = "running"
    /\ late' = IF Cut THEN late + 1 ELSE late
    /\ UNCHANGED <<calls, msgs, round, frames, wire, ctx>>

\* Mutant of Answer: the result of a tool that failed is not kept.
AnswerKeepsSuccess ==
    /\ pc = "running"
    /\ Write(Frame("tool_result", <<calls, Call>>))
    /\ IF wire' = "broken" THEN pc' = "failed" /\ UNCHANGED results
       ELSE pc' = "tools" /\ results' \in {results, Append(results, Call)}
    /\ UNCHANGED <<calls, msgs, todo, uses, paused, ctx, late>>

\* Exec returns, with a result or an error: at the latest when the context is
\* done.
Answer ==
    /\ pc = "running"
    /\ Write(Frame("tool_result", <<calls, Call>>))
    /\ IF wire' = "broken" THEN pc' = "failed" /\ UNCHANGED results
       ELSE pc' = "tools" /\ results' = Append(results, Call)
    /\ UNCHANGED <<calls, msgs, todo, uses, paused, ctx, late>>

\* Mutant of EndRound: a question goes before a plan.
EndRoundAsksFirst ==
    /\ pc = "tools" /\ todo = <<>>
    /\ msgs' = Append(msgs, [uses |-> uses, results |-> results])
    /\ CASE "clarify" \in paused -> Close("clarify")
         [] paused = {"plan"} -> Close("plan")
         [] paused = {} -> pc' = "check" /\ UNCHANGED <<frames, wire>>
    /\ UNCHANGED <<calls, round, ctx, late>>

\* After the last call: a plan to review goes before a question to clarify,
\* and either ends the stream; otherwise the results go into the next round.
EndRound ==
    /\ pc = "tools" /\ todo = <<>>
    /\ msgs' = Append(msgs, [uses |-> uses, results |-> results])
    /\ CASE "plan" \in paused -> Close("plan")
         [] paused = {"clarify"} -> Close("clarify")
         [] paused = {} -> pc' = "check" /\ UNCHANGED <<frames, wire>>
    /\ UNCHANGED <<calls, round, ctx, late>>

\* The handler reports the error of StreamChat.
Report ==
    /\ pc = "failed" /\ pc' = "ended"
    /\ Write(Frame("error", 500))
    /\ UNCHANGED <<calls, msgs, round, ctx, late>>

-----------------------------------------------------------------------------
Answers == [called : UNION {[1 .. n -> Tools] : n \in 0 .. MaxTools}, stopped : BOOLEAN]

Step ==
    \/ Check \/ Ask \/ Abort \/ Pause \/ Announce \/ Exec \/ EndRound \/ Report

Next ==
    \/ Step \/ Leave \/ Cancel
    \/ Delta \/ AskFailed \/ Answer
    \/ \E a \in Answers : AskReturned(a.called, a.stopped)

Spec == Init /\ [][Next]_vars

\* The loop's own steps are taken, the server's timeout expires, and a call of
\* the LLM or of a tool ends once the context is done; nothing else is said of
\* how long either takes.
FairSpec ==
    /\ Spec
    /\ WF_vars(Step) /\ WF_vars(Cancel)
    /\ WF_vars(ctx = "done" /\ AskFailed) /\ WF_vars(ctx = "done" /\ Answer)

-----------------------------------------------------------------------------
(* Properties                                                              *)

Terminal(frame) == frame.type \in {"done", "error"}

\* A stream has one ending: nothing follows a done or error frame, and a
\* handler that returned without one had lost its browser or its context.
OneEnding ==
    /\ \A i \in DOMAIN frames : Terminal(frames[i]) => i = Len(frames) /\ pc \in {"ended", "failed"}
    /\ pc = "ended" /\ ~Cut => frames # <<>> /\ Terminal(Last(frames))

\* A done frame says why the stream ended: for a plan or a question of this
\* round that was shown before it, a plan going first, and for the limit of
\* rounds only when all of them were used and none paused.
EndingIsTrue ==
    LET shown(tool) == Frame(tool, calls) \in ToSet(frames)
        stop == Last(frames).ref
    IN  frames # <<>> /\ Last(frames).type = "done" =>
            /\ stop = "plan" <=> shown("plan")
            /\ stop = "clarify" <=> shown("clarify") /\ ~shown("plan")
            /\ stop = "max_rounds" <=> Len(msgs) = MaxRounds /\ ~shown("plan") /\ ~shown("clarify")

\* The context of an LLM call pairs every call of the earlier rounds with one
\* result, in their order, and the browser saw each of them come and go.
RoundsArePaired ==
    pc \in {"call", "stream"} =>
        \A r \in DOMAIN msgs :
            /\ msgs[r].results = [k \in DOMAIN msgs[r].uses |-> k]
            /\ \A k \in DOMAIN msgs[r].uses : \E i \in 1 .. Len(frames) - 1 :
                   /\ frames[i] = Frame("tool_call", <<r, k>>)
                   /\ frames[i + 1] = Frame("tool_result", <<r, k>>)

\* Two ways stop the loop, a failed write and the context.  Neither stops it at once,
\* but however they meet, what begins in vain is one LLM call or one tool run.
LittleLateWork == late <= 1

\* No data tool runs once a write has failed: the code's comment before the calls of a
\* round ("client is gone: no frame, no tool", use_dashboard_ai_chat.go:145) and the
\* test of a failed first write ("no data tool is run",
\* use_dashboard_ai_chat_test.go:415).  The tool whose announcement fails does run.
NoToolAfterFailedWrite == [][Exec => wire # "broken"]_vars

\* Every stream ends, also one whose browser left or whose gateway hangs.
EveryStreamEnds == <>(pc = "ended")
=============================================================================

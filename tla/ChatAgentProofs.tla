-------------------------- MODULE ChatAgentProofs ---------------------------
(***************************************************************************)
(* Proofs about ChatAgent, for every number of rounds and of tool calls:   *)
(* a stream has one ending and its done frame tells the truth, the context *)
(* of the LLM pairs calls with results, and little is done after the       *)
(* browser has left.                                                       *)
(*                                                                         *)
(* The inductive invariant has a part for each of them.  They all rest on  *)
(* what Write leaves behind (Written), and on the place in the loop: while *)
(* it goes on, frames are pauses, deltas, calls and results of the rounds  *)
(* so far.                                                                 *)
(***************************************************************************)
EXTENDS ChatAgent, SequenceTheorems, TLAPS

Going == {"check", "call", "stream", "tools", "announced", "running"}
InRound == {"tools", "announced", "running"}
Pauses == {"clarify", "plan"}

Types == {"done", "error", "delta", "tool_call", "tool_result"} \cup Pauses
Refs == Stops \cup Nat \cup (Nat \X Int)
AnyFrame == [type : Types, ref : Refs]
Rounds == [uses : Seq(Tools), results : Seq(Int)]

Typed ==
    /\ pc \in Going \cup {"failed", "ended"}
    /\ calls \in 0 .. MaxRounds /\ (pc = "call" => calls < MaxRounds)
    /\ msgs \in Seq(Rounds)
    /\ todo \in Seq(Tools) /\ uses \in Seq(Tools)
    /\ paused \subseteq Pauses
    /\ results \in Seq(Int)
    /\ frames \in Seq(AnyFrame)
    /\ wire \in {"open", "gone", "broken"} /\ ctx \in {"live", "done"}
    /\ late \in Nat

-----------------------------------------------------------------------------
(* One write *)

\* What a write of frame leaves: the earlier frames, and frame as the last one
\* unless the connection is broken.
Written(frame) ==
    /\ frames' \in Seq(AnyFrame) /\ wire' \in {"open", "gone", "broken"}
    /\ wire' # "broken" => /\ wire # "broken"
                           /\ Len(frames') > 0 /\ frames'[Len(frames')] = frame
    /\ Len(frames') \in {Len(frames), Len(frames) + 1}
    /\ \A i \in 1 .. Len(frames) : frames'[i] = frames[i]
    /\ Len(frames') = Len(frames) + 1 => /\ frames'[Len(frames) + 1] = frame
                                         /\ wire' = wire /\ wire # "broken"
    /\ Len(frames') = Len(frames) => frames' = frames
    /\ wire' # "broken" /\ Len(frames') = Len(frames) => frames[Len(frames)] = frame
    /\ wire' = wire \/ wire' = "broken"

LEMMA WriteWritten ==
    ASSUME Typed, NEW frame \in AnyFrame, Write(frame)
    PROVE  Written(frame)
  <1>1. /\ Append(frames, frame) \in Seq(AnyFrame)
        /\ Len(Append(frames, frame)) = Len(frames) + 1
        /\ \A i \in 1 .. Len(frames) : Append(frames, frame)[i] = frames[i]
        /\ Append(frames, frame)[Len(frames) + 1] = frame
    BY AppendProperties DEF Typed
  <1>2. Len(frames) \in Nat /\ (frames # <<>> => Len(frames) > 0)
    BY EmptySeq, LenProperties DEF Typed
  <1>3. CASE frames' = frames /\ wire' = wire /\ wire # "broken" /\ frames # <<>> /\ Last(frames) = frame
    BY <1>2, <1>3 DEF Written, Last, Typed
  <1>4. CASE frames' = Append(frames, frame) /\ wire' = wire /\ wire # "broken"
    BY <1>1, <1>2, <1>4 DEF Written, Typed
  <1>5. CASE frames' = frames /\ wire' = "broken"
    BY <1>2, <1>5 DEF Written, Typed
  <1>6. QED
    BY <1>3, <1>4, <1>5 DEF Write

LEMMA CloseWritten ==
    ASSUME Typed, NEW stop \in Stops, Close(stop)
    PROVE  /\ Written(Frame("done", stop))
           /\ pc' = IF wire' = "broken" THEN "failed" ELSE "ended"
  <1>1. Frame("done", stop) \in AnyFrame
    BY DEF Frame, AnyFrame, Types, Refs
  <1>2. QED
    BY <1>1, WriteWritten DEF Close

-----------------------------------------------------------------------------
(* Types *)

LEMMA InitTyped == Init => Typed
    BY AgentAssumption, EmptySeq DEF Init, Typed, Going

LEMMA AnswerType == \A a \in Answers : a.called \in Seq(Tools)
  <1>1. \A n \in 0 .. MaxTools : [1 .. n -> Tools] \subseteq Seq(Tools)
    BY AgentAssumption, SeqDef
  <1>2. QED
    BY <1>1 DEF Answers

\* Which frame each action writes.
LEMMA StepsWrite ==
    ASSUME Typed
    PROVE  /\ Pause => Head(todo) \in Pauses /\ Written(Frame(Head(todo), calls))
           /\ Announce => Written(Frame("tool_call", <<calls, Call + 1>>))
           /\ Answer => Written(Frame("tool_result", <<calls, Call>>))
           /\ Report => Written(Frame("error", 500))
           /\ Delta => Written(Frame("delta", calls))
  <1> USE DEF Typed, Frame, AnyFrame, Types, Refs
  <1>1. Pause => Head(todo) \in Pauses
    BY HeadTailProperties DEF Pause, Tools, Pauses
  <1>2. Call \in Int
    BY LenProperties DEF Call
  <1>3. /\ Head(todo) \in Pauses => Frame(Head(todo), calls) \in AnyFrame
        /\ Frame("error", 500) \in AnyFrame /\ Frame("delta", calls) \in AnyFrame
        /\ Frame("tool_call", <<calls, Call + 1>>) \in AnyFrame
        /\ Frame("tool_result", <<calls, Call>>) \in AnyFrame
    BY <1>2, AgentAssumption
  <1>4. QED
    <2> HIDE DEF Frame, AnyFrame
    <2>1. QED
      BY <1>1, <1>3, WriteWritten DEF Pause, Announce, Answer, Report, Delta

LEMMA TailTodo ==
    ASSUME Typed, todo # <<>>
    PROVE  /\ Tail(todo) \in Seq(Tools) /\ Len(Tail(todo)) = Len(todo) - 1
           /\ Len(todo) \in Nat \ {0}
    BY HeadTailProperties, EmptySeq, LenProperties DEF Typed

LEMMA NextTyped == ASSUME Typed, [Next]_vars PROVE Typed'
  <1> USE AgentAssumption DEF Typed, Going, round
  <1>1. CASE UNCHANGED vars \/ Leave \/ Cancel \/ AskFailed \/ Abort \/ Exec
    BY <1>1 DEF vars, Leave, Cancel, AskFailed, Abort, Exec
  <1>2. CASE Check
    BY <1>2, CloseWritten DEF Check, Written, Stops
  <1>3. CASE Ask
    BY <1>3, EmptySeq DEF Ask
  <1>4. CASE Pause
    BY <1>4, StepsWrite, TailTodo DEF Pause, Written
  <1>5. CASE Announce
    BY <1>5, StepsWrite, TailTodo DEF Announce, Written
  <1>6. CASE Answer
    <2>1. Call \in Int
      BY LenProperties DEF Call
    <2>2. Append(results, Call) \in Seq(Int)
      BY <2>1, AppendProperties
    <2>3. QED
      BY <1>6, <2>2, StepsWrite DEF Answer, Written
  <1>7. CASE EndRound
    <2>1. Append(msgs, [uses |-> uses, results |-> results]) \in Seq(Rounds)
      BY AppendProperties DEF Rounds
    <2>2. QED
      BY <1>7, <2>1, CloseWritten DEF EndRound, Written, Stops, Pauses
  <1>8. CASE Report \/ Delta
    BY <1>8, StepsWrite DEF Report, Delta, Written
  <1>9. ASSUME NEW a \in Answers, AskReturned(a.called, a.stopped) PROVE Typed'
    BY <1>9, AnswerType, CloseWritten DEF AskReturned, Written, Stops
  <1>10. QED
    BY <1>1, <1>2, <1>3, <1>4, <1>5, <1>6, <1>7, <1>8, <1>9 DEF Next, Step

-----------------------------------------------------------------------------
(* One ending *)

EndInv ==
    /\ \A i \in 1 .. Len(frames) : Terminal(frames[i]) => i = Len(frames) /\ pc = "ended"
    /\ pc = "ended" /\ ~Cut => Len(frames) > 0 /\ Terminal(frames[Len(frames)])

LEMMA EndFollows == ASSUME Typed, EndInv PROVE OneEnding
  <1>1. DOMAIN frames = 1 .. Len(frames) /\ (Len(frames) > 0 => frames # <<>>)
    BY LenProperties, EmptySeq DEF Typed
  <1>2. QED
    BY <1>1 DEF EndInv, OneEnding, Last

LEMMA InitEnd == Init => EndInv
    BY DEF Init, EndInv

\* Before the stream has ended no frame is an ending.
LEMMA NoEndYet ==
    ASSUME Typed, EndInv, pc # "ended", NEW frame, Written(frame)
    PROVE  /\ Len(frames) \in Nat /\ Len(frames') \in Nat
           /\ \A i \in 1 .. Len(frames') : Terminal(frames'[i]) => i = Len(frames') /\ frames'[i] = frame
           /\ Len(frames') > 0 /\ wire' # "broken" => frames'[Len(frames')] = frame
  <1>1. Len(frames) \in Nat /\ Len(frames') \in Nat
    BY LenProperties DEF Typed, Written
  <1>2. \A i \in 1 .. Len(frames) : ~Terminal(frames'[i])
    BY DEF EndInv, Written
  <1>3. Len(frames') = Len(frames) \/ Len(frames') = Len(frames) + 1
    BY DEF Written
  <1>4. Len(frames') = Len(frames) + 1 => frames'[Len(frames')] = frame
    BY DEF Written
  <1>5. QED
    BY <1>1, <1>2, <1>3, <1>4 DEF Written

\* A frame that is no ending is written before the stream has ended.
LEMMA OpenEnd ==
    ASSUME Typed, EndInv, pc # "ended", NEW frame, Written(frame), ~Terminal(frame),
           pc' # "ended"
    PROVE  EndInv'
  <1>1. \A i \in 1 .. Len(frames') : ~Terminal(frames'[i])
    BY NoEndYet
  <1>2. QED
    BY <1>1 DEF EndInv, Terminal

\* An ending that was written ends the stream.
LEMMA CloseEnd ==
    ASSUME Typed, EndInv, pc # "ended", NEW frame, Written(frame), Terminal(frame),
           wire' # "broken" => pc' = "ended", wire' = "broken" => pc' \in {"ended", "failed"}
    PROVE  EndInv'
  <1>1. CASE wire' # "broken"
    <2>1. Len(frames') > 0 /\ frames'[Len(frames')] = frame
      BY <1>1, NoEndYet DEF Written
    <2>2. \A i \in 1 .. Len(frames') : Terminal(frames'[i]) => i = Len(frames')
      BY NoEndYet
    <2>3. QED
      BY <1>1, <2>1, <2>2 DEF EndInv, Terminal
  <1>2. CASE wire' = "broken"
    <2>1. frames' = frames
      BY <1>2, NoEndYet DEF Written
    <2>2. QED
      BY <1>2, <2>1 DEF EndInv, Terminal, Cut
  <1>3. QED
    BY <1>1, <1>2

LEMMA NextEnd == ASSUME Typed, EndInv, [Next]_vars PROVE EndInv'
  <1>1. CASE UNCHANGED vars \/ Leave \/ Cancel
    BY <1>1 DEF EndInv, Terminal, Cut, vars, Leave, Cancel
  <1>2. CASE AskFailed \/ Abort \/ Exec \/ Ask
    BY <1>2 DEF EndInv, Terminal, Cut, AskFailed, Abort, Exec, Ask
  <1>3. CASE Pause \/ Announce \/ Answer \/ Delta
    BY <1>3, StepsWrite, OpenEnd DEF Pause, Announce, Answer, Delta, Frame, Terminal, Pauses
  <1>4. CASE Report
    BY <1>4, StepsWrite, CloseEnd DEF Report, Frame, Terminal
  <1>5. ASSUME NEW stop \in Stops, Close(stop), pc # "ended" PROVE EndInv'
    BY <1>5, CloseWritten, CloseEnd DEF Frame, Terminal
  <1>6. CASE Check
    BY <1>6, <1>5 DEF Check, EndInv, Terminal, Stops
  <1>7. CASE EndRound
    BY <1>7, <1>5 DEF EndRound, EndInv, Terminal, Stops, Typed, Pauses
  <1>8. ASSUME NEW a \in Answers, AskReturned(a.called, a.stopped) PROVE EndInv'
    BY <1>8, <1>5 DEF AskReturned, EndInv, Terminal, Stops
  <1>9. QED
    BY <1>1, <1>2, <1>3, <1>4, <1>6, <1>7, <1>8 DEF Next, Step

-----------------------------------------------------------------------------
(* The truth of a done frame *)

ShownIn(fr, n, tool) == \E i \in 1 .. Len(fr) : fr[i] = Frame(tool, n)

\* A done frame with this stop, after fr and n calls, m rounds of them complete.
TrueStop(stop, fr, n, m) ==
    /\ stop = "plan" <=> ShownIn(fr, n, "plan")
    /\ stop = "clarify" <=> ShownIn(fr, n, "clarify") /\ ~ShownIn(fr, n, "plan")
    /\ stop = "max_rounds" <=>
           m = MaxRounds /\ ~ShownIn(fr, n, "plan") /\ ~ShownIn(fr, n, "clarify")

\* The loop remembers as paused what the browser was shown in this round.
RoundInv ==
    /\ pc \in {"check", "call", "stream"} => paused = {}
    /\ pc \in {"check", "call"} => Len(msgs) = calls
    /\ pc \in InRound \cup {"stream"} => Len(msgs) = calls - 1
    /\ \A i \in 1 .. Len(frames) : frames[i].type \in Pauses => frames[i].ref \in 1 .. calls
    /\ pc \in Going => \A t \in Pauses : ShownIn(frames, calls, t) => t \in paused
    /\ pc \in Going /\ wire # "broken" => \A t \in paused : ShownIn(frames, calls, t)
    /\ Len(frames) > 0 /\ frames[Len(frames)].type = "done" =>
           TrueStop(frames[Len(frames)].ref, frames, calls, Len(msgs))

LEMMA RoundFollows == ASSUME Typed, RoundInv PROVE EndingIsTrue
  <1>1. DOMAIN frames = 1 .. Len(frames) /\ (frames # <<>> => Len(frames) > 0)
    BY LenProperties, EmptySeq DEF Typed
  <1>2. \A tool : Frame(tool, calls) \in ToSet(frames) <=> ShownIn(frames, calls, tool)
    BY <1>1 DEF ToSet, ShownIn
  <1>3. QED
    BY <1>1, <1>2 DEF RoundInv, EndingIsTrue, TrueStop, Last

LEMMA InitRound == Init => RoundInv
    BY EmptySeq, AgentAssumption DEF Init, RoundInv, ShownIn, InRound

LEMMA WrittenShown ==
    ASSUME Typed, NEW frame, Written(frame), NEW n, NEW t
    PROVE  /\ Len(frames) \in Nat /\ Len(frames') \in Nat
           /\ ShownIn(frames, n, t) => ShownIn(frames', n, t)
           /\ ShownIn(frames', n, t) => ShownIn(frames, n, t) \/ frame = Frame(t, n)
           /\ wire' # "broken" /\ frame = Frame(t, n) => ShownIn(frames', n, t)
           /\ \A i \in 1 .. Len(frames') : frames'[i] = frame \/ (i \in 1 .. Len(frames) /\ frames'[i] = frames[i])
  <1>1. Len(frames) \in Nat /\ Len(frames') \in Nat
    BY LenProperties DEF Typed, Written
  <1>2. Len(frames') = Len(frames) \/ Len(frames') = Len(frames) + 1
    BY DEF Written
  <1>3. \A i \in 1 .. Len(frames) : frames'[i] = frames[i]
    BY DEF Written
  <1>4. \A i \in 1 .. Len(frames') : frames'[i] = frame \/ (i \in 1 .. Len(frames) /\ frames'[i] = frames[i])
    BY <1>1, <1>2, <1>3 DEF Written
  <1>5. wire' # "broken" => Len(frames') > 0 /\ frames'[Len(frames')] = frame
    BY DEF Written
  <1>6. QED
    BY <1>1, <1>2, <1>3, <1>4, <1>5 DEF ShownIn

\* A write that neither pauses nor ends the stream.
LEMMA PlainRound ==
    ASSUME Typed, EndInv, RoundInv, pc \in Going, NEW frame, Written(frame),
           frame.type \notin Pauses \cup {"done"},
           UNCHANGED <<calls, paused, msgs>>,
           pc' \in {"check", "call", "stream"} => pc' = pc,
           pc' \in InRound => pc \in InRound
    PROVE  RoundInv'
  <1>1. \A t \in Pauses : ShownIn(frames', calls, t) <=> ShownIn(frames, calls, t)
    BY WrittenShown DEF Frame
  <1>2. \A i \in 1 .. Len(frames') : frames'[i].type \in Pauses => frames'[i].ref \in 1 .. calls
    BY WrittenShown DEF RoundInv
  <1>3. \A i \in 1 .. Len(frames') : frames'[i].type # "done"
    BY WrittenShown DEF EndInv, Terminal, Going
  <1>4. (wire' # "broken" => wire # "broken") /\ (pc' \in Going => pc \in Going)
    BY DEF Written
  <1>5. QED
    BY <1>1, <1>2, <1>3, <1>4 DEF RoundInv, InRound, Typed

\* A write in the loop's last state: the done frame is true.
LEMMA CloseRound ==
    ASSUME Typed, EndInv, RoundInv, pc \in Going, NEW stop \in Stops, Close(stop),
           UNCHANGED <<calls, paused>>,
           stop = "plan" <=> "plan" \in paused,
           stop = "clarify" <=> paused = {"clarify"},
           paused = {} => (stop = "max_rounds" <=> Len(msgs') = MaxRounds)
    PROVE  RoundInv'
  <1> DEFINE done == Frame("done", stop)
  <1>1. Written(done) /\ pc' \notin Going
    BY CloseWritten DEF Going
  <1>2. \A t \in Pauses : ShownIn(frames', calls, t) <=> ShownIn(frames, calls, t)
    BY <1>1, WrittenShown DEF Frame, Pauses
  <1>3. \A i \in 1 .. Len(frames') : frames'[i].type \in Pauses => frames'[i].ref \in 1 .. calls
    BY <1>1, WrittenShown DEF RoundInv, Frame, Pauses
  <1>4. CASE wire' = "broken"
    <2>1. frames' = frames
      BY <1>1, <1>4, NoEndYet DEF Written, Going
    <2>2. \A i \in 1 .. Len(frames) : ~Terminal(frames[i])
      BY DEF EndInv, Going
    <2>3. ~(Len(frames') > 0 /\ frames'[Len(frames')].type = "done")
      <3>1. Len(frames) \in Nat
        BY LenProperties DEF Typed
      <3>2. QED
        BY <2>1, <2>2, <3>1 DEF Terminal
    <2>4. QED
      BY <1>1, <1>3, <2>3 DEF RoundInv, Going, InRound
  <1>5. CASE wire' # "broken"
    <2>1. wire # "broken" /\ frames'[Len(frames')] = done
      BY <1>1, <1>5 DEF Written
    <2>2. \A t \in Pauses : ShownIn(frames', calls, t) <=> t \in paused
      BY <1>2, <2>1 DEF RoundInv, Typed
    <2>3. TrueStop(stop, frames', calls, Len(msgs'))
      <3>1. paused \subseteq {"clarify", "plan"}
        BY DEF Typed, Pauses
      <3>2. (stop = "max_rounds") <=> (Len(msgs') = MaxRounds /\ paused = {})
        BY <3>1
      <3>3. QED
        BY <2>2, <3>1, <3>2 DEF TrueStop, Pauses
    <2>4. frames'[Len(frames')].ref = stop
      BY <2>1 DEF Frame
    <2>5. QED
      BY <1>1, <1>3, <2>3, <2>4 DEF RoundInv, Going, InRound
  <1>6. QED
    BY <1>4, <1>5

LEMMA NextRound == ASSUME Typed, EndInv, RoundInv, [Next]_vars PROVE RoundInv'
  <1> USE DEF round
  <1>1. CASE UNCHANGED vars \/ Leave \/ Cancel \/ AskFailed \/ Abort \/ Exec
    BY <1>1 DEF RoundInv, Going, InRound, vars, Leave, Cancel, AskFailed, Abort, Exec
  <1>2. CASE Check
    <2>1. CASE calls = MaxRounds
      <3>1. Close("max_rounds") /\ "max_rounds" \in Stops /\ pc \in Going
        BY <1>2, <2>1 DEF Check, Stops, Going
      <3>2. paused = {} /\ Len(msgs') = MaxRounds /\ UNCHANGED <<calls, paused>>
        BY <1>2, <2>1 DEF Check, RoundInv
      <3>3. QED
        BY <3>1, <3>2, CloseRound
    <2>2. CASE calls # MaxRounds
      BY <1>2, <2>2 DEF Check, RoundInv, Going, InRound
    <2>3. QED
      BY <2>1, <2>2
  <1>3. CASE Ask
    <2>1. \A t \in Pauses : ~ShownIn(frames, calls + 1, t)
      BY DEF RoundInv, ShownIn, Frame, Typed
    <2>2. \A i \in 1 .. Len(frames) : frames[i].type \in Pauses => frames[i].ref \in 1 .. calls + 1
      BY DEF RoundInv, Typed
    <2>3. ~(Len(frames) > 0 /\ frames[Len(frames)].type = "done")
      BY <1>3, LenProperties DEF Ask, EndInv, Terminal, Typed
    <2>4. QED
      BY <1>3, <2>1, <2>2, <2>3 DEF Ask, RoundInv, Going, InRound, Typed
  <1>4. CASE Pause
    <2> DEFINE t == Head(todo)
    <2>1. t \in Pauses /\ Written(Frame(t, calls))
      BY <1>4, StepsWrite
    <2>2. UNCHANGED <<pc, calls, msgs>> /\ paused' = paused \cup {t} /\ pc = "tools"
      BY <1>4 DEF Pause
    <2>3. \A u \in Pauses : ShownIn(frames', calls, u) => u \in paused'
      BY <2>1, <2>2, WrittenShown DEF Frame, RoundInv, Going
    <2>4. wire' # "broken" => \A u \in paused' : ShownIn(frames', calls, u)
      BY <2>1, <2>2, WrittenShown DEF RoundInv, Going, Written
    <2>5. \A i \in 1 .. Len(frames') : frames'[i].type \in Pauses => frames'[i].ref \in 1 .. calls
      <3>1. calls \in 1 .. calls
        BY <2>2, LenProperties DEF RoundInv, InRound, Typed
      <3>2. \A i \in 1 .. Len(frames') : frames'[i] = Frame(t, calls) \/ (i \in 1 .. Len(frames) /\ frames'[i] = frames[i])
        BY <2>1, WrittenShown
      <3>3. Frame(t, calls).ref = calls
        BY DEF Frame
      <3>4. QED
        BY <3>1, <3>2, <3>3 DEF RoundInv
    <2>6. \A i \in 1 .. Len(frames') : frames'[i].type # "done"
      BY <2>1, <2>2, WrittenShown DEF EndInv, Terminal, Frame, Pauses
    <2>7. QED
      BY <2>2, <2>3, <2>4, <2>5, <2>6 DEF RoundInv, Going, InRound
  <1>5. CASE Announce \/ Answer \/ Delta
    <2>1. PICK frame : Written(frame) /\ frame.type \in {"tool_call", "tool_result", "delta"}
      BY <1>5, StepsWrite DEF Frame
    <2>2. /\ pc \in Going /\ UNCHANGED <<calls, paused, msgs>>
          /\ pc' \in {"check", "call", "stream"} => pc' = pc
          /\ pc' \in InRound => pc \in InRound
      BY <1>5 DEF Announce, Answer, Delta, Going, InRound
    <2>3. QED
      BY <2>1, <2>2, PlainRound DEF Pauses
  <1>6. CASE EndRound
    <2>1. Len(msgs') = calls /\ pc \in Going /\ UNCHANGED <<calls, paused>>
      <3>1. Len(msgs') = Len(msgs) + 1
        BY <1>6, AppendProperties DEF EndRound, Typed, Rounds
      <3>2. QED
        BY <1>6, <3>1 DEF EndRound, RoundInv, InRound, Going, Typed
    <2>2. CASE paused = {}
      <3>1. "plan" \notin paused /\ paused # {"clarify"}
        BY <2>2
      <3>2. pc' = "check" /\ UNCHANGED <<frames, wire>> /\ pc = "tools"
        BY <1>6, <2>2, <3>1 DEF EndRound
      <3>3. ~(Len(frames) > 0 /\ frames[Len(frames)].type = "done")
        BY <3>2, LenProperties DEF EndInv, Terminal, Typed
      <3>4. QED
        BY <2>1, <2>2, <3>2, <3>3 DEF RoundInv, Going, InRound
    <2>3. CASE "plan" \in paused
      BY <1>6, <2>1, <2>3, CloseRound DEF EndRound, Stops
    <2>4. CASE paused = {"clarify"}
      BY <1>6, <2>1, <2>4, CloseRound DEF EndRound, Stops
    <2>5. QED
      BY <2>2, <2>3, <2>4 DEF Typed, Pauses
  <1>7. CASE Report
    <2>1. Written(Frame("error", 500)) /\ UNCHANGED <<calls, paused, msgs>> /\ pc = "failed" /\ pc' = "ended"
      BY <1>7, StepsWrite DEF Report
    <2>2. \A i \in 1 .. Len(frames') : /\ frames'[i].type \in Pauses => frames'[i].ref \in 1 .. calls
                                       /\ frames'[i].type # "done"
      BY <2>1, WrittenShown DEF RoundInv, EndInv, Terminal, Frame, Pauses
    <2>3. QED
      BY <2>1, <2>2 DEF RoundInv, Going, InRound
  <1>8. ASSUME NEW a \in Answers, AskReturned(a.called, a.stopped) PROVE RoundInv'
    <2>1. paused = {} /\ UNCHANGED <<calls, paused, msgs>> /\ Len(msgs) # MaxRounds /\ pc \in Going
      BY <1>8 DEF AskReturned, RoundInv, Typed, Going
    <2>2. CASE Close("end_turn")
      BY <2>1, <2>2, CloseRound DEF Stops
    <2>3. CASE pc = "stream" /\ pc' \in {"failed", "tools"} /\ UNCHANGED <<frames, wire>>
      BY <2>1, <2>3 DEF RoundInv, Going, InRound
    <2>4. QED
      BY <1>8, <2>2, <2>3 DEF AskReturned
  <1>9. QED
    BY <1>1, <1>2, <1>3, <1>4, <1>5, <1>6, <1>7, <1>8 DEF Next, Step

-----------------------------------------------------------------------------
(* Calls and results *)

PairIn(fr, r, k) == \E i \in 1 .. Len(fr) - 1 :
    fr[i] = Frame("tool_call", <<r, k>>) /\ fr[i + 1] = Frame("tool_result", <<r, k>>)

\* The results res are those of the first n calls of round r, all shown in fr.
AnsweredIn(fr, res, r, n) ==
    res = [k \in 1 .. n |-> k] /\ \A k \in 1 .. n : PairIn(fr, r, k)

\* As long as nothing pauses the round, every call the tool loop has reached
\* has its result; the one announced is the last thing the browser saw.
PairInv ==
    /\ pc \in Going =>
           \A r \in 1 .. Len(msgs) : AnsweredIn(frames, msgs[r].results, r, Len(msgs[r].uses))
    /\ pc = "stream" => results = <<>>
    /\ pc \in InRound => Len(todo) <= Len(uses)
    /\ pc \in {"announced", "running"} => Len(todo) < Len(uses)
    /\ pc = "tools" /\ paused = {} => AnsweredIn(frames, results, calls, Call)
    /\ pc \in {"announced", "running"} /\ paused = {} =>
           AnsweredIn(frames, results, calls, Call - 1)
    /\ pc \in {"announced", "running"} /\ wire # "broken" =>
           Len(frames) > 0 /\ frames[Len(frames)] = Frame("tool_call", <<calls, Call>>)
    /\ pc = "tools" /\ todo = <<>> /\ wire = "broken" => paused # {}

LEMMA PairFollows == ASSUME Typed, PairInv PROVE RoundsArePaired
  <1>1. DOMAIN msgs = 1 .. Len(msgs)
    BY LenProperties DEF Typed
  <1>2. \A r \in 1 .. Len(msgs) : DOMAIN msgs[r].uses = 1 .. Len(msgs[r].uses)
    BY ElementOfSeq, LenProperties DEF Typed, Rounds
  <1>3. QED
    BY <1>1, <1>2 DEF PairInv, RoundsArePaired, AnsweredIn, PairIn, Going

LEMMA InitPair == Init => PairInv
    BY EmptySeq DEF Init, PairInv, InRound, Going

LEMMA CountAppend ==
    ASSUME NEW n \in Nat PROVE Append([k \in 1 .. n |-> k], n + 1) = [k \in 1 .. n + 1 |-> k]
    OBVIOUS

\* What was answered stays in front of the frames that follow.
LEMMA WrittenAnswered ==
    ASSUME Typed, NEW frame, Written(frame), NEW res, NEW r, NEW n,
           AnsweredIn(frames, res, r, n)
    PROVE  AnsweredIn(frames', res, r, n)
  <1>1. Len(frames) \in Nat /\ Len(frames') \in Nat
    BY LenProperties DEF Typed, Written
  <1>2. Len(frames) <= Len(frames') /\ \A i \in 1 .. Len(frames) : frames'[i] = frames[i]
    BY <1>1 DEF Written
  <1>3. ASSUME NEW k, PairIn(frames, r, k) PROVE PairIn(frames', r, k)
    BY <1>1, <1>2, <1>3 DEF PairIn
  <1>4. QED
    BY <1>3 DEF AnsweredIn

LEMMA CallType == Typed => Call \in Int /\ Len(todo) \in Nat /\ Len(uses) \in Nat /\ Len(msgs) \in Nat
    BY LenProperties DEF Typed, Call

LEMMA NextPair == ASSUME Typed, EndInv, RoundInv, PairInv, [Next]_vars PROVE PairInv'
  <1> USE DEF round
  <1>1. CASE UNCHANGED vars \/ Leave \/ Cancel \/ AskFailed \/ Abort \/ Exec
    BY <1>1 DEF PairInv, Going, InRound, vars, Call, Leave, Cancel, AskFailed, Abort, Exec
  <1>2. CASE Check
    BY <1>2 DEF Check, Close, PairInv, Going, InRound
  <1>3. CASE Ask
    BY <1>3 DEF Ask, PairInv, Going, InRound
  <1>4. CASE Pause
    <2>1. Written(Frame(Head(todo), calls)) /\ paused' # {} /\ Len(todo') = Len(todo) - 1
      BY <1>4, StepsWrite, TailTodo DEF Pause
    <2>2. pc = "tools" /\ UNCHANGED <<pc, msgs, uses>>
      BY <1>4 DEF Pause
    <2>3. Len(todo') <= Len(uses)
      BY <2>1, <2>2, CallType DEF PairInv, InRound
    <2>4. \A r \in 1 .. Len(msgs) : AnsweredIn(frames', msgs[r].results, r, Len(msgs[r].uses))
      BY <2>1, <2>2, WrittenAnswered DEF PairInv, Going
    <2>5. QED
      BY <2>1, <2>2, <2>3, <2>4 DEF PairInv, InRound, Going
  <1>5. CASE Announce
    <2>1. Written(Frame("tool_call", <<calls, Call + 1>>)) /\ Len(todo') = Len(todo) - 1
      BY <1>5, StepsWrite, TailTodo DEF Announce
    <2>2. pc = "tools" /\ pc' = "announced" /\ UNCHANGED <<calls, msgs, uses, paused, results>>
      BY <1>5 DEF Announce
    <2>3. Call' = Call + 1 /\ Len(todo') < Len(uses)
      BY <2>1, <2>2, CallType DEF PairInv, InRound, Call
    <2>4. \A r \in 1 .. Len(msgs) : AnsweredIn(frames', msgs[r].results, r, Len(msgs[r].uses))
      BY <2>1, <2>2, WrittenAnswered DEF PairInv, Going
    <2>5. paused = {} => AnsweredIn(frames', results, calls, Call)
      BY <2>1, <2>2, WrittenAnswered DEF PairInv
    <2>6. Call' - 1 = Call
      BY <2>3, CallType
    <2>7. wire' # "broken" => Len(frames') > 0 /\ frames'[Len(frames')] = Frame("tool_call", <<calls, Call'>>)
      BY <2>1, <2>3 DEF Written
    <2>8. QED
      BY <2>2, <2>3, <2>4, <2>5, <2>6, <2>7 DEF PairInv, InRound, Going
  <1>6. CASE Answer
    <2> DEFINE frame == Frame("tool_result", <<calls, Call>>)
    <2>1. Written(frame)
      BY <1>6, StepsWrite DEF Answer
    <2>2. pc = "running" /\ UNCHANGED <<calls, msgs, todo, uses, paused>> /\ Call' = Call
      BY <1>6 DEF Answer, Call
    <2>3. CASE wire' = "broken"
      BY <1>6, <2>3 DEF Answer, PairInv, InRound, Going
    <2>4. CASE wire' # "broken"
      <3>1. pc' = "tools" /\ results' = Append(results, Call)
        BY <1>6, <2>4 DEF Answer
      <3>2. \A r \in 1 .. Len(msgs) : AnsweredIn(frames', msgs[r].results, r, Len(msgs[r].uses))
        BY <2>1, <2>2, WrittenAnswered DEF PairInv, Going
      <3>3. ASSUME paused = {} PROVE AnsweredIn(frames', results', calls, Call)
        <4>1. AnsweredIn(frames', results, calls, Call - 1)
          BY <2>1, <2>2, <3>3, WrittenAnswered DEF PairInv
        <4>2. Call - 1 \in Nat
          BY <2>2, CallType DEF PairInv, Call
        <4>3. results' = [k \in 1 .. Call |-> k]
          <5>1. Append([k \in 1 .. Call - 1 |-> k], (Call - 1) + 1) = [k \in 1 .. (Call - 1) + 1 |-> k]
            BY <4>2, CountAppend
          <5>2. (Call - 1) + 1 = Call
            BY CallType
          <5>3. results = [k \in 1 .. Call - 1 |-> k]
            BY <4>1 DEF AnsweredIn
          <5>4. QED
            BY <3>1, <5>1, <5>2, <5>3
        <4>4. PairIn(frames', calls, Call)
          <5>1. Len(frames) \in Nat /\ Len(frames) > 0
            BY <2>1, <2>2, <2>4, LenProperties DEF PairInv, Written, Typed
          <5>2. frames[Len(frames)] = Frame("tool_call", <<calls, Call>>)
            BY <2>1, <2>2, <2>4 DEF PairInv, Written
          <5>3. Len(frames') = Len(frames) + 1
            BY <2>1, <2>4, <5>2 DEF Written, Frame
          <5>4. frames'[Len(frames)] = frames[Len(frames)] /\ frames'[Len(frames) + 1] = frame
            BY <2>1, <5>1, <5>3 DEF Written
          <5>5. Len(frames) \in 1 .. Len(frames') - 1
            BY <5>1, <5>3
          <5>6. QED
            BY <5>2, <5>4, <5>5 DEF PairIn
        <4>5. \A k \in 1 .. Call : k \in 1 .. Call - 1 \/ k = Call
          BY CallType
        <4>6. QED
          BY <4>1, <4>3, <4>4, <4>5 DEF AnsweredIn
      <3>4. QED
        BY <2>2, <2>4, <3>1, <3>2, <3>3 DEF PairInv, InRound, Going
    <2>5. QED
      BY <2>3, <2>4
  <1>7. CASE EndRound
    <2>1. CASE paused # {}
      <3>1. pc' \in {"failed", "ended"}
        BY <1>7, <2>1 DEF EndRound, Close, Typed, Pauses
      <3>2. QED
        BY <3>1 DEF PairInv, InRound, Going
    <2>2. CASE paused = {}
      <3>1. "plan" \notin paused /\ paused # {"clarify"}
        BY <2>2
      <3>2. /\ pc' = "check" /\ UNCHANGED <<frames, wire>> /\ pc = "tools" /\ todo = <<>>
            /\ msgs' = Append(msgs, [uses |-> uses, results |-> results])
        BY <1>7, <2>2, <3>1 DEF EndRound
      <3>3. Call = Len(uses) /\ Len(msgs) + 1 = calls
        BY <3>2, EmptySeq, CallType DEF Call, RoundInv, InRound, Typed
      <3>4. AnsweredIn(frames, results, calls, Len(uses))
        BY <2>2, <3>2, <3>3 DEF PairInv
      <3>5. /\ Len(msgs') = Len(msgs) + 1
            /\ \A r \in 1 .. Len(msgs) : msgs'[r] = msgs[r]
            /\ msgs'[Len(msgs) + 1] = [uses |-> uses, results |-> results]
        BY <3>2, AppendProperties DEF Typed, Rounds
      <3>6. \A r \in 1 .. Len(msgs') : r \in 1 .. Len(msgs) \/ r = calls
        BY <3>3, <3>5, CallType
      <3>7. \A r \in 1 .. Len(msgs') : AnsweredIn(frames', msgs'[r].results, r, Len(msgs'[r].uses))
        BY <3>2, <3>3, <3>4, <3>5, <3>6 DEF PairInv, Going
      <3>8. QED
        BY <3>2, <3>7 DEF PairInv, InRound
    <2>3. QED
      BY <2>1, <2>2
  <1>8. CASE Report
    BY <1>8 DEF Report, PairInv, InRound, Going
  <1>9. CASE Delta
    <2>1. Written(Frame("delta", calls)) /\ pc = "stream" /\ UNCHANGED <<pc, msgs, results>>
      BY <1>9, StepsWrite DEF Delta
    <2>2. \A r \in 1 .. Len(msgs) : AnsweredIn(frames', msgs[r].results, r, Len(msgs[r].uses))
      BY <2>1, WrittenAnswered DEF PairInv, Going
    <2>3. QED
      BY <2>1, <2>2 DEF PairInv, InRound
  <1>10. ASSUME NEW a \in Answers, AskReturned(a.called, a.stopped) PROVE PairInv'
    <2>1. CASE pc' \in {"failed", "ended"}
      BY <2>1 DEF PairInv, InRound, Going
    <2>2. CASE pc' = "tools"
      <3>1. /\ a.called # <<>> /\ wire # "broken" /\ uses' = a.called /\ todo' = a.called
            /\ UNCHANGED <<frames, wire, msgs, calls, paused, results>> /\ pc = "stream"
        BY <1>10, <2>2 DEF AskReturned, Close
      <3>2. results = <<>>
        BY <3>1 DEF PairInv
      <3>3. Call' = 0 /\ AnsweredIn(frames, <<>>, calls, 0)
        BY <3>1, AnswerType, LenProperties DEF Call, AnsweredIn
      <3>4. QED
        BY <2>2, <3>1, <3>2, <3>3, AnswerType, LenProperties DEF PairInv, InRound, Going
    <2>3. QED
      BY <1>10, <2>1, <2>2 DEF AskReturned, Close
  <1>11. QED
    BY <1>1, <1>2, <1>3, <1>4, <1>5, <1>6, <1>7, <1>8, <1>9, <1>10 DEF Next, Step

-----------------------------------------------------------------------------
(* Late work *)

\* What began after the cut is counted once: then nothing else begins.
LateInv ==
    /\ LittleLateWork
    /\ late = 1 => Cut
    /\ pc \in {"call", "announced"} => late = 0
    /\ pc = "check" => wire # "broken"

LEMMA InitLate == Init => LateInv
    BY DEF Init, LateInv, LittleLateWork

LEMMA NextLate == ASSUME Typed, PairInv, LateInv, [Next]_vars PROVE LateInv'
  <1> USE DEF Typed, LateInv, LittleLateWork, Cut
  <1>1. CASE UNCHANGED vars \/ Leave \/ Cancel \/ AskFailed \/ Abort \/ Exec \/ Ask
    BY <1>1 DEF vars, Leave, Cancel, AskFailed, Abort, Exec, Ask
  <1>2. CASE Check
    BY <1>2, CloseWritten DEF Check, Written, Stops
  <1>3. CASE Pause \/ Announce \/ Answer \/ Report \/ Delta
    <2>1. CASE Pause
      BY <2>1, StepsWrite DEF Pause, Written
    <2>2. CASE Announce
      BY <2>2, StepsWrite DEF Announce, Written
    <2>3. CASE Answer
      <3>1. Written(Frame("tool_result", <<calls, Call>>))
        BY <2>3, StepsWrite
      <3>2. /\ UNCHANGED <<ctx, late>> /\ pc = "running"
            /\ pc' = (IF wire' = "broken" THEN "failed" ELSE "tools")
        BY <2>3 DEF Answer
      <3>3. QED
        BY <3>1, <3>2 DEF Written
    <2>4. CASE Report
      BY <2>4, StepsWrite DEF Report, Written
    <2>5. CASE Delta
      BY <2>5, StepsWrite DEF Delta, Written
    <2>6. QED
      BY <1>3, <2>1, <2>2, <2>3, <2>4, <2>5
  <1>4. CASE EndRound
    <2>1. CASE paused = {}
      <3>1. "plan" \notin paused /\ paused # {"clarify"}
        BY <2>1
      <3>2. UNCHANGED <<wire, ctx, late>> /\ pc' = "check" /\ pc = "tools" /\ todo = <<>>
        BY <1>4, <2>1, <3>1 DEF EndRound
      <3>3. QED
        BY <2>1, <3>2 DEF PairInv
    <2>2. CASE paused # {}
      <3>1. PICK stop \in Stops : Close(stop)
        BY <1>4, <2>2 DEF EndRound, Pauses, Stops
      <3>2. QED
        BY <1>4, <3>1, CloseWritten DEF EndRound, Written
    <2>3. QED
      BY <2>1, <2>2
  <1>5. ASSUME NEW a \in Answers, AskReturned(a.called, a.stopped) PROVE LateInv'
    BY <1>5, CloseWritten DEF AskReturned, Written, Stops
  <1>6. QED
    BY <1>1, <1>2, <1>3, <1>4, <1>5 DEF Next, Step

-----------------------------------------------------------------------------
(* Theorems *)

IInv == Typed /\ EndInv /\ RoundInv /\ PairInv /\ LateInv

THEOREM Invariant == Spec => []IInv
  <1>1. Init => IInv
    BY InitTyped, InitEnd, InitRound, InitPair, InitLate DEF IInv
  <1>2. IInv /\ [Next]_vars => IInv'
    BY NextTyped, NextEnd, NextRound, NextPair, NextLate DEF IInv
  <1>3. QED
    BY <1>1, <1>2, PTL DEF Spec

\* Nothing follows a done or error frame, and a handler returns without one
\* only when the browser or the context is gone (StreamChat, the SSE handler).
THEOREM StreamEndsOnce == Spec => []OneEnding
  <1>1. IInv => OneEnding
    BY EndFollows DEF IInv
  <1>2. QED
    BY <1>1, Invariant, PTL

\* The stop of a done frame is the plan or the question of the round that was
\* shown, or the limit of rounds that were all used (StreamChat).
THEOREM DoneIsTrue == Spec => []EndingIsTrue
  <1>1. IInv => EndingIsTrue
    BY RoundFollows DEF IInv
  <1>2. QED
    BY <1>1, Invariant, PTL

\* The LLM is called with one result for each earlier call, in order, and the
\* browser saw each call come and go (StreamChat's tool loop).
THEOREM ContextIsPaired == Spec => []RoundsArePaired
  <1>1. IInv => RoundsArePaired
    BY PairFollows DEF IInv
  <1>2. QED
    BY <1>1, Invariant, PTL

\* However a failed write and the end of the context meet, at most one LLM call or
\* tool run begins in vain (emit, safeEmit, the checks of ctx in StreamChat).
THEOREM LateWorkIsLittle == Spec => []LittleLateWork
  <1>1. IInv => LittleLateWork
    BY DEF IInv, LateInv
  <1>2. QED
    BY <1>1, Invariant, PTL

=============================================================================

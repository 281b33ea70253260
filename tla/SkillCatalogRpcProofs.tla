------------------------ MODULE SkillCatalogRpcProofs ------------------------
(***************************************************************************)
(* The safety of probe_skill_catalog for every deadline, kill latency and  *)
(* number of lines, and whatever the app-server does.                      *)
(***************************************************************************)
EXTENDS SkillCatalogRpc, SequenceTheorems, TLAPS

FirstAnswer == [id |-> 1, body |-> "result"]
SecondAnswer == [id |-> 2, body |-> "result"]

\* The server exists exactly from the spawn to the end, where it is reaped.
ServerInv ==
  /\ pc \in {"cwd", "spawn"} => server = "absent"
  /\ pc \in {"send", "check", "recv", "select", "cleanup", "wait"}
       => server \in {"running", "zombie"}
  /\ ServerReaped

\* Until the kill the clock is held by the shared deadline, and after it by the
\* time the kernel takes.
TimeInv ==
  /\ pc \notin {"wait", "done"} => now <= Deadline
  /\ pc = "wait" => now <= wake /\ wake <= Deadline + KillLatency
  /\ SharedDeadline

\* A result line answers its request; the client asks for the second answer only
\* with the first one in hand, and selects or reports only with both.
AnswerInv ==
  /\ \A k \in 1..Len(lines) : lines[k].body = "result" => lines[k].id \in answered
  /\ pc \in {"cwd", "spawn"} => awaited = 1
  /\ awaited = 1 => taken = << >>
  /\ awaited = 2 /\ pc \in {"send", "check", "recv"} =>
       taken = << FirstAnswer >> /\ 1 \in answered
  /\ pc = "select" \/ outcome = "catalog" =>
       taken = << FirstAnswer, SecondAnswer >> /\ answered = {1, 2}
  /\ outcome = "catalog" => pc \in {"cleanup", "wait", "done"}

IInv == TypeOK /\ ServerInv /\ TimeInv /\ AnswerInv

LEMMA InitIInv == Init => IInv
  <1> SUFFICES ASSUME Init PROVE IInv
    OBVIOUS
  <1>1. TypeOK
    <2>1. lines \in Seq(Line) /\ Len(lines) = 0
      BY EmptySeq DEF Init
    <2>2. delivered \in 0..Len(lines) /\ taken \in Seq(Line)
      BY <2>1, EmptySeq DEF Init
    <2>3. held \in BOOLEAN /\ atEof \in BOOLEAN /\ answered \in SUBSET {1, 2}
      BY DEF Init
    <2>4. /\ now \in Nat /\ wake \in Nat /\ asked \in 0..2 /\ awaited \in {1, 2}
          /\ server = "absent" /\ pc = "cwd" /\ outcome = "pending"
      BY DEF Init
    <2> QED
      BY <2>1, <2>2, <2>3, <2>4 DEF TypeOK, Outcomes
  <1>2. ServerInv /\ TimeInv
    BY RpcAssumption DEF Init, ServerInv, ServerReaped, TimeInv, SharedDeadline
  <1>3. AnswerInv
    BY DEF Init, AnswerInv
  <1> QED
    BY <1>1, <1>2, <1>3 DEF IInv

\* A second line after the first.
LEMMA AppendToOne ==
  ASSUME NEW a, NEW b
  PROVE  Append(<< a >>, b) = << a, b >>
  <1> DEFINE S == {a, b}
  <1>1. << a >> \in Seq(S) /\ << a, b >> \in Seq(S) /\ b \in S
    OBVIOUS
  <1>2. Len(<< a >>) = 1 /\ Len(<< a, b >>) = 2
    OBVIOUS
  <1> HIDE DEF S
  <1>3. /\ Append(<< a >>, b) \in Seq(S)
        /\ Len(Append(<< a >>, b)) = 2
        /\ Append(<< a >>, b)[1] = << a >>[1]
        /\ Append(<< a >>, b)[2] = b
    BY <1>1, <1>2, AppendProperties
  <1>4. \A i \in 1..2 : Append(<< a >>, b)[i] = << a, b >>[i]
    BY <1>3
  <1> QED
    BY <1>1, <1>2, <1>3, <1>4, SeqEqual

\* A line that the server writes is the last of its lines, and nothing before it
\* changes.
LEMMA EmitAppends ==
  ASSUME TypeOK, NEW line \in Line, Emit(line)
  PROVE  /\ lines' \in Seq(Line)
         /\ Len(lines') = Len(lines) + 1
         /\ \A k \in 1..Len(lines) : lines'[k] = lines[k]
         /\ lines'[Len(lines')] = line
  BY AppendProperties DEF Emit, TypeOK

\* The line that the client receives is the first of those it has not received,
\* and leaves the others in their order.
LEMMA ReceiveTakesHead ==
  ASSUME TypeOK, Receive
  PROVE  /\ pc = "recv"
         /\ NextLine \in Line /\ NextLine = lines[1] /\ 1 \in 1..Len(lines)
         /\ lines' \in Seq(Line)
         /\ Len(lines') = Len(lines) - 1
         /\ \A k \in 1..Len(lines') : lines'[k] = lines[k + 1]
         /\ delivered' \in 0..Len(lines')
  <1>1. lines \in Seq(Line) /\ Len(lines) \in Nat /\ delivered \in 0..Len(lines)
    BY LenProperties DEF TypeOK
  <1>2. pc = "recv" /\ delivered > 0 /\ lines' = Tail(lines) /\ delivered' = delivered - 1
    BY DEF Receive
  <1>3. lines # << >> /\ 1 \in 1..Len(lines)
    BY <1>1, <1>2, EmptySeq
  <1>4. /\ Head(lines) \in Line /\ Head(lines) = lines[1]
        /\ Tail(lines) \in Seq(Line)
        /\ Len(Tail(lines)) = Len(lines) - 1
        /\ \A k \in 1..Len(Tail(lines)) : Tail(lines)[k] = lines[k + 1]
    BY <1>1, <1>3, HeadTailProperties, ElementOfSeq
  <1> QED
    BY <1>1, <1>2, <1>3, <1>4 DEF NextLine

\* What the client has not received still answers its requests.
LEMMA ReceiveKeepsAnswers ==
  ASSUME IInv, Receive, UNCHANGED answered
  PROVE  \A k \in 1..Len(lines') : lines'[k].body = "result" => lines'[k].id \in answered'
  <1> SUFFICES ASSUME NEW k \in 1..Len(lines'), lines'[k].body = "result"
               PROVE  lines'[k].id \in answered'
    OBVIOUS
  <1>1. Len(lines) \in Nat /\ Len(lines') = Len(lines) - 1 /\ lines'[k] = lines[k + 1]
    BY ReceiveTakesHead, LenProperties DEF IInv, TypeOK
  <1>2. k + 1 \in 1..Len(lines)
    BY <1>1
  <1> QED
    BY <1>1, <1>2 DEF IInv, AnswerInv

\* Emitting a line keeps the invariant when a result comes from the request it
\* answers.
LEMMA EmitStep ==
  ASSUME IInv, NEW line \in Line, Emit(line),
         answered \subseteq answered', answered' \in SUBSET {1, 2},
         line.body = "result" => line.id \in answered'
  PROVE  IInv'
  <1>1. /\ lines' \in Seq(Line)
        /\ Len(lines') = Len(lines) + 1
        /\ \A k \in 1..Len(lines) : lines'[k] = lines[k]
        /\ lines'[Len(lines')] = line
    BY EmitAppends DEF IInv
  <1>2. UNCHANGED <<now, server, held, delivered, atEof, asked, pc, wake, awaited, taken, outcome>>
    BY DEF Emit, clientVars
  <1>3. Len(lines) \in Nat
    BY LenProperties DEF IInv, TypeOK
  <1>4. TypeOK'
    BY <1>1, <1>2, <1>3 DEF IInv, TypeOK
  <1>5. ServerInv' /\ TimeInv'
    BY <1>2 DEF IInv, ServerInv, ServerReaped, TimeInv, SharedDeadline
  <1>8. ASSUME NEW k \in 1..Len(lines'), lines'[k].body = "result"
        PROVE  lines'[k].id \in answered'
    <2>1. CASE k \in 1..Len(lines)
      BY <1>1, <1>8, <2>1 DEF IInv, AnswerInv
    <2>2. CASE k = Len(lines')
      BY <1>1, <1>8, <2>2
    <2> QED
      BY <1>1, <1>3, <2>1, <2>2
  <1>9. AnswerInv'
    BY <1>2, <1>8 DEF IInv, AnswerInv
  <1> QED
    BY <1>4, <1>5, <1>9 DEF IInv

\* A result of the client keeps the invariant, when a catalog comes from select.
LEMMA ConcludeStep ==
  ASSUME IInv, NEW kind \in Outcomes, Conclude(kind),
         pc \in {"send", "check", "recv", "select"},
         Receive \/ UNCHANGED inbox,
         kind = "catalog" => pc = "select"
  PROVE  IInv'
  <1>1. /\ outcome' = kind /\ pc' = "cleanup"
        /\ UNCHANGED <<now, server, answered, held, atEof, asked, wake, awaited, taken>>
    BY DEF Conclude, serverVars
  <1>2. /\ lines' \in Seq(Line) /\ delivered' \in 0..Len(lines')
        /\ \A k \in 1..Len(lines') : lines'[k].body = "result" => lines'[k].id \in answered'
    <2>1. CASE Receive
      BY <1>1, <2>1, ReceiveTakesHead, ReceiveKeepsAnswers DEF IInv
    <2>2. CASE UNCHANGED inbox
      BY <1>1, <2>2 DEF inbox, IInv, TypeOK, AnswerInv
    <2> QED
      BY <2>1, <2>2
  <1>3. TypeOK'
    BY <1>1, <1>2 DEF IInv, TypeOK
  <1>4. ServerInv' /\ TimeInv'
    BY <1>1 DEF IInv, ServerInv, ServerReaped, TimeInv, SharedDeadline
  <1>5. AnswerInv'
    BY <1>1, <1>2 DEF IInv, AnswerInv
  <1> QED
    BY <1>3, <1>4, <1>5 DEF IInv

\* The invariant is inductive.
LEMMA StepIInv == IInv /\ [Next]_vars => IInv'
  <1> SUFFICES ASSUME IInv, [Next]_vars PROVE IInv'
    OBVIOUS
  <1>0. /\ now \in Nat /\ wake \in Nat
        /\ Len(lines) \in Nat /\ delivered \in 0..Len(lines)
    BY LenProperties DEF IInv, TypeOK
  <1>1. CASE Tick
    <2>1. /\ now' = now + 1
          /\ UNCHANGED <<server, answered, lines, held, delivered, atEof, asked, pc, wake, awaited,
                         taken, outcome>>
      BY <1>1 DEF Tick, serverVars, inbox, clientVars
    <2>2. \/ pc \in {"check", "recv"} /\ now < Deadline
          \/ pc = "wait" /\ now < wake
      BY <1>0, <1>1, RpcAssumption DEF Tick, Due, Expired
    <2>3. TypeOK'
      BY <2>1 DEF IInv, TypeOK
    <2>4. TimeInv'
      BY <1>0, <2>1, <2>2, RpcAssumption DEF IInv, TimeInv, SharedDeadline
    <2>5. ServerInv' /\ AnswerInv'
      BY <2>1 DEF IInv, ServerInv, ServerReaped, AnswerInv
    <2> QED
      BY <2>3, <2>4, <2>5 DEF IInv
  \* Steps of the client that move it on and change at most the server's state,
  \* what was asked and wake.
  <1>2. ASSUME CurrentDir \/ Spawn \/ Send \/ TimeLeft \/ KillServer \/ Reap
        PROVE  IInv'
    <2>1. UNCHANGED <<now, answered, lines, delivered, atEof, awaited, taken, outcome>>
      BY <1>2 DEF CurrentDir, Spawn, Send, TimeLeft, KillServer, Reap, serverVars, inbox
    <2>2. TypeOK'
      <3>1. asked' \in 0..2 /\ wake' \in Nat
        BY <1>0, <1>2, RpcAssumption
        DEF IInv, TypeOK, CurrentDir, Spawn, Send, TimeLeft, KillServer, Reap
      <3>2. held' \in BOOLEAN /\ atEof' \in BOOLEAN
        BY <1>2
        DEF IInv, TypeOK, CurrentDir, Spawn, Send, TimeLeft, KillServer, Reap, serverVars
      <3>3. /\ server' \in {"absent", "running", "zombie", "reaped"}
            /\ pc' \in {"spawn", "send", "check", "recv", "wait", "done"}
        BY <1>2
        DEF IInv, TypeOK, CurrentDir, Spawn, Send, TimeLeft, KillServer, Reap, serverVars
      <3> QED
        BY <2>1, <3>1, <3>2, <3>3 DEF IInv, TypeOK
    <2>3. ServerInv'
      BY <1>2
      DEF IInv, ServerInv, ServerReaped, CurrentDir, Spawn, Send, TimeLeft, KillServer, Reap,
          serverVars
    <2>4. TimeInv'
      BY <1>0, <1>2, <2>1, RpcAssumption
      DEF IInv, TimeInv, SharedDeadline, CurrentDir, Spawn, Send, TimeLeft, KillServer, Reap
    <2>5. AnswerInv'
      BY <1>2, <2>1
      DEF IInv, AnswerInv, CurrentDir, Spawn, Send, TimeLeft,
          KillServer, Reap
    <2> QED
      BY <2>2, <2>3, <2>4, <2>5 DEF IInv
  <1>3. CASE CurrentDirFails \/ SpawnFails
    <2>1. PICK kind \in {"notFound", "permissionDenied", "otherIo"} : FailEarly(kind)
      BY <1>3 DEF CurrentDirFails, SpawnFails
    <2>2. pc \in {"cwd", "spawn"}
      BY <1>3 DEF CurrentDirFails, SpawnFails
    <2>3. /\ outcome' = kind /\ pc' = "done"
          /\ UNCHANGED <<now, server, answered, lines, held, delivered, atEof, asked, wake, awaited,
                         taken>>
      BY <2>1 DEF FailEarly, serverVars, inbox
    <2>4. TypeOK'
      BY <2>3 DEF IInv, TypeOK, Outcomes
    <2>5. ServerInv' /\ TimeInv'
      BY <2>2, <2>3 DEF IInv, ServerInv, ServerReaped, TimeInv, SharedDeadline
    <2>6. AnswerInv'
      BY <2>3 DEF IInv, AnswerInv
    <2> QED
      BY <2>4, <2>5, <2>6 DEF IInv
  <1>4. CASE SendFails
    BY <1>0, <1>4, ConcludeStep DEF SendFails, Outcomes
  <1>5. CASE TimeOut
    BY <1>0, <1>5, ConcludeStep DEF TimeOut, RemainingIsZero, Outcomes
  <1>6. CASE Eof
    BY <1>0, <1>6, ConcludeStep DEF Eof, Outcomes
  <1>7. CASE Select
    BY <1>0, <1>7, ConcludeStep DEF Select, Outcomes
  <1>8. CASE ReceiveBad
    BY <1>0, <1>8, ConcludeStep DEF ReceiveBad, Receive, Outcomes
  <1>9. CASE ReceiveOther
    <2>1. /\ Receive /\ pc' = "check"
          /\ UNCHANGED <<now, server, answered, held, atEof, asked, wake, awaited, taken, outcome>>
      BY <1>9 DEF ReceiveOther, serverVars
    <2>2. TypeOK'
      BY <2>1, ReceiveTakesHead DEF IInv, TypeOK
    <2>3. ServerInv' /\ TimeInv'
      BY <2>1 DEF IInv, ServerInv, ServerReaped, TimeInv, SharedDeadline, Receive
    <2>4. AnswerInv'
      BY <2>1, ReceiveKeepsAnswers DEF IInv, AnswerInv, Receive
    <2> QED
      BY <2>2, <2>3, <2>4 DEF IInv
  <1>10. CASE ReceiveResult
    <2>1. /\ Receive /\ pc = "recv" /\ taken' = Append(taken, NextLine)
          /\ UNCHANGED <<now, server, answered, held, atEof, asked, wake, outcome>>
      BY <1>10 DEF ReceiveResult, Receive, serverVars
    <2>2. \/ awaited = 1 /\ awaited' = 2 /\ pc' = "send"
          \/ awaited = 2 /\ awaited' = 2 /\ pc' = "select"
      BY <1>10 DEF ReceiveResult, IInv, TypeOK
    <2>3. NextLine = [id |-> awaited, body |-> "result"] /\ awaited \in answered
      <3>1. NextLine \in Line /\ NextLine = lines[1] /\ 1 \in 1..Len(lines)
        BY <2>1, ReceiveTakesHead DEF IInv
      <3>2. NextLine.body = "result" /\ NextLine.id = awaited
        BY <1>10 DEF ReceiveResult, Skips, IsResult
      <3> QED
        BY <3>1, <3>2 DEF Line, IInv, AnswerInv
    <2>4. TypeOK'
      <3>1. taken' \in Seq(Line)
        BY <2>1, ReceiveTakesHead, AppendProperties DEF IInv, TypeOK
      <3> QED
        BY <2>1, <2>2, <3>1, ReceiveTakesHead DEF IInv, TypeOK
    <2>5. ServerInv' /\ TimeInv'
      BY <2>1, <2>2 DEF IInv, ServerInv, ServerReaped, TimeInv, SharedDeadline
    <2>6. outcome # "catalog"
      BY <2>1 DEF IInv, AnswerInv
    <2>7. CASE awaited = 1
      <3>1. taken' = << FirstAnswer >>
        BY <2>1, <2>3, <2>7 DEF IInv, AnswerInv, FirstAnswer
      <3> QED
        BY <2>1, <2>2, <2>3, <2>4, <2>5, <2>6, <2>7, <3>1, ReceiveKeepsAnswers
        DEF IInv, AnswerInv
    <2>8. CASE awaited = 2
      <3>1. taken' = << FirstAnswer, SecondAnswer >>
        <4>1. taken = << FirstAnswer >> /\ NextLine = SecondAnswer
          BY <2>1, <2>3, <2>8 DEF IInv, AnswerInv, SecondAnswer
        <4> QED
          BY <2>1, <4>1, AppendToOne
      <3>2. answered = {1, 2}
        BY <2>1, <2>3, <2>8 DEF IInv, AnswerInv, TypeOK
      <3> QED
        BY <2>1, <2>2, <2>4, <2>5, <2>6, <2>8, <3>1, <3>2, ReceiveKeepsAnswers
        DEF IInv, AnswerInv
    <2> QED
      BY <2>2, <2>7, <2>8
  <1>11. ASSUME NEW i \in {1, 2}, NEW body \in {"result", "badResult", "error", "none"},
                Answer(i, body)
         PROVE  IInv'
    BY <1>11, EmitStep DEF Answer, Line, Bodies, IInv, TypeOK
  <1>12. ASSUME NEW i \in 0..2, Chatter(i) PROVE IInv'
    BY <1>12, EmitStep DEF Chatter, Line, Bodies, IInv, TypeOK
  <1>13. CASE Garbage
    BY <1>13, EmitStep DEF Garbage, Line, Bodies, IInv, TypeOK
  \* The server dies or its stdout closes: only the client's Reap waits for it.
  <1>14. ASSUME NEW keptOpen \in BOOLEAN, ServerExits(keptOpen) \/ DescendantCloses
         PROVE  IInv'
    <2>1. /\ UNCHANGED <<now, answered, lines, delivered, atEof, asked, pc, wake, awaited, taken,
                         outcome>>
          /\ held' \in BOOLEAN
          /\ \/ server = "running" /\ server' = "zombie"
             \/ server' = server
      BY <1>14 DEF ServerExits, DescendantCloses, inbox, clientVars
    <2>2. TypeOK' /\ ServerInv' /\ TimeInv'
      BY <2>1 DEF IInv, TypeOK, ServerInv, ServerReaped, TimeInv, SharedDeadline
    <2>3. AnswerInv'
      BY <2>1 DEF IInv, AnswerInv
    <2> QED
      BY <2>2, <2>3 DEF IInv
  <1>15. ASSUME Deliver \/ ReaderEnds \/ UNCHANGED vars PROVE IInv'
    <2>1. /\ UNCHANGED <<now, server, answered, lines, held, asked, pc, wake, awaited, taken,
                         outcome>>
          /\ delivered' \in delivered..Len(lines)
          /\ atEof' \in BOOLEAN
      <3>1. CASE Deliver
        BY <1>0, <3>1 DEF IInv, TypeOK, Deliver, serverVars, clientVars
      <3>2. CASE ReaderEnds
        BY <1>0, <3>2 DEF ReaderEnds, serverVars, inbox, clientVars
      <3>3. CASE UNCHANGED vars
        BY <1>0, <3>3 DEF IInv, TypeOK, vars, serverVars, inbox, clientVars
      <3> QED
        BY <1>15, <3>1, <3>2, <3>3
    <2>2. TypeOK' /\ ServerInv' /\ TimeInv'
      BY <1>0, <2>1 DEF IInv, TypeOK, ServerInv, ServerReaped, TimeInv, SharedDeadline
    <2>3. AnswerInv'
      BY <2>1 DEF IInv, AnswerInv
    <2> QED
      BY <2>2, <2>3 DEF IInv
  <1> QED
    BY <1>1, <1>2, <1>3, <1>4, <1>5, <1>6, <1>7, <1>8, <1>9, <1>10, <1>11, <1>12, <1>13, <1>14, <1>15
    DEF Next, Client, Server, KillLands

LEMMA SpecIInv == Spec => []IInv
  BY InitIInv, StepIInv, PTL DEF Spec

\* The variables of the probe keep their types.
THEOREM TypeCorrect == Spec => []TypeOK
  BY SpecIInv, PTL DEF IInv

\* A reported catalog rests on the server's answers to both requests, in their
\* order: no notification, refusal or request of the server passes for one.
THEOREM CatalogFromAnswers == Spec => []CatalogIsAnswered
  <1>1. IInv => CatalogIsAnswered
    BY DEF IInv, AnswerInv, CatalogIsAnswered, FirstAnswer, SecondAnswer
  <1> QED
    BY <1>1, SpecIInv, PTL

\* The two requests together take at most the one deadline, and the kill.
THEOREM OneDeadline == Spec => []SharedDeadline
  BY SpecIInv, PTL DEF IInv, TimeInv

\* Every way out of the probe leaves no app-server behind.
THEOREM NoServerLeft == Spec => []ServerReaped
  BY SpecIInv, PTL DEF IInv, ServerInv
=============================================================================

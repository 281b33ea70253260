------------------------ MODULE BoundedProcessProofs ------------------------
(***************************************************************************)
(* The safety of run_bounded for every timeout, grace period, poll         *)
(* interval, kill latency, pipe capacity and set of descendants.           *)
(***************************************************************************)
EXTENDS BoundedProcess, TLAPS

\* A reader that reports the end of its stream has sent everything and left no
\* writer behind; a stream counts as complete only when the supervisor has taken
\* all of it from such a reader.
FlowInv ==
  \A s \in Streams :
    /\ reader[s] = "finished" => piped[s] = 0 /\ holds[s] = {}
    /\ complete[s] => reader[s] = "finished" /\ queued[s] = 0

\* The call has a result exactly when it has returned, and before the spawn
\* there is neither a child nor a reader.
StartInv ==
  /\ result = "none" <=> pc # "done"
  /\ pc = "spawn" => child = "absent" /\ \A s \in Streams : reader[s] = "idle"

\* The supervisor reaches the drain only with the child reaped, and a child
\* that its kill ended leaves timed_out set.
ReapInv ==
  /\ pc \in {"check", "recv"} => child = "reaped"
  /\ result \in {"ok", "readError"} => child = "reaped"
  /\ child \in {"zombie", "reaped"} => exit \in {"own", "killed"}
  /\ exit = "killed" => pc = "wait" \/ timedOut \/ result = "superviseError"
  /\ pc \in {"spawn", "poll", "elapsed", "sleep"} => ~timedOut

\* The clock never passes the instant at which the supervisor acts next.
TimeInv ==
  /\ pc \in {"spawn", "poll", "elapsed"} => now <= Timeout
  /\ pc = "sleep" => now <= wake /\ wake <= Timeout
  /\ pc = "wait" => now <= wake /\ wake <= Timeout + KillLatency
  /\ pc \in {"check", "recv"} =>
       /\ now <= wake
       /\ drainFrom + Grace <= wake
       /\ cur = "stdout" => wake <= Timeout + KillLatency + Grace
       /\ cur = "stderr" => wake <= Timeout + KillLatency + 2 * Grace

\* A successful call either says timed_out or completed both streams.
ResultInv ==
  result = "ok" => timedOut \/ \A s \in Streams : complete[s]

IInv ==
  /\ TypeOK
  /\ FlowInv
  /\ StartInv
  /\ ReapInv
  /\ TimeInv
  /\ BoundedDuration
  /\ ResultInv

LEMMA InitIInv == Init => IInv
  <1> SUFFICES ASSUME Init PROVE IInv
    OBVIOUS
  <1>1. TypeOK
    <2>1. 0 \in 0..PipeCapacity /\ 0 \in 0..MaxQueued
      BY DataAssumption
    <2> QED
      BY <2>1 DEF Init, TypeOK, Streams
  <1>2. FlowInv /\ StartInv /\ ReapInv /\ ResultInv
    BY DEF Init, FlowInv, StartInv, ReapInv, ResultInv
  <1>3. TimeInv /\ BoundedDuration
    BY TimeAssumption DEF Init, TimeInv, BoundedDuration
  <1> QED
    BY <1>1, <1>2, <1>3 DEF IInv

\* A drain that opens has a deadline.
LEMMA OpenDrainType ==
  ASSUME TypeOK, NEW s \in Streams, NEW killed, OpenDrain(s, killed)
  PROVE  cur' \in Streams /\ drainFrom' \in Nat /\ wake' \in Nat /\ pc' = "check"
  BY TimeAssumption DEF TypeOK, OpenDrain, DrainDeadline, Greater

LEMMA EndDrainType ==
  ASSUME TypeOK, NEW isComplete \in BOOLEAN, EndDrain(isComplete)
  PROVE  TypeOK'
  <1>1. complete' \in [Streams -> BOOLEAN]
    BY DEF TypeOK, EndDrain
  <1>2. CASE cur = "stdout"
    <2>1. OpenDrain("stderr", timedOut) /\ UNCHANGED <<timedOut, result>>
      BY <1>2 DEF EndDrain
    <2> QED
      BY <1>1, <2>1, OpenDrainType
      DEF TypeOK, EndDrain, childVars, dataVars, Streams
  <1>3. CASE cur # "stdout"
    <2>1. Return
      BY <1>3 DEF EndDrain
    <2>2. timedOut' \in BOOLEAN
      BY <2>1, Zenon DEF Return
    <2> QED
      BY <1>1, <2>1, <2>2 DEF TypeOK, EndDrain, Return, childVars, dataVars
  <1> QED
    BY <1>2, <1>3

\* A reader moves bytes from its pipe to its channel and changes no other stream.
LEMMA ForwardType ==
  ASSUME TypeOK, NEW s \in Streams, NEW n \in 1..piped[s], Forward(s, n)
  PROVE  /\ piped' \in [Streams -> 0..PipeCapacity]
         /\ queued' \in [Streams -> 0..MaxQueued]
         /\ \A r \in Streams \ {s} : piped'[r] = piped[r] /\ queued'[r] = queued[r]
  <1>1. /\ piped \in [Streams -> 0..PipeCapacity]
        /\ queued \in [Streams -> 0..MaxQueued]
        /\ PipeCapacity \in Nat /\ MaxQueued \in Nat
        /\ piped' = [piped EXCEPT ![s] = @ - n]
        /\ queued' = [queued EXCEPT ![s] = Lesser(@ + n, MaxQueued)]
    BY DataAssumption DEF TypeOK, Forward
  <1>2. piped[s] - n \in 0..PipeCapacity
    BY <1>1
  <1>3. Lesser(queued[s] + n, MaxQueued) \in 0..MaxQueued
    BY <1>1 DEF Lesser
  <1> QED
    BY <1>1, <1>2, <1>3

\* Every step keeps every variable in its type.
LEMMA TypeStep == TypeOK /\ [Next]_vars => TypeOK'
  <1> SUFFICES ASSUME TypeOK, [Next]_vars PROVE TypeOK'
    OBVIOUS
  <1> USE TimeAssumption DEF TypeOK, childVars, dataVars, runVars, callVars
  <1>1. CASE Tick
    BY <1>1 DEF Tick
  <1>2. CASE Spawn
    BY <1>2 DEF Spawn, Processes
  <1>3. CASE SpawnFails
    BY <1>3 DEF SpawnFails, Fail
  <1>4. CASE PollRunning
    BY <1>4 DEF PollRunning
  <1>5. CASE Sleep
    BY <1>5 DEF Sleep, Lesser
  <1>6. CASE WakeUp
    BY <1>6 DEF WakeUp
  <1>7. CASE Kill
    BY <1>7 DEF Kill
  <1>8. CASE SuperviseFails
    BY <1>8 DEF SuperviseFails, Fail
  <1>9. CASE Reap
    <2>1. (pc = "wait") \in BOOLEAN
      OBVIOUS
    <2>2. timedOut' \in BOOLEAN
      BY <1>9, <2>1, Zenon DEF Reap
    <2>3. OpenDrain("stdout", pc = "wait")
      BY <1>9 DEF Reap
    <2> QED
      BY <1>9, <2>2, <2>3, OpenDrainType DEF Reap, Streams
  <1>10. CASE GiveUp
    BY <1>10, EndDrainType DEF GiveUp, RemainingIsZero
  <1>11. CASE EnterRecv
    BY <1>11 DEF EnterRecv, RemainingIsZero
  <1>12. CASE RecvChunk
    <2>1. PICK n \in 1..queued[cur] : queued' = [queued EXCEPT ![cur] = @ - n]
      BY <1>12, Zenon DEF RecvChunk
    <2>2. queued[cur] - n \in 0..MaxQueued
      BY <2>1, DataAssumption
    <2>3. queued' \in [Streams -> 0..MaxQueued]
      BY <2>1, <2>2
    <2> QED
      BY <1>12, <2>3 DEF RecvChunk
  <1>13. CASE RecvFinished
    BY <1>13, EndDrainType DEF RecvFinished
  <1>14. CASE RecvError
    BY <1>14 DEF RecvError, Fail, Streams
  <1>15. CASE RecvTimeout
    BY <1>15, EndDrainType DEF RecvTimeout
  <1>16. CASE \E p \in Processes, s \in Streams : Write(p, s)
    <2>1. PICK p \in Processes, s \in Streams : Write(p, s)
      BY <1>16
    <2>2. piped[s] + 1 \in 0..PipeCapacity
      BY <2>1, DataAssumption DEF Write
    <2>3. piped' \in [Streams -> 0..PipeCapacity]
      BY <2>1, <2>2 DEF Write
    <2> QED
      BY <2>1, <2>3 DEF Write, Processes
  <1>17. CASE \E p \in Processes, s \in Streams : CloseEnd(p, s)
    BY <1>17 DEF CloseEnd, Processes
  <1>18. CASE \E d \in Descendants : Fork(d)
    BY <1>18 DEF Fork, Processes
  <1>19. CASE ChildExits
    BY <1>19 DEF ChildExits, ChildEnds, Processes
  <1>20. CASE KillLands
    BY <1>20 DEF KillLands, ChildEnds, Processes
  <1>21. CASE \E s \in Streams : ReaderChunk(s)
    <2>1. PICK s \in Streams : ReaderChunk(s)
      BY <1>21
    <2>2. /\ piped' \in [Streams -> 0..PipeCapacity]
          /\ queued' \in [Streams -> 0..MaxQueued]
      <3>1. CASE pc = "done"
        BY <2>1, <3>1 DEF ReaderChunk
      <3>2. CASE pc # "done"
        BY <2>1, <3>2, ForwardType DEF ReaderChunk
      <3> QED
        BY <3>1, <3>2
    <2> QED
      BY <2>1, <2>2 DEF ReaderChunk, Processes
  <1>22. CASE \E s \in Streams : ReaderFinishes(s)
    BY <1>22 DEF ReaderFinishes, Processes
  <1>23. CASE \E s \in Streams : ReaderBreaks(s, "failed") \/ ReaderBreaks(s, "panicked")
    BY <1>23 DEF ReaderBreaks, Processes
  <1>24. CASE UNCHANGED vars
    BY <1>24 DEF vars
  <1> QED
    BY <1>1, <1>2, <1>3, <1>4, <1>5, <1>6, <1>7, <1>8, <1>9, <1>10, <1>11, <1>12, <1>13, <1>14, <1>15, <1>16, <1>17, <1>18, <1>19, <1>20, <1>21, <1>22, <1>23, <1>24
    DEF Next, Supervisor, Environment, Reader

\* A stream's drain that ends keeps the invariant, provided that it is called
\* complete only when all of it was taken from a reader that finished.
LEMMA EndDrainStep ==
  ASSUME IInv, TypeOK', pc \in {"check", "recv"},
         NEW isComplete \in BOOLEAN, EndDrain(isComplete),
         isComplete => reader[cur] = "finished" /\ queued[cur] = 0
  PROVE  IInv'
  <1> USE TimeAssumption DEF TypeOK
  <1>1. complete' = [complete EXCEPT ![cur] = isComplete]
        /\ UNCHANGED <<now, child, exit, holds, piped, queued, reader>>
    BY DEF EndDrain, childVars, dataVars
  <1>2. FlowInv'
    BY <1>1 DEF IInv, FlowInv
  <1>3. CASE cur = "stdout"
    <2>1. OpenDrain("stderr", timedOut) /\ UNCHANGED <<timedOut, result>>
      BY <1>3 DEF EndDrain
    <2>2. StartInv' /\ ReapInv' /\ ResultInv'
      BY <1>1, <2>1 DEF IInv, StartInv, ReapInv, ResultInv, OpenDrain
    <2>3. TimeInv' /\ BoundedDuration'
      BY <1>1, <1>3, <2>1
      DEF IInv, TimeInv, BoundedDuration, OpenDrain, DrainDeadline, Greater
    <2> QED
      BY <1>2, <2>2, <2>3 DEF IInv
  <1>4. CASE cur = "stderr"
    <2>1. Return
      BY <1>4 DEF EndDrain
    <2>2. StartInv' /\ ReapInv'
      BY <1>1, <2>1 DEF IInv, StartInv, ReapInv, Return
    <2>3. TimeInv' /\ BoundedDuration'
      BY <1>1, <1>4, <2>1 DEF IInv, TimeInv, BoundedDuration, Return
    <2>4. ResultInv'
      BY <2>1 DEF ResultInv, Return
    <2> QED
      BY <1>2, <2>2, <2>3, <2>4 DEF IInv
  <1> QED
    BY <1>3, <1>4 DEF Streams, IInv

\* The invariant is inductive.
LEMMA StepIInv == IInv /\ [Next]_vars => IInv'
  <1> SUFFICES ASSUME IInv, [Next]_vars PROVE IInv'
    OBVIOUS
  <1>0. TypeOK'
    BY TypeStep DEF IInv
  <1> USE <1>0, TimeAssumption DEF TypeOK, childVars, dataVars, runVars, callVars, IInv, FlowInv, StartInv, ReapInv, TimeInv, BoundedDuration, ResultInv
  <1>1. CASE Tick
    <2>1. now' = now + 1 /\ ~Due /\ UNCHANGED <<childVars, dataVars, runVars>>
      BY <1>1 DEF Tick
    <2>2. pc \in {"sleep", "wait", "check", "recv"} /\ now < wake
      BY <2>1 DEF Due
    <2>3. TimeInv' /\ BoundedDuration'
      BY <2>1, <2>2 DEF Streams
    <2> QED
      BY <2>1, <2>3
  <1>2. CASE Spawn
    BY <1>2 DEF Spawn
  <1>3. CASE SpawnFails
    BY <1>3 DEF SpawnFails, Fail
  <1>4. CASE PollRunning
    BY <1>4 DEF PollRunning
  <1>5. CASE Sleep
    BY <1>5 DEF Sleep, Lesser
  <1>6. CASE WakeUp
    BY <1>6 DEF WakeUp
  <1>7. CASE Kill
    BY <1>7 DEF Kill
  <1>8. CASE SuperviseFails
    BY <1>8 DEF SuperviseFails, Fail
  <1>9. CASE Reap
    <2>1. /\ cur' = "stdout"
          /\ pc' = "check"
          /\ wake' = DrainDeadline(pc = "wait")
          /\ drainFrom' = now
          /\ timedOut' = (pc = "wait")
          /\ pc \in {"poll", "wait"}
          /\ child = "zombie"
          /\ child' = "reaped"
          /\ UNCHANGED <<now, exit, holds, dataVars, complete, result>>
      BY <1>9 DEF Reap, OpenDrain
    <2>2. TimeInv' /\ BoundedDuration'
      BY <2>1 DEF DrainDeadline, Greater
    <2>3. FlowInv' /\ StartInv' /\ ReapInv' /\ ResultInv'
      BY <2>1
    <2> QED
      BY <2>2, <2>3
  <1>10. CASE GiveUp
    BY <1>10, EndDrainStep DEF GiveUp, RemainingIsZero
  <1>11. CASE EnterRecv
    BY <1>11 DEF EnterRecv, RemainingIsZero
  <1>12. CASE RecvChunk
    BY <1>12 DEF RecvChunk
  <1>13. CASE RecvFinished
    BY <1>13, EndDrainStep DEF RecvFinished
  <1>14. CASE RecvError
    BY <1>14 DEF RecvError, Fail
  <1>15. CASE RecvTimeout
    BY <1>15, EndDrainStep DEF RecvTimeout
  <1>16. CASE \E p \in Processes, s \in Streams : Write(p, s)
    BY <1>16 DEF Write
  <1>17. CASE \E p \in Processes, s \in Streams : CloseEnd(p, s)
    BY <1>17 DEF CloseEnd
  <1>18. CASE \E d \in Descendants : Fork(d)
    BY <1>18 DEF Fork
  <1>19. CASE ChildExits
    BY <1>19 DEF ChildExits, ChildEnds
  <1>20. CASE KillLands
    BY <1>20 DEF KillLands, ChildEnds
  <1>21. CASE \E s \in Streams : ReaderChunk(s)
    <2>1. PICK s \in Streams : ReaderChunk(s)
      BY <1>21
    <2>2. /\ reader[s] = "reading" /\ reader'[s] # "finished"
          /\ UNCHANGED <<now, child, exit, holds, runVars>>
          /\ \A r \in Streams \ {s} :
               reader'[r] = reader[r] /\ piped'[r] = piped[r] /\ queued'[r] = queued[r]
      <3>1. CASE pc = "done"
        BY <2>1, <3>1 DEF ReaderChunk
      <3>2. CASE pc # "done"
        BY <2>1, <3>2, ForwardType DEF ReaderChunk
      <3> QED
        BY <3>1, <3>2
    <2>3. pc # "spawn"
      BY <2>2
    <2>4. FlowInv'
      BY <2>2
    <2>5. StartInv' /\ ReapInv' /\ TimeInv' /\ BoundedDuration' /\ ResultInv'
      BY <2>2, <2>3
    <2> QED
      BY <2>4, <2>5
  <1>22. CASE \E s \in Streams : ReaderFinishes(s)
    BY <1>22 DEF ReaderFinishes
  <1>23. CASE \E s \in Streams : ReaderBreaks(s, "failed") \/ ReaderBreaks(s, "panicked")
    <2>1. PICK s \in Streams :
            /\ reader[s] = "reading"
            /\ reader' \in {[reader EXCEPT ![s] = "failed"], [reader EXCEPT ![s] = "panicked"]}
            /\ UNCHANGED <<now, childVars, piped, queued, runVars>>
      BY <1>23 DEF ReaderBreaks
    <2>2. reader'[s] # "finished" /\ \A r \in Streams \ {s} : reader'[r] = reader[r]
      BY <2>1
    <2>3. FlowInv'
      BY <2>1, <2>2
    <2>4. StartInv' /\ ReapInv' /\ TimeInv' /\ BoundedDuration' /\ ResultInv'
      BY <2>1
    <2> QED
      BY <2>3, <2>4
  <1>24. CASE UNCHANGED vars
    BY <1>24 DEF vars
  <1> QED
    BY <1>1, <1>2, <1>3, <1>4, <1>5, <1>6, <1>7, <1>8, <1>9, <1>10, <1>11, <1>12, <1>13, <1>14, <1>15, <1>16, <1>17, <1>18, <1>19, <1>20, <1>21, <1>22, <1>23, <1>24
    DEF Next, Supervisor, Environment, Reader

LEMMA SpecIInv == Spec => []IInv
  BY InitIInv, StepIInv, PTL DEF Spec

\* The variables of run_bounded keep their types.
THEOREM TypeCorrect == Spec => []TypeOK
  BY SpecIInv, PTL DEF IInv

\* Output reported without timed_out is the whole output of the child, whatever
\* descendants, slow readers and late exits do.
THEOREM OutputIsComplete == Spec => []CompleteOutput
  <1>1. IInv => CompleteOutput
    <2> SUFFICES ASSUME IInv, result = "ok", ~timedOut
                 PROVE  /\ exit = "own"
                        /\ \A s \in Streams : holds[s] = {} /\ piped[s] = 0 /\ queued[s] = 0
      BY DEF CompleteOutput
    <2>1. pc = "done" /\ child = "reaped" /\ \A s \in Streams : complete[s]
      BY DEF IInv, TypeOK, StartInv, ReapInv, ResultInv
    <2>2. exit = "own"
      BY <2>1 DEF IInv, ReapInv
    <2>3. \A s \in Streams : holds[s] = {} /\ piped[s] = 0 /\ queued[s] = 0
      BY <2>1 DEF IInv, FlowInv
    <2> QED
      BY <2>2, <2>3
  <1> QED
    BY <1>1, SpecIInv, PTL

\* run_bounded returns within the timeout, the time a kill takes and one grace
\* period per stream.
THEOREM DurationIsBounded == Spec => []BoundedDuration
  BY SpecIInv, PTL DEF IInv

\* A call that read the child's status has reaped it, even when a reader fails.
THEOREM ChildIsReaped == Spec => []Reaped
  <1>1. IInv => Reaped
    BY DEF IInv, ReapInv, Reaped
  <1> QED
    BY <1>1, SpecIInv, PTL

\* No stream is abandoned before its own grace period has passed.
THEOREM WindowPerStream == Spec => EachStreamHasItsWindow
  <1>1. ASSUME IInv, [Next]_vars, NEW s \in Streams, Abandons(s)
        PROVE  now >= drainFrom + Grace
    <2>1. /\ pc \in {"check", "recv"}
          /\ result = "none"
          /\ now \in Int /\ wake \in Int /\ drainFrom \in Int
          /\ drainFrom + Grace <= wake
      BY <1>1 DEF IInv, StartInv, TimeInv, TypeOK, Abandons
    <2>2. ASSUME GiveUp \/ RecvTimeout PROVE now >= drainFrom + Grace
      <3>1. now >= wake
        BY <2>2 DEF GiveUp, RemainingIsZero, RecvTimeout
      <3> QED
        BY <2>1, <3>1, TimeAssumption
    <2>3. ~RecvFinished
      <3>1. complete \in [Streams -> BOOLEAN] /\ cur = s
        BY <1>1 DEF IInv, TypeOK, Abandons
      <3>2. RecvFinished => complete'[s]
        BY <3>1 DEF RecvFinished, EndDrain
      <3> QED
        BY <1>1, <3>2 DEF Abandons
    <2>4. ~(EnterRecv \/ RecvChunk \/ RecvError \/ SuperviseFails \/ Tick)
      BY <1>1, <2>1
      DEF Abandons, EnterRecv, RecvChunk, RecvError, SuperviseFails, Fail, Tick, runVars, callVars
    <2>5. ~(Spawn \/ SpawnFails \/ PollRunning \/ Sleep \/ WakeUp \/ Kill \/ Reap)
      BY <2>1 DEF Spawn, SpawnFails, PollRunning, Sleep, WakeUp, Kill, Reap
    <2>6. ~(Environment \/ \E r \in Streams : Reader(r))
      BY <1>1, <2>1
      DEF Abandons, Environment, Write, CloseEnd, Fork, ChildExits, KillLands, ChildEnds,
          Reader, ReaderChunk, ReaderFinishes, ReaderBreaks, runVars, callVars
    <2>7. ~UNCHANGED vars
      BY <1>1, <2>1 DEF Abandons, vars, runVars, callVars
    <2> QED
      BY <1>1, <2>2, <2>3, <2>4, <2>5, <2>6, <2>7 DEF Next, Supervisor
  <1>2. IInv /\ [Next]_vars
          => [\A s \in Streams : Abandons(s) => now >= drainFrom + Grace]_vars
    BY <1>1
  <1> QED
    BY <1>2, SpecIInv, PTL DEF Spec, EachStreamHasItsWindow
=============================================================================

--------------------------- MODULE BoundedProcess ---------------------------
(***************************************************************************)
(* run_bounded of crates/gr-inspect-core/src/process.rs: spawn a child     *)
(* with piped stdout and stderr, one reader thread per pipe feeding an     *)
(* mpsc channel, a supervisor that polls the child up to a timeout, kills  *)
(* it, and then drains the two channels one after the other, each under a  *)
(* deadline of its own.                                                    *)
(*                                                                         *)
(* Bytes are counted, never named: a pipe and the channel behind it are    *)
(* FIFO, so what is still on its way says what has arrived.  A holder of   *)
(* the write end of a stream may write for ever; only the backlog is kept: *)
(* the bytes in the pipe, and those its reader has queued in the channel   *)
(* and the supervisor has not taken.  Descendants of the child inherit the *)
(* write ends and may outlive it.                                          *)
(*                                                                         *)
(* Time is discrete.  It passes while the supervisor sleeps, waits for a   *)
(* killed child or is in the receive loop, output coming in or not; its    *)
(* other instructions take no time.  The child, its descendants and the    *)
(* reader threads run at any speed.                                        *)
(***************************************************************************)
EXTENDS Integers, FiniteSets

CONSTANTS
  Timeout,       \* the timeout argument
  PollInterval,  \* POLL_INTERVAL
  Grace,         \* OUTPUT_DRAIN_GRACE
  KillLatency,   \* the time the kernel may take to end a killed child
  Descendants,   \* processes the child may fork
  PipeCapacity,  \* bytes a pipe holds before its writers block
  MaxQueued      \* bound: bytes told apart in a channel; what is sent on top
                 \* of them counts as part of the last one

ASSUME TimeAssumption ==
  /\ Timeout \in Nat
  /\ PollInterval \in Nat \ {0}
  /\ Grace \in Nat \ {0}
  /\ KillLatency \in Nat

ASSUME DataAssumption ==
  /\ PipeCapacity \in Nat \ {0}
  /\ MaxQueued \in Nat \ {0}
  /\ "child" \notin Descendants

Streams == {"stdout", "stderr"}
Processes == {"child"} \cup Descendants

VARIABLES
  now,        \* time since started_at
  child,      \* "absent", "running", "zombie", "reaped"
  exit,       \* how the child ended: "none", "own", "killed"
  holds,      \* stream -> processes that hold its write end
  piped,      \* stream -> bytes in its pipe
  queued,     \* stream -> bytes in its channel, at most MaxQueued
  reader,     \* stream -> reader thread: "idle", "reading", "finished",
              \* "failed", "panicked", or "gone" once its receiver was dropped
  pc,         \* the supervisor: "spawn", "poll", "elapsed", "sleep", "wait",
              \* "check", "recv", "done"
  wake,       \* when the blocking call at pc returns at the latest
  cur,        \* the stream being drained
  drainFrom,  \* drain_started_at of the stream being drained
  complete,   \* stream -> DrainedStream::complete
  timedOut,   \* timed_out
  result      \* "none", "ok", "spawnError", "superviseError", "readError"

childVars == <<child, exit, holds>>
dataVars == <<piped, queued, reader>>
callVars == <<wake, cur, drainFrom, complete, timedOut, result>>
runVars == <<pc, callVars>>
vars == <<now, childVars, dataVars, runVars>>

TypeOK ==
  /\ now \in Nat
  /\ child \in {"absent", "running", "zombie", "reaped"}
  /\ exit \in {"none", "own", "killed"}
  /\ holds \in [Streams -> SUBSET Processes]
  /\ piped \in [Streams -> 0..PipeCapacity]
  /\ queued \in [Streams -> 0..MaxQueued]
  /\ reader \in [Streams -> {"idle", "reading", "finished", "failed", "panicked", "gone"}]
  /\ pc \in {"spawn", "poll", "elapsed", "sleep", "wait", "check", "recv", "done"}
  /\ wake \in Nat
  /\ cur \in Streams
  /\ drainFrom \in Nat
  /\ complete \in [Streams -> BOOLEAN]
  /\ timedOut \in BOOLEAN
  /\ result \in {"none", "ok", "spawnError", "superviseError", "readError"}

Init ==
  /\ now = 0
  /\ child = "absent"
  /\ exit = "none"
  /\ holds = [s \in Streams |-> {}]
  /\ piped = [s \in Streams |-> 0]
  /\ queued = [s \in Streams |-> 0]
  /\ reader = [s \in Streams |-> "idle"]
  /\ pc = "spawn"
  /\ wake = 0
  /\ cur = "stdout"
  /\ drainFrom = 0
  /\ complete = [s \in Streams |-> FALSE]
  /\ timedOut = FALSE
  /\ result = "none"

Lesser(a, b) == IF a <= b THEN a ELSE b
Greater(a, b) == IF a >= b THEN a ELSE b

-----------------------------------------------------------------------------
(* The child, its descendants and the kernel.                              *)

\* A writer puts one byte in the pipe; it blocks while the pipe is full.
Write(p, s) ==
  /\ p \in holds[s]
  /\ reader[s] = "reading"
  /\ piped[s] < PipeCapacity
  /\ piped' = [piped EXCEPT ![s] = @ + 1]
  /\ UNCHANGED <<now, childVars, queued, reader, runVars>>

\* A process closes (or, for a descendant, exits with) a write end.
CloseEnd(p, s) ==
  /\ p \in holds[s]
  /\ holds' = [holds EXCEPT ![s] = @ \ {p}]
  /\ UNCHANGED <<now, child, exit, dataVars, runVars>>

\* The child forks a descendant, which inherits the write ends it has.
Fork(d) ==
  /\ child = "running"
  /\ \A s \in Streams : d \notin holds[s]
  /\ \E s \in Streams : "child" \in holds[s]
  /\ holds' = [s \in Streams |->
                 IF "child" \in holds[s] THEN holds[s] \cup {d} ELSE holds[s]]
  /\ UNCHANGED <<now, child, exit, dataVars, runVars>>

ChildEnds(how) ==
  /\ child = "running"
  /\ child' = "zombie"
  /\ exit' = how
  /\ holds' = [s \in Streams |-> holds[s] \ {"child"}]
  /\ UNCHANGED <<now, dataVars, runVars>>

ChildExits == ChildEnds("own")

\* The kill takes effect.
KillLands == pc = "wait" /\ ChildEnds("killed")

-----------------------------------------------------------------------------
(* The reader threads: read_stream.  A send fails once run_bounded has     *)
(* returned and dropped the receivers; the thread then stops reading.      *)

\* The reader takes n bytes from the pipe and sends them.
Forward(s, n) ==
  /\ piped' = [piped EXCEPT ![s] = @ - n]
  /\ queued' = [queued EXCEPT ![s] = Lesser(@ + n, MaxQueued)]

ReaderChunk_OneAtATime(s) ==   \* mutant: stderr is read after stdout
  /\ s = "stdout" \/ reader["stdout"] # "reading"
  /\ reader[s] = "reading"
  /\ \E n \in 1..piped[s] : Forward(s, n)
  /\ UNCHANGED <<now, childVars, reader, runVars>>

ReaderChunk(s) ==
  /\ reader[s] = "reading"
  /\ piped[s] > 0
  /\ IF pc = "done"
     THEN reader' = [reader EXCEPT ![s] = "gone"] /\ UNCHANGED <<piped, queued>>
     ELSE (\E n \in 1..piped[s] : Forward(s, n)) /\ UNCHANGED reader
  /\ UNCHANGED <<now, childVars, runVars>>

\* End of file: the pipe is empty and nobody holds its write end.
ReaderFinishes(s) ==
  /\ reader[s] = "reading"
  /\ piped[s] = 0
  /\ holds[s] = {}
  /\ reader' = [reader EXCEPT ![s] = "finished"]
  /\ UNCHANGED <<now, childVars, piped, queued, runVars>>

\* read() fails, or the thread dies and its sender is dropped unsent.
ReaderBreaks(s, how) ==
  /\ reader[s] = "reading"
  /\ reader' = [reader EXCEPT ![s] = how]
  /\ UNCHANGED <<now, childVars, piped, queued, runVars>>

-----------------------------------------------------------------------------
(* The supervisor: run_bounded, drain_readers, receive_reader.             *)

Spawn ==
  /\ pc = "spawn"
  /\ child' = "running"
  /\ holds' = [s \in Streams |-> {"child"}]
  /\ reader' = [s \in Streams |-> "reading"]
  /\ pc' = "poll"
  /\ UNCHANGED <<now, exit, piped, queued, callVars>>

Fail(error) ==
  /\ result' = error
  /\ pc' = "done"
  /\ UNCHANGED <<now, childVars, dataVars, wake, cur, drainFrom, complete,
                 timedOut>>

SpawnFails == pc = "spawn" /\ Fail("spawnError")

\* try_wait finds the child running: the elapsed time is taken next.
PollRunning ==
  /\ pc = "poll"
  /\ child = "running"
  /\ pc' = "elapsed"
  /\ UNCHANGED <<now, childVars, dataVars, callVars>>

Sleep_FullInterval ==   \* mutant: poll_delay ignores the time left
  /\ pc = "elapsed"
  /\ now < Timeout
  /\ wake' = now + PollInterval
  /\ pc' = "sleep"
  /\ UNCHANGED <<now, childVars, dataVars, cur, drainFrom, complete, timedOut,
                 result>>

Sleep ==
  /\ pc = "elapsed"
  /\ now < Timeout
  /\ wake' = now + Lesser(PollInterval, Timeout - now)
  /\ pc' = "sleep"
  /\ UNCHANGED <<now, childVars, dataVars, cur, drainFrom, complete, timedOut,
                 result>>

WakeUp ==
  /\ pc = "sleep"
  /\ now >= wake
  /\ pc' = "poll"
  /\ UNCHANGED <<now, childVars, dataVars, callVars>>

Kill_NoWait ==   \* mutant: kill without wait
  /\ pc = "elapsed"
  /\ now >= Timeout
  /\ timedOut' = TRUE
  /\ cur' = "stdout"
  /\ drainFrom' = now
  /\ wake' = now + Grace
  /\ pc' = "check"
  /\ UNCHANGED <<now, childVars, dataVars, complete, result>>

\* The child may end by itself between try_wait and kill.
Kill ==
  /\ pc = "elapsed"
  /\ now >= Timeout
  /\ wake' = now + KillLatency
  /\ pc' = "wait"
  /\ UNCHANGED <<now, childVars, dataVars, cur, drainFrom, complete, timedOut,
                 result>>

\* try_wait, kill or wait returns an error: the child is left as it is.
SuperviseFails ==
  /\ \/ pc \in {"poll", "wait"}
     \/ pc = "elapsed" /\ now >= Timeout
  /\ Fail("superviseError")

\* output_drain_deadline for a drain that starts now.
DrainDeadline_Shared(killed) ==   \* mutant: one deadline for both streams
  IF pc \in {"check", "recv"} THEN wake ELSE Greater(Timeout, now + Grace)

DrainDeadline_TimeLeft(killed) ==   \* mutant: a duration, not an instant
  IF killed THEN Timeout - now ELSE Greater(Timeout - now, Grace)

DrainDeadline(killed) ==
  IF killed THEN now + Grace ELSE Greater(Timeout, now + Grace)

OpenDrain(s, killed) ==
  /\ cur' = s
  /\ drainFrom' = now
  /\ wake' = DrainDeadline(killed)
  /\ pc' = "check"

\* The child's status is collected, by try_wait or, after a kill, by wait.
Reap ==
  /\ pc \in {"poll", "wait"}
  /\ child = "zombie"
  /\ child' = "reaped"
  /\ timedOut' = (pc = "wait")
  /\ OpenDrain("stdout", pc = "wait")
  /\ UNCHANGED <<now, exit, holds, dataVars, complete, result>>

Return_KillOnly ==   \* mutant: only a kill counts as a timeout
  /\ result' = "ok"
  /\ pc' = "done"
  /\ UNCHANGED <<timedOut, wake, cur, drainFrom>>

Return ==
  /\ result' = "ok"
  /\ timedOut' = (timedOut \/ \E s \in Streams : ~complete'[s])
  /\ pc' = "done"
  /\ UNCHANGED <<wake, cur, drainFrom>>

\* receive_reader returns for the current stream.
EndDrain(isComplete) ==
  /\ complete' = [complete EXCEPT ![cur] = isComplete]
  /\ IF cur = "stdout"
     THEN OpenDrain("stderr", timedOut) /\ UNCHANGED <<timedOut, result>>
     ELSE Return
  /\ UNCHANGED <<now, childVars, dataVars>>

RemainingIsZero_Untested == FALSE   \* mutant: the loop only receives

\* remaining.is_zero() at the top of the receive loop.
RemainingIsZero == pc = "check" /\ now >= wake

\* With no time left the events that are queued are left there.
GiveUp == RemainingIsZero /\ EndDrain(FALSE)

EnterRecv ==
  /\ pc = "check"
  /\ ~RemainingIsZero
  /\ pc' = "recv"
  /\ UNCHANGED <<now, childVars, dataVars, callVars>>

RecvChunk ==
  /\ pc = "recv"
  /\ \E n \in 1..queued[cur] : queued' = [queued EXCEPT ![cur] = @ - n]
  /\ pc' = "check"
  /\ UNCHANGED <<now, childVars, piped, reader, callVars>>

RecvFinished ==
  /\ pc = "recv"
  /\ queued[cur] = 0
  /\ reader[cur] = "finished"
  /\ EndDrain(TRUE)

\* Finished(Err) or a disconnected channel.
RecvError ==
  /\ pc = "recv"
  /\ queued[cur] = 0
  /\ reader[cur] \in {"failed", "panicked"}
  /\ Fail("readError")

RecvTimeout ==
  /\ pc = "recv"
  /\ now >= wake
  /\ queued[cur] = 0
  /\ reader[cur] = "reading"
  /\ EndDrain(FALSE)

-----------------------------------------------------------------------------
\* The supervisor, or the kernel on its behalf, has something to do at once.
Due ==
  CASE pc \in {"sleep", "check", "recv"} -> now >= wake
    [] pc = "wait" -> now >= wake \/ child = "zombie"
    [] OTHER -> TRUE

\* Time stops mattering once the call has returned.
Tick ==
  /\ ~Due
  /\ now' = now + 1
  /\ UNCHANGED <<childVars, dataVars, runVars>>

Supervisor ==
  \/ Spawn \/ SpawnFails \/ PollRunning \/ Sleep \/ WakeUp \/ Kill
  \/ SuperviseFails \/ Reap
  \/ GiveUp \/ EnterRecv \/ RecvChunk \/ RecvFinished \/ RecvError \/ RecvTimeout

Reader(s) ==
  \/ ReaderChunk(s)
  \/ ReaderFinishes(s)
  \/ ReaderBreaks(s, "failed")
  \/ ReaderBreaks(s, "panicked")

Environment ==
  \/ \E p \in Processes, s \in Streams : Write(p, s) \/ CloseEnd(p, s)
  \/ \E d \in Descendants : Fork(d)
  \/ ChildExits
  \/ KillLands

Next == Tick \/ Supervisor \/ Environment \/ \E s \in Streams : Reader(s)

\* The clock and the threads of the program run; the child, which may hang,
\* and its descendants owe nothing, except that a killed child dies.
Fairness ==
  /\ WF_vars(Tick)
  /\ WF_vars(Supervisor)
  /\ WF_vars(KillLands)
  /\ \A s \in Streams : WF_vars(ReaderChunk(s))

Spec == Init /\ [][Next]_vars /\ Fairness

-----------------------------------------------------------------------------
(* Properties.                                                             *)

\* An output that run_bounded reports without timed_out is the whole output:
\* the child ended by itself, nobody can write to either stream any more, and
\* every byte ever written to it was collected.  Every probe parses stdout as
\* a complete document on this promise.
CompleteOutput ==
  result = "ok" /\ ~timedOut =>
    /\ exit = "own"
    /\ \A s \in Streams : holds[s] = {} /\ piped[s] = 0 /\ queued[s] = 0

\* The call ends within the timeout plus one grace period per stream, which is
\* what the comment on drain_readers claims, plus the time a kill takes.
BoundedDuration == now <= Timeout + KillLatency + 2 * Grace

\* A child that ended is never left a zombie by a call that could read its
\* status: whether the drain succeeds or a reader fails, it has been reaped.
Reaped == result \in {"ok", "readError"} => child = "reaped"

\* A stream is abandoned only after a full grace period of its own, however
\* long the other stream held the supervisor up.
Abandons(s) ==
  /\ pc \in {"check", "recv"} /\ cur = s
  /\ cur' # s \/ result' = "ok"
  /\ ~complete'[s]
EachStreamHasItsWindow ==
  [][\A s \in Streams : Abandons(s) => now >= drainFrom + Grace]_vars

\* The call returns although the child, or a descendant holding a pipe open,
\* may run for ever, silent or writing faster than the output is received.
AlwaysReturns == <>(pc = "done")

\* A child that fills one pipe is not blocked for ever by the other one: each
\* full pipe is drained again, or its read end is closed.
BackPressureEnds ==
  \A s \in Streams :
    piped[s] = PipeCapacity
      ~> (piped[s] < PipeCapacity \/ reader[s] # "reading")
=============================================================================

--------------------------- MODULE SkillCatalogRpc ---------------------------
(***************************************************************************)
(* probe_skill_catalog of crates/gr-inspect-codex/src/skills.rs: start     *)
(* `codex app-server --stdio`, send initialize (id 1) and skills/list      *)
(* (id 2) on its stdin, and wait for each answer on the lines of its       *)
(* stdout, both waits under one deadline; then kill and reap the server.   *)
(* A failure ends as the verdict that skill_failure gives it.              *)
(*                                                                         *)
(* The server is external: it may answer, refuse, send notifications and   *)
(* requests of its own, write garbage, talk without end, say nothing, or   *)
(* exit with its stdout closed or still held by a descendant.  A line is   *)
(* an id (0 stands for none and for every id that is not awaited) and a    *)
(* body; a line that the client has received is gone from the model.       *)
(*                                                                         *)
(* Time is discrete.  It passes while the client is in its receive loop,   *)
(* lines coming in or not, and while it waits for the killed server; the   *)
(* client's other instructions take no time.                               *)
(***************************************************************************)
EXTENDS Integers, Sequences

CONSTANTS
  Deadline,     \* PROBE_TIMEOUT
  KillLatency,  \* the time the kernel may take to end the killed server
  MaxLines      \* bound: lines written that the client has not received

ASSUME RpcAssumption ==
  /\ Deadline \in Nat
  /\ KillLatency \in Nat
  /\ MaxLines \in Nat

\* "badResult" is a result of an unexpected shape, "malformed" not an envelope.
Bodies == {"result", "badResult", "error", "none", "malformed"}
Line == [id : 0..2, body : Bodies]

Outcomes == {"pending", "catalog", "notFound", "permissionDenied", "otherIo",
             "invalidData", "timedOut", "unexpectedEof"}

VARIABLES
  now,        \* time since the probe began
  server,     \* "absent", "running", "zombie", "reaped"
  asked,      \* requests written to the server's stdin: 0, 1 or 2
  answered,   \* the requests that the server has answered
  lines,      \* what the server has written and the client not received
  held,       \* some process holds the write end of that stdout
  delivered,  \* how many of these lines the reader thread has sent
  atEof,      \* the reader thread has ended and closed the channel
  pc,         \* the client: "cwd", "spawn", "send", "check", "recv", "select",
              \* "cleanup", "wait", "done"
  wake,       \* when a killed server is dead at the latest
  awaited,    \* expected_id
  taken,      \* ghost: the lines taken for the answers to the two requests
  outcome     \* the result of the probe: the catalog or an io::ErrorKind

serverVars == <<server, answered, held>>
inbox == <<lines, delivered>>
clientVars == <<asked, pc, wake, awaited, taken, outcome>>
vars == <<now, serverVars, inbox, atEof, clientVars>>

TypeOK ==
  /\ now \in Nat
  /\ server \in {"absent", "running", "zombie", "reaped"}
  /\ asked \in 0..2
  /\ answered \in SUBSET {1, 2}
  /\ lines \in Seq(Line)
  /\ held \in BOOLEAN
  /\ delivered \in 0..Len(lines)
  /\ atEof \in BOOLEAN
  /\ pc \in {"cwd", "spawn", "send", "check", "recv", "select", "cleanup", "wait", "done"}
  /\ wake \in Nat
  /\ awaited \in {1, 2}
  /\ taken \in Seq(Line)
  /\ outcome \in Outcomes

Init ==
  /\ now = 0
  /\ server = "absent"
  /\ asked = 0
  /\ answered = {}
  /\ lines = << >>
  /\ held = FALSE
  /\ delivered = 0
  /\ atEof = FALSE
  /\ pc = "cwd"
  /\ wake = 0
  /\ awaited = 1
  /\ taken = << >>
  /\ outcome = "pending"

-----------------------------------------------------------------------------
(* The server.                                                             *)

Emit(line) ==
  /\ server = "running"
  /\ Len(lines) < MaxLines
  /\ lines' = Append(lines, line)
  /\ UNCHANGED <<now, server, held, delivered, atEof, clientVars>>

Answer(i, body) ==
  /\ i <= asked /\ i \notin answered
  /\ answered' = answered \cup {i}
  /\ Emit([id |-> i, body |-> body])

\* A notification, an answer nobody waits for, or a request of the server.
Chatter(i) == Emit([id |-> i, body |-> "none"]) /\ UNCHANGED answered

Garbage == Emit([id |-> 0, body |-> "malformed"]) /\ UNCHANGED answered

\* The server exits; a descendant may keep its stdout open.
ServerExits(keptOpen) ==
  /\ server = "running"
  /\ server' = "zombie"
  /\ held' = keptOpen
  /\ UNCHANGED <<now, answered, inbox, atEof, clientVars>>

DescendantCloses ==
  /\ server \in {"zombie", "reaped"}
  /\ held
  /\ held' = FALSE
  /\ UNCHANGED <<now, server, answered, inbox, atEof, clientVars>>

KillLands == pc = "wait" /\ \E keptOpen \in BOOLEAN : ServerExits(keptOpen)

-----------------------------------------------------------------------------
(* The reader thread: spawn_line_reader.                                   *)

Deliver ==
  /\ ~atEof
  /\ delivered < Len(lines)
  /\ delivered' = delivered + 1
  /\ UNCHANGED <<now, serverVars, lines, atEof, clientVars>>

ReaderEnds ==
  /\ ~atEof
  /\ delivered = Len(lines)
  /\ server # "absent" /\ ~held
  /\ atEof' = TRUE
  /\ UNCHANGED <<now, serverVars, inbox, clientVars>>

-----------------------------------------------------------------------------
(* The client.                                                             *)

\* An error before there is a server to clean up after.
FailEarly(kind) ==
  /\ outcome' = kind
  /\ pc' = "done"
  /\ UNCHANGED <<now, serverVars, inbox, atEof, asked, wake, awaited, taken>>

\* env::current_dir of the callers.
CurrentDir ==
  /\ pc = "cwd"
  /\ pc' = "spawn"
  /\ UNCHANGED <<now, serverVars, inbox, atEof, asked, wake, awaited, taken, outcome>>

CurrentDirFails ==
  /\ pc = "cwd"
  /\ \E kind \in {"notFound", "permissionDenied", "otherIo"} : FailEarly(kind)

Spawn ==
  /\ pc = "spawn"
  /\ server' = "running"
  /\ held' = TRUE
  /\ pc' = "send"
  /\ UNCHANGED <<now, answered, inbox, atEof, asked, wake, awaited, taken, outcome>>

SpawnFails ==
  /\ pc = "spawn"
  /\ \E kind \in {"notFound", "permissionDenied", "otherIo"} : FailEarly(kind)

\* The closure ends with a result; kill and wait follow on every path.
Conclude_ReturnError(kind) ==   \* mutant: ? in place of the closure
  /\ outcome' = kind
  /\ pc' = IF kind = "catalog" THEN "cleanup" ELSE "done"
  /\ UNCHANGED <<now, serverVars, atEof, asked, wake, awaited, taken>>

Conclude(kind) ==
  /\ outcome' = kind
  /\ pc' = "cleanup"
  /\ UNCHANGED <<now, serverVars, atEof, asked, wake, awaited, taken>>

\* The requests fit in the pipe: the write never blocks.  A pipe that nobody
\* reads breaks while the request is encoded into it, which is reported as
\* invalid data, or at the line's end.
Send ==
  /\ pc = "send"
  /\ server = "running" \/ held
  /\ asked' = awaited
  /\ pc' = "check"
  /\ UNCHANGED <<now, serverVars, inbox, atEof, wake, awaited, taken, outcome>>

SendFails ==
  /\ pc = "send"
  /\ server # "running"
  /\ \E kind \in {"invalidData", "otherIo"} : Conclude(kind)
  /\ UNCHANGED inbox

Expired_PerRequest == now >= Deadline * awaited
  \* mutant: every request gets the whole timeout
Expired == now >= Deadline

RemainingIsZero_Untested == FALSE   \* mutant: the loop only receives

\* remaining.is_zero() at the top of the receive loop.
RemainingIsZero == pc = "check" /\ Expired

TimeLeft ==
  /\ pc = "check"
  /\ ~RemainingIsZero
  /\ pc' = "recv"
  /\ UNCHANGED <<now, serverVars, inbox, atEof, asked, wake, awaited, taken, outcome>>

TimeOut ==
  /\ \/ RemainingIsZero
     \/ pc = "recv" /\ Expired /\ delivered = 0 /\ ~atEof
  /\ Conclude("timedOut")
  /\ UNCHANGED inbox

Eof ==
  /\ pc = "recv"
  /\ delivered = 0
  /\ atEof
  /\ Conclude("unexpectedEof")
  /\ UNCHANGED inbox

\* The envelope of the line that the client receives next.
NextLine == Head(lines)

Skips(line) == line.body # "malformed" /\ line.id # awaited

IsResult_NullToo(line) == line.body \in {"result", "none"}
  \* mutant: an omitted result is a null result
IsResult(line) == line.body = "result"

Receive ==
  /\ pc = "recv"
  /\ delivered > 0
  /\ lines' = Tail(lines)
  /\ delivered' = delivered - 1

ReceiveOther ==
  /\ Receive
  /\ Skips(NextLine)
  /\ pc' = "check"
  /\ UNCHANGED <<now, serverVars, atEof, asked, wake, awaited, taken, outcome>>

ReceiveBad ==
  /\ Receive
  /\ ~Skips(NextLine)
  /\ ~IsResult(NextLine)
  /\ Conclude("invalidData")

ReceiveResult_NextId ==   \* mutant: ids go on after the last request
  /\ Receive
  /\ ~Skips(NextLine)
  /\ IsResult(NextLine)
  /\ taken' = Append(taken, NextLine)
  /\ awaited' = awaited + 1
  /\ pc' = IF awaited = 1 THEN "send" ELSE "select"
  /\ UNCHANGED <<now, serverVars, atEof, asked, wake, outcome>>

ReceiveResult ==
  /\ Receive
  /\ ~Skips(NextLine)
  /\ IsResult(NextLine)
  /\ taken' = Append(taken, NextLine)
  /\ IF awaited = 1
     THEN awaited' = 2 /\ pc' = "send"
     ELSE pc' = "select" /\ UNCHANGED awaited
  /\ UNCHANGED <<now, serverVars, atEof, asked, wake, outcome>>

\* select_skills_entry: the answer has an entry for the directory, or not.
Select ==
  /\ pc = "select"
  /\ \E kind \in {"catalog", "invalidData"} : Conclude(kind)
  /\ UNCHANGED inbox

KillServer ==
  /\ pc = "cleanup"
  /\ wake' = now + KillLatency
  /\ pc' = "wait"
  /\ UNCHANGED <<now, serverVars, inbox, atEof, asked, awaited, taken, outcome>>

Reap ==
  /\ pc = "wait"
  /\ server = "zombie"
  /\ server' = "reaped"
  /\ pc' = "done"
  /\ UNCHANGED <<now, answered, held, inbox, atEof, asked, wake, awaited, taken, outcome>>

-----------------------------------------------------------------------------
\* Whether the client, or the kernel for it, has something to do at once.
Due ==
  CASE pc \in {"check", "recv"} -> Expired
    [] pc = "wait" -> server = "zombie" \/ now >= wake
    [] OTHER -> TRUE

Tick ==
  /\ ~Due
  /\ now' = now + 1
  /\ UNCHANGED <<serverVars, inbox, atEof, clientVars>>

Client ==
  \/ CurrentDir \/ CurrentDirFails \/ Spawn \/ SpawnFails \/ Send \/ SendFails
  \/ TimeLeft \/ TimeOut \/ Eof \/ ReceiveOther \/ ReceiveBad \/ ReceiveResult
  \/ Select \/ KillServer \/ Reap

Server ==
  \/ \E i \in {1, 2}, body \in {"result", "badResult", "error", "none"} : Answer(i, body)
  \/ \E i \in 0..2 : Chatter(i)
  \/ Garbage
  \/ \E keptOpen \in BOOLEAN : ServerExits(keptOpen)
  \/ DescendantCloses
  \/ KillLands

Next == Tick \/ Client \/ Server \/ Deliver \/ ReaderEnds

\* The clock, the client and the kernel make progress; the server need not.
Fairness == WF_vars(Tick) /\ WF_vars(Client) /\ WF_vars(KillLands)

Spec == Init /\ [][Next]_vars /\ Fairness

-----------------------------------------------------------------------------
\* skill_failure, and the report of a catalog.
Verdict(kind) ==
  CASE kind = "notFound" -> "BLOCKED"
    [] kind = "catalog" -> "report"
    [] OTHER -> "INCOMPLETE"

-----------------------------------------------------------------------------
(* Properties.                                                             *)

\* A catalog is what the server answered to the two requests, in that order;
\* no notification, late line or request of the server passes for an answer.
CatalogIsAnswered ==
  outcome = "catalog" =>
    /\ answered = {1, 2}
    /\ taken = << [id |-> 1, body |-> "result"], [id |-> 2, body |-> "result"] >>

\* Both requests share one deadline: the probe ends by it, plus a kill.
SharedDeadline == now <= Deadline + KillLatency

\* Whatever the probe ends with, no app-server is left running or unreaped.
ServerReaped == pc = "done" => server \in {"absent", "reaped"}

\* The probe returns although the server hangs, or talks for ever: each line it
\* writes may find the client in its receive loop, before and after the deadline.
AlwaysReturns == <>(pc = "done")

\* src/README.md: BLOCKED means that "Codex was unavailable or could not be
\* executed", so an executable without permission is BLOCKED too.
UnexecutableIsBlocked ==
  [][pc = "spawn" /\ outcome' = "permissionDenied" => Verdict(outcome') = "BLOCKED"]_vars
=============================================================================

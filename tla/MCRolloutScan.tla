---------------------------- MODULE MCRolloutScan ----------------------------
(***************************************************************************)
(* Days of two seconds, one recent day, three days of required history.    *)
(* So a use is recent from second 5 on, and the history reaches back far   *)
(* enough when it has something at second 2.  The contents a rollout may   *)
(* hold: nothing; a record just old enough and a use of the managed skill; *)
(* the last stale use of the owned skill, after the session_meta; a task   *)
(* turn with its first recent one; a record that does not parse, before a  *)
(* use.                                                                    *)
(***************************************************************************)
EXTENDS RolloutScan

CONSTANTS none

Record(type, at, turn, words) == [kind |-> type, at |-> at, id |-> turn, words |-> words]
Call(t, skill) == Record("call", {t}, none, <<skill>>)

MCContents ==
  {<< >>,
   <<Record("plain", {2}, none, << >>), Call(8, "managed")>>,
   <<Record("meta", {2}, none, << >>), Call(4, "owned")>>,
   <<Record("context", {4}, 1, << >>), Call(5, "owned")>>,
   <<Record("bad", {}, none, << >>), Call(7, "owned")>>}

\* A turn that reads the skill twice.
MCSpanningContents ==
  {<<Record("context", {6}, 1, << >>), Call(6, "owned"), Call(7, "owned")>>,
   <<Record("meta", {2}, none, << >>), Call(2, "owned")>>}

MCManifest == [s \in {"owned", "managed"} |-> <<s>>]
MCRollouts == {1, 2}
MCSkills == {"owned", "managed"}
MCOrigin == [s \in MCSkills |-> IF s = "owned" THEN "personal" ELSE "system"]
MCObservedEpoch == 8
MCWorkerLimit == 2
MCCatalogErrors == {0, 1}
MCSecondsPerDay == 2
MCRecentDays == 1
MCUnobservedHistoryDays == 3

\* Only the later rollout may hold each of the contents and be the current
\* task's, with a session_meta that can be read or not.  Every file starts in
\* "sessions", and archiving before the listing covers the other starts.
MCInit ==
  /\ Init
  /\ Len(content[1]) > 0 /\ content[1][1].kind \in {"plain", "context"}
  /\ \/ current = {}
     \/ /\ current = {2}
        /\ Len(content[2]) > 0 /\ content[2][1].kind \in {"meta", "bad"}
  /\ location = [r \in Rollouts |-> "sessions"]
MCSpec == MCInit /\ [][Next]_vars /\ Fairness
=============================================================================

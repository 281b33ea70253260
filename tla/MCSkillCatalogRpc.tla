-------------------------- MODULE MCSkillCatalogRpc --------------------------
(***************************************************************************)
(* The server talks without end.  Three lines that the client has not      *)
(* received leave room for an answer with a line before it and one after   *)
(* it, and for answers that wait behind garbage and notifications.         *)
(***************************************************************************)
EXTENDS SkillCatalogRpc

MCDeadline == 2
MCKillLatency == 1
MCMaxLines == 3
=============================================================================

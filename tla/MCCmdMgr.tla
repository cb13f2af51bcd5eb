------------------------------ MODULE MCCmdMgr ------------------------------
(* Instances of the command manager for TLC. *)
EXTENDS CmdMgr, TLC

\* Calls of one caller and confirmation identifiers are interchangeable.
Symmetry == Permutations(UserCmd) \cup Permutations(RfCmd) \cup Permutations(ReqId)

AllKinds == {"plain", "cfm", "async", "asyncCfm"}
CfmKinds == {"cfm", "asyncCfm"}
CfmOnly  == {"cfm"}
=============================================================================

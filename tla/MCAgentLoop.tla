---------------------------- MODULE MCAgentLoop ----------------------------
(* The instance of AgentLoop that TLC checks: a fresh conversation, and one *)
(* seeded with the transcript of an earlier, compacted run.                 *)
EXTENDS AgentLoop

MCHistories ==
  { <<>>,
    <<Note("summary"), [kind |-> "calls", calls |-> Calls],
      [kind |-> "results", calls |-> Calls], Note("text")>> }
=============================================================================

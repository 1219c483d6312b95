----------------------------- MODULE MCAgentTasks -----------------------------
(* Model checking of AgentTasks: two agents share two tasks, one scope beyond   *)
(* the default, and isshd ends and starts any number of times.                  *)
EXTENDS AgentTasks
================================================================================

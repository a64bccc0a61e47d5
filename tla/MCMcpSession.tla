---------------------------- MODULE MCMcpSession ----------------------------
(* Instances of McpSession for TLC: what clients ask for.                  *)
EXTENDS McpSession

Request(commands, argument, jobs) ==
  [cmd: commands, arg: {argument}, background: jobs]

OneTemplate == CHOOSE t \in Template : TRUE

(* Jobs and calls on what is loaded, and a template that is (re)loaded.    *)
JobRequests ==
  Request({"update"}, Unscoped, {TRUE}) \cup Request({"run"}, Unscoped, {FALSE})
    \cup Request({"load"}, OneTemplate, {FALSE})

(* Jobs and calls, scoped and not, and a template that comes and goes.     *)
MixedRequests ==
  Request({"run"}, Unscoped, BOOLEAN) \cup Request({"update"}, AllTemplates, {TRUE})
    \cup Request({"load", "unload"}, OneTemplate, {FALSE})
=============================================================================

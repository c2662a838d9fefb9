---------------------------- MODULE MCWasmSandbox ----------------------------
(* Two processes that share a cache, or one V1 executor with a late ticker.   *)
EXTENDS WasmSandbox

CONSTANTS good, other, s1, s2, v1x

MCMayBe == [c \in Component |-> Natures]

MCDeployments == {{s1, s2}, {v1x}}

MCDeadline == [s \in Sandbox |-> IF s = v1x THEN 2 ELSE 1]

MCStall == [s \in Sandbox |-> IF s = v1x THEN 5 ELSE 2]

MCRequest ==
  {[venture |-> "own", actor |-> "agent", tool |-> "email", operation |-> o, resource |-> "mail",
    class |-> "green", level |-> 1] : o \in {"draft", "send"}}
==============================================================================

-------------------------- MODULE MCAuthorization --------------------------
EXTENDS Authorization, TLC

CONSTANTS agent, intern

\* Two inputs for one operation, and a risky operation.
I1 == [tool |-> "notes", operation |-> "render", artifact |-> "a", input |-> "x",
       bindings |-> "b", resource |-> "notes/1", risk |-> "pure-compute", backend |-> "core-wasm"]
I2 == [I1 EXCEPT !.input = "y"]
I3 == [I1 EXCEPT !.tool = "email", !.operation = "send"]

MCInvocation == {I1, I2, I3}

Ask(principal, audience, i, class, level, key) ==
  [principal |-> principal, audience |-> audience, invocation |-> i, class |-> class,
   level |-> level, key |-> key]

MCRequest ==
  {Ask(agent, "host", I1, "green", 1, "k1"), Ask(intern, "host", I3, "red", 1, "k1")}
============================================================================

----------------------------- MODULE PolicyRules -----------------------------
(***************************************************************************)
(* The deterministic policy (crates/policy), as pure operators: which      *)
(* requests are denied and which need a human's approval.                  *)
(***************************************************************************)
EXTENDS Naturals

CONSTANTS
  CloudTool,   \* tools whose name starts with "cloud."
  Escaping     \* resources with ".." in them, or that start with "/"

DataClass == {"green", "amber", "red"}

\* AutomationLevel: L0Suggest to L3BoundedAuto, in this order
Level == 0 .. 3

HighRiskOperations ==
  {<<"email", "send">>, <<"payment", "transfer">>, <<"contract", "sign">>,
   <<"deploy", "production">>, <<"file", "delete">>, <<"social", "publish">>}

CloudBlockedClasses == {"red"}

\* evaluate_rules: its two lists of reasons, as sets.  Approval never overrules
\* a denial, and a denial does not hide that approval is needed.
DenialReasons(tool, resource, class) ==
  (IF class \in CloudBlockedClasses /\ tool \in CloudTool THEN {"cloud"} ELSE {})
  \cup (IF resource \in Escaping THEN {"path"} ELSE {})

ApprovalReasons(tool, operation, level) ==
  (IF level >= 2 THEN {"level"} ELSE {})
  \cup (IF <<tool, operation>> \in HighRiskOperations THEN {"high-risk"} ELSE {})

Allowed(tool, resource, class) == DenialReasons(tool, resource, class) = {}

RequiresApproval(tool, operation, level) == ApprovalReasons(tool, operation, level) # {}
==============================================================================

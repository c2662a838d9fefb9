-------------------------- MODULE InvocationInput --------------------------
(***************************************************************************)
(* PreparedInvocation::prepare (crates/artifact: invocation.rs, schema.rs, *)
(* and the operation checks of manifest.rs): a caller supplies an input    *)
(* and grants for an operation that a manifest declares.  Bytes are the    *)
(* tree they spell, whose objects are sequences of members, with their     *)
(* length and the length of their canonical form.                          *)
(*                                                                         *)
(* Schemas, inputs, and a schema beside an input are trees.  The walks of  *)
(* the code, with a stack or by recursion, stop at the first node that     *)
(* they refuse; which one that is does not matter, so that a walk is a     *)
(* condition on the generations of a tree.                                 *)
(***************************************************************************)
EXTENDS Integers, Sequences, FiniteSets, SequencesExt

CONSTANTS
  Operations,    \* operation definitions a publisher may declare
  Inputs,        \* what a caller may send
  GrantLists,    \* sequences of grants a caller may supply
  SafeInteger,   \* the I-JSON safe integers
  MaxBytes, MaxDepth, MaxProperties, MaxItems,   \* protocol ceilings
  MaxResource,   \* longest resource, in bytes
  IndexToken,    \* how a JSON pointer writes the first, second, ... item
  None

ASSUME DepthIsNumber == MaxDepth \in Nat

\* Rules and grants are vectors in the code.
ASSUME VectorsAreSequences ==
  /\ \A op \in Operations : op.rules \in Seq(Range(op.rules))
  /\ \A list \in GrantLists : list \in Seq(Range(list))

VARIABLES operation, input, grants, status, commitments, primary

vars == <<operation, input, grants, status, commitments, primary>>

------------------------------------------------------------------------------
(* Trees.                                                                   *)

NamesOf(members) == [i \in DOMAIN members |-> members[i][1]]

\* The member that a map keeps of those with a name: the last one inserted.
Kept(members, name) ==
  LET names == NamesOf(members) IN
  members[CHOOSE i \in DOMAIN names :
            names[i] = name /\ \A j \in DOMAIN names : names[j] = name => j <= i][2]

\* What is directly below a node of an input or of a schema, by the tokens of a
\* JSON pointer: a map has no order, and every item of an array has one schema.
FieldsOf(x) ==
  CASE x.t = "obj" -> [name \in Range(NamesOf(x.members)) |-> Kept(x.members, name)]
    [] x.t = "arr" -> [step \in {IndexToken[i] : i \in DOMAIN x.items} |->
                         x.items[CHOOSE i \in DOMAIN x.items : IndexToken[i] = step]]
    [] x.t = "object" -> x.properties
    [] x.t = "array" -> [step \in Range(IndexToken) |-> x.items]
    [] OTHER -> <<>>

\* A value and the schema that it is held against.
Pair(s, v) == [t |-> "pair", schema |-> s, value |-> v]

Children(x) ==
  IF x.t = "pair"
  THEN LET below == FieldsOf(x.schema)  fields == FieldsOf(x.value) IN
       {Pair(below[step], fields[step]) : step \in DOMAIN below \cap DOMAIN fields}
  ELSE Range(FieldsOf(x))

\* The nodes of a tree by their distance from the root.  A tree that has some
\* at MaxDepth is refused, and nothing depends on those further down.
Generations(root) ==
  LET at[n \in 0 .. MaxDepth] ==
        IF n = 0 THEN {root} ELSE UNION {Children(x) : x \in at[n - 1]}
  IN at

Nodes(root) == UNION {Generations(root)[n] : n \in 0 .. MaxDepth}

\* Value::pointer: what is after each token of a path, None where there is nothing.
Walk(root, path) ==
  LET at[i \in 0 .. Len(path)] ==
        IF i = 0 THEN root
        ELSE IF at[i - 1] # None /\ path[i] \in DOMAIN FieldsOf(at[i - 1])
        THEN FieldsOf(at[i - 1])[path[i]]
        ELSE None
  IN at

Pointer(root, path) == Walk(root, path)[Len(path)]

\* Members are sent one after the other, and there is a token for every position
\* of an array, each its own.
ASSUME InputsAreTrees ==
  /\ IsInjective(IndexToken)
  /\ \A in \in Inputs : \A x \in Nodes(in.raw) :
       /\ x.t = "obj" => DOMAIN x.members \subseteq Nat
       /\ x.t = "arr" => DOMAIN x.items \subseteq DOMAIN IndexToken

ASSUME NoneIsNoSchema == \A op \in Operations : None \notin Nodes(op.schema)

------------------------------------------------------------------------------
(* Declarations.                                                            *)

LimitsOK(limits) == limits.bytes \in 1 .. MaxBytes /\ limits.depth \in 1 .. MaxDepth

\* The checks validate_declaration makes at one schema node.
NodeOK(s, limits) ==
  CASE s.t = "object" ->
         /\ s.max \in 1 .. MaxProperties
         /\ Cardinality(DOMAIN s.properties) <= s.max
         /\ s.required \subseteq DOMAIN s.properties
         /\ "" \notin DOMAIN s.properties
    [] s.t = "array" -> s.max \in 1 .. MaxItems
    [] s.t = "string" -> s.max \in 1 .. limits.bytes
    [] s.t = "integer" ->
         /\ {s.min, s.max} \ {None} \subseteq SafeInteger
         /\ (s.min # None /\ s.max # None) => s.min <= s.max
    [] OTHER -> s.t \in {"boolean", "null"}

\* Plausible bug: the root of a schema is counted as depth 0.
DepthOK_FromZero(schema, limits) ==
  \A n \in 0 .. MaxDepth : Generations(schema)[n] # {} => n <= limits.depth

\* The depth that validate_declaration counts: the root is at depth 1.
DepthOK(schema, limits) ==
  \A n \in 0 .. MaxDepth : Generations(schema)[n] # {} => n + 1 <= limits.depth

\* InputSchema::validate_declaration
SchemaOK(schema, limits) ==
  /\ LimitsOK(limits)
  /\ DepthOK(schema, limits)
  /\ \A s \in Nodes(schema) : NodeOK(s, limits)

\* OperationDefinition::validate
DeclarationOK(op) ==
  LET rules == op.rules IN
  /\ SchemaOK(op.schema, op.limits)
  /\ \A i \in DOMAIN rules : rules[i].id # "" /\ rules[i].normalization = "exact-utf8-v1"
  /\ Cardinality({rules[i].id : i \in DOMAIN rules}) = Len(rules)
  /\ Cardinality({i \in DOMAIN rules : rules[i].primary}) <= 1

------------------------------------------------------------------------------
(* Strict JSON, and values against the schema.                              *)

\* StrictJsonVisitor: no object of the tree has the same name twice.
Strict(raw) == \A x \in Nodes(raw) : x.t = "obj" => IsInjective(NamesOf(x.members))

\* json_depth, at most d
NoDeeper(v, d) == Generations(v)[d] = {}

\* parse_strict_input
ParsesStrictly(in, limits) ==
  /\ in.bytes <= limits.bytes
  /\ Strict(in.raw)
  /\ NoDeeper(in.raw, limits.depth)

InBounds(n, s) ==
  /\ n \in SafeInteger
  /\ s.min # None => s.min <= n
  /\ s.max # None => n <= s.max

\* Plausible bug: undeclared fields are let through.
NodeAccepts_Open(s, v) ==
  CASE s.t = "object" ->
         /\ v.t = "obj"
         /\ Cardinality(DOMAIN FieldsOf(v)) <= s.max
         /\ s.required \subseteq DOMAIN FieldsOf(v)
    [] s.t = "array" -> v.t = "arr" /\ Len(v.items) <= s.max
    [] s.t = "string" -> v.t = "str" /\ v.bytes <= s.max
    [] s.t = "integer" -> v.t = "int" /\ InBounds(v.n, s)
    [] OTHER -> v.t = s.t

\* The checks validate_at makes at one node.
NodeAccepts(s, v) ==
  CASE s.t = "object" ->
         /\ v.t = "obj"
         /\ Cardinality(DOMAIN FieldsOf(v)) <= s.max
         /\ DOMAIN FieldsOf(v) \subseteq DOMAIN s.properties
         /\ s.required \subseteq DOMAIN FieldsOf(v)
    [] s.t = "array" -> v.t = "arr" /\ Len(v.items) <= s.max
    [] s.t = "string" -> v.t = "str" /\ v.bytes <= s.max
    [] s.t = "integer" -> v.t = "int" /\ InBounds(v.n, s)
    [] OTHER -> v.t = s.t

\* InputSchema::validate_at
Accepts(schema, value) == \A p \in Nodes(Pair(schema, value)) : NodeAccepts(p.schema, p.value)

------------------------------------------------------------------------------
(* Grants.                                                                  *)

\* collect_grants: no binding is granted twice.
NoDuplicateGrant(list) == IsInjective([i \in DOMAIN list |-> list[i].id])

\* The resource a rule points at, if it may be one.
ResourceAt(v, rule) ==
  LET at == Pointer(v, rule.pointer) IN
  IF at # None /\ at.t = "str" /\ at.bytes \in 1 .. MaxResource THEN at.text ELSE None

\* One turn of the loop in prepare_grants: the grant of a rule is taken out of
\* what was supplied and must be, byte for byte, what the input says.
TakeGrant(v, state, rule) ==
  LET resource == ResourceAt(v, rule)
      grant == [id |-> rule.id, resource |-> resource] IN
  [ok |-> state.ok /\ resource # None /\ grant \in state.supplied,
   supplied |-> state.supplied \ {grant},
   commitments |-> state.commitments \cup
                     {[id |-> rule.id, resource |-> resource, primary |-> rule.primary]},
   primary |-> IF rule.primary THEN resource ELSE state.primary]

Untaken(list) ==
  [ok |-> TRUE, supplied |-> ToSet(list), commitments |-> {}, primary |-> None]

\* The state of the loop after each of its turns.
Turns(v, rules, list) ==
  LET taken[i \in 0 .. Len(rules)] ==
        IF i = 0 THEN Untaken(list) ELSE TakeGrant(v, taken[i - 1], rules[i])
  IN taken

TakeAll(v, rules, list) == Turns(v, rules, list)[Len(rules)]

\* Plausible bug: grants no rule asked for are dropped.
GrantsFit_Extra(taken) == taken.ok

\* prepare_grants; the commitments are sorted, so they are a set here.
GrantsFit(taken) == taken.ok /\ taken.supplied = {}

------------------------------------------------------------------------------
(* The machine: a definition is declared, then invocations are prepared.    *)

Init ==
  /\ operation \in Operations
  /\ input = None /\ grants = <<>> /\ status = "undeclared"
  /\ commitments = {} /\ primary = None

\* A manifest with this operation is verified.
Declare ==
  /\ status = "undeclared"
  /\ DeclarationOK(operation)
  /\ status' = "declared"
  /\ UNCHANGED <<operation, input, grants, commitments, primary>>

\* PreparedInvocation::prepare
Prepare(in, list) ==
  LET taken == TakeAll(in.raw, operation.rules, list)
      fits ==
        /\ ParsesStrictly(in, operation.limits)
        /\ Accepts(operation.schema, in.raw)
        /\ in.canonical <= operation.limits.bytes
        /\ NoDuplicateGrant(list)
        /\ GrantsFit(taken)
  IN
  /\ status = "declared"
  /\ input' = in /\ grants' = list
  /\ \/ /\ fits
        /\ status' = "prepared"
        /\ commitments' = taken.commitments /\ primary' = taken.primary
     \/ /\ ~fits
        /\ status' = "refused"
        /\ UNCHANGED <<commitments, primary>>
  /\ UNCHANGED operation

Next == Declare \/ \E in \in Inputs, list \in GrantLists : Prepare(in, list)

Spec == Init /\ [][Next]_vars

------------------------------------------------------------------------------
(* Properties.                                                              *)

Prepared == status = "prepared"

\* The grants supplied are exactly the resources the input names, one for each
\* binding of the operation: none missing, none left over, none twice; and what
\* is committed to, and which resource is the primary one, is what they say
\* (prepare_grants).
GrantsAreExact ==
  Prepared =>
    LET text(r) == Pointer(input.raw, r.pointer).text
        rules == Range(operation.rules)
        named == {[id |-> r.id, resource |-> text(r)] : r \in rules}
    IN /\ Range(grants) = named
       /\ Len(grants) = Cardinality(named)
       /\ commitments = {[id |-> r.id, resource |-> text(r), primary |-> r.primary] : r \in rules}
       /\ \A r \in rules : r.primary => primary = text(r)

KindOf(s) ==
  CASE s.t = "object" -> "obj" [] s.t = "array" -> "arr" [] s.t = "string" -> "str"
    [] s.t = "integer" -> "int" [] OTHER -> s.t

\* The tokens that occur in a tree.
TokensOf(root) == UNION {DOMAIN FieldsOf(x) : x \in Nodes(root)}

\* Declared limits are what reaches the guest: whatever path leads to a place of a
\* prepared input leads to a schema too, which is of the same kind and finds what
\* it requires there; no path leads below the operation's limit; and every member
\* that was sent is the one that counts, none hidden by another of its name.
\* (Stated over paths, where the code walks the two trees.)
InputIsDeclared ==
  Prepared =>
    \A n \in 0 .. operation.limits.depth : \A path \in [1 .. n -> TokensOf(input.raw)] :
      LET v == Pointer(input.raw, path)
          s == Pointer(operation.schema, path)
      IN v # None =>
           /\ s # None
           /\ v.t = KindOf(s)
           /\ n < operation.limits.depth
           /\ s.t = "object" => s.required \subseteq DOMAIN FieldsOf(v)
           /\ v.t = "obj" => \A i \in DOMAIN v.members :
                               FieldsOf(v)[v.members[i][1]] = v.members[i][2]

\* A declared schema cannot ask for more than its limits admit: whatever it
\* accepts is within the depth limit, before that is checked.
DeclaredDepthSuffices ==
  (status # "undeclared" /\ input # None) =>
    (Accepts(operation.schema, input.raw) => NoDeeper(input.raw, operation.limits.depth))
============================================================================

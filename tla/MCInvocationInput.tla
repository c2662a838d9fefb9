-------------------------- MODULE MCInvocationInput --------------------------
(* Schemas up to three levels, inputs that fit them and inputs that do not.   *)
EXTENDS InvocationInput

Str(text, bytes) == [t |-> "str", text |-> text, bytes |-> bytes]
Num(n) == [t |-> "int", n |-> n]
Obj(members) == [t |-> "obj", members |-> members]
Arr(items) == [t |-> "arr", items |-> items]

Text(max) == [t |-> "string", max |-> max]
Number(min, max) == [t |-> "integer", min |-> min, max |-> max]
List(items, max) == [t |-> "array", items |-> items, max |-> max]
Shape(properties, required, max) ==
  [t |-> "object", properties |-> properties, required |-> required, max |-> max]

Schemas ==
  {Shape([path |-> Text(2), n |-> Number(0, 1)], {"path"}, 2),
   Shape([path |-> Text(2), n |-> Number(None, 1)], {"path", "n"}, 1),
   Shape([path |-> Text(3), n |-> Number(1, None)], {"path", "q"}, 3),
   Shape([path |-> Text(2), l |-> List(Text(1), 2)], {}, 2),
   Shape([path |-> Text(2), l |-> List(List(Text(1), 1), 2)], {"path"}, 2),
   Shape([path |-> Text(2), l |-> [t |-> "null"]], {"path"}, 2),
   Shape([path |-> Text(2), l |-> Shape([n |-> Number(0, 1)], {"n"}, 1)], {"path"}, 2),
   List(Number(1, 0), 1), List(Text(4), 1), Number(3, None), Text(5)}

Rule(id, pointer, isPrimary) ==
  [id |-> id, pointer |-> pointer, primary |-> isPrimary, normalization |-> "exact-utf8-v1"]

RuleLists ==
  {<<>>, <<Rule("r", <<"path">>, TRUE)>>,
   <<Rule("r", <<"path">>, TRUE), Rule("s", <<"l", "0">>, FALSE)>>,
   <<Rule("s", <<"l", "0">>, FALSE), Rule("r", <<"path">>, TRUE)>>,
   <<Rule("r", <<"path">>, FALSE), Rule("r", <<"l", "0">>, FALSE)>>,
   <<Rule("r", <<"path">>, TRUE), Rule("s", <<"path">>, TRUE)>>}

MCOperations ==
  {[schema |-> s, rules |-> rules, limits |-> [bytes |-> 4, depth |-> d]] :
     s \in Schemas, rules \in RuleLists, d \in {2, 3}}

Bodies ==
  {Obj(<<>>), Str("a", 1), Num(1),
   Obj(<<<<"path", Str("a", 1)>>>>), Obj(<<<<"path", Str("", 0)>>>>),
   Obj(<<<<"path", Str("abc", 3)>>>>), Obj(<<<<"n", Num(1)>>>>),
   Obj(<<<<"path", Str("a", 1)>>, <<"n", Num(1)>>>>),
   Obj(<<<<"path", Str("a", 1)>>, <<"n", Num(2)>>>>),
   Obj(<<<<"path", Str("a", 1)>>, <<"x", Num(1)>>>>),
   Obj(<<<<"path", Str("a", 1)>>, <<"path", Str("b", 1)>>>>),
   Obj(<<<<"l", Arr(<<Str("b", 1)>>)>>, <<"path", Str("a", 1)>>>>),
   Obj(<<<<"path", Str("a", 1)>>, <<"l", Arr(<<Str("b", 1), Str("c", 1)>>)>>>>),
   Obj(<<<<"path", Str("a", 1)>>, <<"l", Arr(<<Arr(<<Str("b", 1)>>)>>)>>>>),
   Obj(<<<<"path", Str("a", 1)>>, <<"l", Obj(<<<<"n", Num(1)>>>>)>>>>),
   Obj(<<<<"path", Str("a", 1)>>, <<"l", Obj(<<<<"n", Num(0)>>, <<"n", Num(1)>>>>)>>>>),
   Obj(<<<<"path", Str("a", 1)>>, <<"l", Obj(<<>>)>>>>),
   Obj(<<<<"path", Str("a", 1)>>, <<"l", [t |-> "null"]>>>>)}

\* A canonical form may be longer than what was sent.
MCInputs ==
  {[raw |-> body, bytes |-> 4, canonical |-> c] : body \in Bodies, c \in {4, 5}}
  \cup {[raw |-> Obj(<<>>), bytes |-> 5, canonical |-> 4]}

MCIndexToken == <<"0", "1">>

Grant(id, resource) == [id |-> id, resource |-> resource]

MCGrantLists ==
  {<<>>, <<Grant("r", "a")>>, <<Grant("r", "b")>>, <<Grant("r", "a"), Grant("r", "a")>>,
   <<Grant("s", "b"), Grant("r", "a")>>, <<Grant("r", "a"), Grant("s", "a")>>}
==============================================================================

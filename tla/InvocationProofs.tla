-------------------------- MODULE InvocationProofs --------------------------
(***************************************************************************)
(* InputIsDeclared, DeclaredDepthSuffices and GrantsAreExact for any       *)
(* operations, inputs and lists of grants.  The generations of a tree, the *)
(* walk along a path and the loop over the rules are recursive functions   *)
(* of a number: that each has a value is shown by the least number for     *)
(* which it would have none, and what it has established after so many     *)
(* steps by the least number of steps after which it would not hold.       *)
(***************************************************************************)
EXTENDS InvocationInput, FiniteSetTheorems, TLAPS

----------------------------------------------------------------------------
(* Induction.                                                               *)

\* A set of numbers that is not empty has a least one.
LEMMA Least ==
  ASSUME NEW S \in SUBSET Nat, S # {}
  PROVE  \E m \in S : \A n \in S : m <= n
<1> DEFINE Below(m) == 0 .. m - 1
           T == {Below(m) : m \in S}
           R == StrictSubsetOrdering(Nat)
<1>1. T \subseteq FiniteSubsetsOf(Nat)
  <2>1. \A m \in S : Below(m) \in SUBSET Nat /\ IsFiniteSet(Below(m))
    <3> SUFFICES ASSUME NEW m \in S PROVE Below(m) \in SUBSET Nat /\ IsFiniteSet(Below(m))
      OBVIOUS
    <3>1. 0 \in Int /\ m - 1 \in Int
      OBVIOUS
    <3>2. IsFiniteSet(0 .. m - 1)
      BY <3>1, FS_Interval
    <3> QED
      BY <3>2
  <2> QED
    BY <2>1 DEF FiniteSubsetsOf
<1>2. PICK x \in T : \A y \in T : <<y, x>> \notin R
  <2>1. IsWellFoundedOn(R, FiniteSubsetsOf(Nat))
    BY FS_StrictSubsetOrderingWellFounded
  <2>2. T # {}
    OBVIOUS
  <2> HIDE DEF T, R
  <2> QED
    BY <1>1, <2>1, <2>2, WFMin
<1>3. PICK m \in S : x = Below(m)
  OBVIOUS
<1>4. ASSUME NEW n \in S, n < m PROVE FALSE
  <2>1. n \in x /\ n \notin Below(n) /\ Below(n) \subseteq x
    BY <1>3, <1>4
  <2>2. Below(n) \in SUBSET Nat /\ x \in SUBSET Nat
    BY <1>3
  <2> QED
    BY <1>2, <2>1, <2>2 DEF StrictSubsetOrdering
<1> QED
  BY <1>4

----------------------------------------------------------------------------
(* Generations and paths.                                                   *)

\* What generation n of a tree is, if f has the ones before it.
Generation(root, f, n) ==
  IF n = 0 THEN {root} ELSE UNION {Children(x) : x \in f[n - 1]}

\* A tree has as many generations as one likes.
LEMMA GenerationsExist ==
  ASSUME NEW root
  PROVE  \A n \in Nat : \E f : f = [i \in 0 .. n |-> Generation(root, f, i)]
<1> DEFINE Runs(f, n) == f = [i \in 0 .. n |-> Generation(root, f, i)]
           Stuck == {n \in Nat : ~\E f : Runs(f, n)}
<1>1. ASSUME Stuck # {} PROVE FALSE
  <2>1. PICK m \in Stuck : \A n \in Stuck : m <= n
    BY <1>1, Least
  <2>2. CASE m = 0
    <3> DEFINE f == [i \in 0 .. 0 |-> {root}]
    <3>1. Runs(f, 0)
      BY DEF Generation
    <3> QED
      BY <2>2, <3>1
  <2>3. CASE m # 0
    <3>1. m - 1 \in Nat /\ m - 1 \notin Stuck
      BY <2>1, <2>3
    <3>2. PICK g : Runs(g, m - 1)
      BY <3>1
    <3> DEFINE f == [i \in 0 .. m |-> IF i = m THEN Generation(root, g, m) ELSE g[i]]
    <3>3. \A i \in 0 .. m : f[i] = Generation(root, f, i)
      <4> SUFFICES ASSUME NEW i \in 0 .. m PROVE f[i] = Generation(root, f, i)
        OBVIOUS
      <4>1. i # 0 => i - 1 \in 0 .. m - 1 /\ f[i - 1] = g[i - 1]
        OBVIOUS
      <4>2. Generation(root, f, i) = Generation(root, g, i)
        BY <4>1 DEF Generation
      <4>3. i # m => i \in 0 .. m - 1 /\ g[i] = Generation(root, g, i)
        BY <3>2
      <4> QED
        BY <4>2, <4>3
    <3>4. Runs(f, m)
      BY <3>3
    <3> QED
      BY <3>4
  <2> QED
    BY <2>2, <2>3
<1> QED
  BY <1>1

\* Each generation has the children of the one before it.
LEMMA GenerationByGeneration ==
  ASSUME NEW root
  PROVE  /\ Generations(root)[0] = {root}
         /\ \A n \in 1 .. MaxDepth :
              Generations(root)[n] = UNION {Children(x) : x \in Generations(root)[n - 1]}
<1> DEFINE t == Generations(root)
<1>1. PICK f : f = [i \in 0 .. MaxDepth |-> Generation(root, f, i)]
  BY DepthIsNumber, GenerationsExist
<1>2. f = [i \in 0 .. MaxDepth |->
             IF i = 0 THEN {root} ELSE UNION {Children(x) : x \in f[i - 1]}]
  BY <1>1 DEF Generation
<1>3. t = [i \in 0 .. MaxDepth |->
             IF i = 0 THEN {root} ELSE UNION {Children(x) : x \in t[i - 1]}]
  BY <1>2 DEF Generations
<1> HIDE DEF t
<1>4. 0 \in 0 .. MaxDepth /\ \A n \in 1 .. MaxDepth : n \in 0 .. MaxDepth /\ n # 0
  BY DepthIsNumber
<1>5. t[0] = {root} /\ \A n \in 1 .. MaxDepth : t[n] = UNION {Children(x) : x \in t[n - 1]}
  BY <1>3, <1>4
<1> QED
  BY <1>5 DEF t

\* Where a path is after token i, if f is where it was before.
Place(root, path, f, i) ==
  IF i = 0 THEN root
  ELSE IF f[i - 1] # None /\ path[i] \in DOMAIN FieldsOf(f[i - 1])
  THEN FieldsOf(f[i - 1])[path[i]]
  ELSE None

\* A path can be followed for as long as one likes.
LEMMA PlacesExist ==
  ASSUME NEW root, NEW path
  PROVE  \A n \in Nat : \E f : f = [i \in 0 .. n |-> Place(root, path, f, i)]
<1> DEFINE Runs(f, n) == f = [i \in 0 .. n |-> Place(root, path, f, i)]
           Stuck == {n \in Nat : ~\E f : Runs(f, n)}
<1>1. ASSUME Stuck # {} PROVE FALSE
  <2>1. PICK m \in Stuck : \A n \in Stuck : m <= n
    BY <1>1, Least
  <2>2. CASE m = 0
    <3> DEFINE f == [i \in 0 .. 0 |-> root]
    <3>1. Runs(f, 0)
      BY DEF Place
    <3> QED
      BY <2>2, <3>1
  <2>3. CASE m # 0
    <3>1. m - 1 \in Nat /\ m - 1 \notin Stuck
      BY <2>1, <2>3
    <3>2. PICK g : Runs(g, m - 1)
      BY <3>1
    <3> DEFINE f == [i \in 0 .. m |-> IF i = m THEN Place(root, path, g, m) ELSE g[i]]
    <3>3. \A i \in 0 .. m : f[i] = Place(root, path, f, i)
      <4> SUFFICES ASSUME NEW i \in 0 .. m PROVE f[i] = Place(root, path, f, i)
        OBVIOUS
      <4>1. i # 0 => i - 1 \in 0 .. m - 1 /\ f[i - 1] = g[i - 1]
        OBVIOUS
      <4>2. Place(root, path, f, i) = Place(root, path, g, i)
        BY <4>1 DEF Place
      <4>3. i # m => i \in 0 .. m - 1 /\ g[i] = Place(root, path, g, i)
        BY <3>2
      <4> QED
        BY <4>2, <4>3
    <3>4. Runs(f, m)
      BY <3>3
    <3> QED
      BY <3>4
  <2> QED
    BY <2>2, <2>3
<1> QED
  BY <1>1

\* Each token leads on from where the one before it led.
LEMMA StepByStep ==
  ASSUME NEW root, NEW path, Len(path) \in Nat
  PROVE  /\ Walk(root, path)[0] = root
         /\ \A i \in 1 .. Len(path) :
              Walk(root, path)[i] = Place(root, path, Walk(root, path), i)
<1> DEFINE t == Walk(root, path)
           n == Len(path)
<1>1. PICK f : f = [i \in 0 .. n |-> Place(root, path, f, i)]
  BY PlacesExist
<1>2. f = [i \in 0 .. n |->
             IF i = 0 THEN root
             ELSE IF f[i - 1] # None /\ path[i] \in DOMAIN FieldsOf(f[i - 1])
             THEN FieldsOf(f[i - 1])[path[i]]
             ELSE None]
  BY <1>1 DEF Place
<1>3. t = [i \in 0 .. n |->
             IF i = 0 THEN root
             ELSE IF t[i - 1] # None /\ path[i] \in DOMAIN FieldsOf(t[i - 1])
             THEN FieldsOf(t[i - 1])[path[i]]
             ELSE None]
  BY <1>2 DEF Walk
<1> HIDE DEF t, n
<1>4. 0 \in 0 .. n /\ \A i \in 1 .. n : i \in 0 .. n /\ i # 0
  BY DEF n
<1>5. t[0] = root /\ \A i \in 1 .. n : t[i] = Place(root, path, t, i)
  BY <1>3, <1>4 DEF Place
<1> QED
  BY <1>5 DEF t, n

----------------------------------------------------------------------------
(* Two trees side by side.                                                  *)

\* What a token leads to is a child.
LEMMA FieldIsChild ==
  ASSUME NEW x, NEW step \in DOMAIN FieldsOf(x)
  PROVE  FieldsOf(x)[step] \in Children(x)
<1>1. CASE x.t = "pair"
  <2>1. FieldsOf(x) = <<>>
    BY <1>1 DEF FieldsOf
  <2> QED
    BY <2>1
<1>2. CASE x.t # "pair"
  <2>1. Children(x) = Range(FieldsOf(x))
    BY <1>2 DEF Children
  <2> QED
    BY <2>1 DEF Range
<1> QED
  BY <1>1, <1>2

\* The pairs of two trees are pairs of their nodes, generation by generation.
LEMMA PairsProject ==
  ASSUME NEW s, NEW v
  PROVE  \A n \in 0 .. MaxDepth : \A p \in Generations(Pair(s, v))[n] :
           /\ p = Pair(p.schema, p.value)
           /\ p.schema \in Generations(s)[n] /\ p.value \in Generations(v)[n]
<1> DEFINE Projects(p, n) ==
             /\ p = Pair(p.schema, p.value)
             /\ p.schema \in Generations(s)[n] /\ p.value \in Generations(v)[n]
           Wrong == {n \in 0 .. MaxDepth : \E p \in Generations(Pair(s, v))[n] : ~Projects(p, n)}
<1>1. ASSUME Wrong # {} PROVE FALSE
  <2>1. PICK m \in Wrong : \A n \in Wrong : m <= n
    <3>1. Wrong \in SUBSET Nat
      OBVIOUS
    <3> HIDE DEF Wrong
    <3> QED
      BY <1>1, <3>1, Least
  <2>2. PICK p \in Generations(Pair(s, v))[m] : ~Projects(p, m)
    OBVIOUS
  <2>3. CASE m = 0
    <3>1. p = Pair(s, v) /\ s \in Generations(s)[0] /\ v \in Generations(v)[0]
      BY <2>2, <2>3, GenerationByGeneration
    <3> QED
      BY <2>2, <2>3, <3>1 DEF Pair
  <2>4. CASE m # 0
    <3>1. m \in 1 .. MaxDepth /\ m - 1 \in 0 .. MaxDepth /\ m - 1 \notin Wrong
      BY <2>1, <2>4, DepthIsNumber
    <3>2. PICK q \in Generations(Pair(s, v))[m - 1] : p \in Children(q)
      BY <2>2, <3>1, GenerationByGeneration
    <3>3. Projects(q, m - 1)
      BY <3>1, <3>2
    <3>4. PICK step \in DOMAIN FieldsOf(q.schema) \cap DOMAIN FieldsOf(q.value) :
            p = Pair(FieldsOf(q.schema)[step], FieldsOf(q.value)[step])
      <4>1. q.t = "pair"
        BY <3>3 DEF Pair
      <4> QED
        BY <3>2, <4>1 DEF Children
    <3>5. FieldsOf(q.schema)[step] \in Generations(s)[m]
      BY <3>1, <3>3, FieldIsChild, GenerationByGeneration
    <3>6. FieldsOf(q.value)[step] \in Generations(v)[m]
      BY <3>1, <3>3, FieldIsChild, GenerationByGeneration
    <3>7. Projects(p, m)
      BY <3>4, <3>5, <3>6 DEF Pair
    <3> QED
      BY <2>2, <3>7
  <2> QED
    BY <2>3, <2>4
<1> QED
  BY <1>1

\* Of a declared schema and an input that it accepts, each pair is of one kind,
\* and everything below the value is declared.
LEMMA PairsFit ==
  ASSUME NEW schema, NEW limits, SchemaOK(schema, limits),
         NEW in \in Inputs, Accepts(schema, in.raw),
         NEW n \in 0 .. MaxDepth, NEW s, NEW v, Pair(s, v) \in Generations(Pair(schema, in.raw))[n]
  PROVE  /\ s \in Generations(schema)[n] /\ v \in Generations(in.raw)[n]
         /\ v.t = KindOf(s) /\ v.t # "pair"
         /\ DOMAIN FieldsOf(v) \subseteq DOMAIN FieldsOf(s)
         /\ s.t = "object" => s.required \subseteq DOMAIN FieldsOf(v)
<1> DEFINE p == Pair(s, v)
<1>1. p.schema = s /\ p.value = v
  BY DEF Pair
<1>2. s \in Generations(schema)[n] /\ v \in Generations(in.raw)[n]
  BY <1>1, PairsProject
<1>3. s \in Nodes(schema) /\ v \in Nodes(in.raw) /\ p \in Nodes(Pair(schema, in.raw))
  BY <1>2 DEF Nodes
<1>4. NodeOK(s, limits) /\ NodeAccepts(s, v)
  BY <1>1, <1>3 DEF SchemaOK, Accepts
<1>5. v.t = "arr" => DOMAIN v.items \subseteq DOMAIN IndexToken
  BY <1>3, InputsAreTrees
<1> HIDE DEF p
<1>6. CASE s.t = "object"
  BY <1>2, <1>4, <1>6 DEF NodeAccepts, KindOf, FieldsOf
<1>7. CASE s.t = "array"
  <2>1. v.t = "arr"
    BY <1>4, <1>7 DEF NodeAccepts
  <2>2. DOMAIN FieldsOf(v) = {IndexToken[i] : i \in DOMAIN v.items}
    BY <2>1 DEF FieldsOf
  <2>3. DOMAIN FieldsOf(s) = Range(IndexToken)
    BY <1>7 DEF FieldsOf
  <2>4. DOMAIN FieldsOf(v) \subseteq DOMAIN FieldsOf(s)
    BY <1>5, <2>1, <2>2, <2>3 DEF Range
  <2> QED
    BY <1>2, <1>7, <2>1, <2>4 DEF KindOf
<1>8. CASE s.t \notin {"object", "array"}
  <2>1. v.t = KindOf(s) /\ v.t \in {"str", "int", "boolean", "null"}
    BY <1>4, <1>8 DEF NodeOK, NodeAccepts, KindOf
  <2>2. FieldsOf(v) = <<>>
    BY <2>1 DEF FieldsOf
  <2>3. DOMAIN FieldsOf(v) \subseteq DOMAIN FieldsOf(s)
    BY <2>2
  <2> QED
    BY <1>2, <1>8, <2>1, <2>3
<1> QED
  BY <1>6, <1>7, <1>8

\* What is below the value of a pair has its pair in the next generation.
LEMMA PairsGoOn ==
  ASSUME NEW schema, NEW limits, SchemaOK(schema, limits),
         NEW in \in Inputs, Accepts(schema, in.raw),
         NEW n \in 1 .. MaxDepth, NEW s, NEW v,
         Pair(s, v) \in Generations(Pair(schema, in.raw))[n - 1],
         NEW step \in DOMAIN FieldsOf(v)
  PROVE  Pair(FieldsOf(s)[step], FieldsOf(v)[step]) \in Generations(Pair(schema, in.raw))[n]
<1>1. n - 1 \in 0 .. MaxDepth
  BY DepthIsNumber
<1>2. step \in DOMAIN FieldsOf(s) \cap DOMAIN FieldsOf(v)
  BY <1>1, PairsFit
<1>3. Pair(s, v).t = "pair" /\ Pair(s, v).schema = s /\ Pair(s, v).value = v
  BY DEF Pair
<1>4. Pair(FieldsOf(s)[step], FieldsOf(v)[step]) \in Children(Pair(s, v))
  BY <1>2, <1>3 DEF Children
<1> QED
  BY <1>4, GenerationByGeneration

\* Where no name comes twice, the member that a map keeps is the one that was sent.
LEMMA NoneIsHidden ==
  ASSUME NEW in \in Inputs, Strict(in.raw), NEW x \in Nodes(in.raw), x.t = "obj",
         NEW i \in DOMAIN x.members
  PROVE  FieldsOf(x)[x.members[i][1]] = x.members[i][2]
<1> DEFINE names == NamesOf(x.members)
           name == names[i]
           Sent(j) == names[j] = name /\ \A k \in DOMAIN names : names[k] = name => k <= j
           last == CHOOSE j \in DOMAIN names : Sent(j)
<1>1. /\ DOMAIN names = DOMAIN x.members /\ name = x.members[i][1]
      /\ i \in DOMAIN names /\ DOMAIN names \subseteq Nat
  BY InputsAreTrees DEF NamesOf
<1>2. \A j \in DOMAIN names : names[j] = name => j = i
  BY <1>1 DEF Strict, IsInjective
<1>3. Sent(i)
  BY <1>1, <1>2
<1>4. last \in DOMAIN names /\ Sent(last)
  BY <1>1, <1>3
<1>5. last = i
  BY <1>2, <1>4
<1>6. name \in Range(names)
  BY <1>1 DEF Range
<1>7. FieldsOf(x)[name] = Kept(x.members, name)
  BY <1>6 DEF FieldsOf
<1>8. Kept(x.members, name) = x.members[last][2]
  BY DEF Kept
<1> QED
  BY <1>1, <1>5, <1>7, <1>8

\* Every node of an input that is accepted was held against a schema.
LEMMA ValuesArePaired ==
  ASSUME NEW schema, NEW limits, SchemaOK(schema, limits),
         NEW in \in Inputs, Accepts(schema, in.raw)
  PROVE  \A n \in 0 .. MaxDepth : \A v \in Generations(in.raw)[n] :
           \E s : Pair(s, v) \in Generations(Pair(schema, in.raw))[n]
<1> DEFINE Paired(v, n) == \E s : Pair(s, v) \in Generations(Pair(schema, in.raw))[n]
           Wrong == {n \in 0 .. MaxDepth : \E v \in Generations(in.raw)[n] : ~Paired(v, n)}
<1>1. ASSUME Wrong # {} PROVE FALSE
  <2>1. PICK m \in Wrong : \A n \in Wrong : m <= n
    <3>1. Wrong \in SUBSET Nat
      OBVIOUS
    <3> HIDE DEF Wrong
    <3> QED
      BY <1>1, <3>1, Least
  <2>2. PICK v \in Generations(in.raw)[m] : ~Paired(v, m)
    OBVIOUS
  <2>3. CASE m = 0
    <3>1. v = in.raw /\ Pair(schema, in.raw) \in Generations(Pair(schema, in.raw))[0]
      BY <2>2, <2>3, GenerationByGeneration
    <3> QED
      BY <2>2, <2>3, <3>1
  <2>4. CASE m # 0
    <3>1. m \in 1 .. MaxDepth /\ m - 1 \in 0 .. MaxDepth /\ m - 1 \notin Wrong
      BY <2>1, <2>4, DepthIsNumber
    <3>2. PICK w \in Generations(in.raw)[m - 1] : v \in Children(w)
      BY <2>2, <3>1, GenerationByGeneration
    <3>3. PICK s : Pair(s, w) \in Generations(Pair(schema, in.raw))[m - 1]
      BY <3>1, <3>2
    <3>4. w.t # "pair"
      BY <3>1, <3>3, PairsFit
    <3>5. PICK step \in DOMAIN FieldsOf(w) : v = FieldsOf(w)[step]
      BY <3>2, <3>4 DEF Children, Range
    <3>6. Paired(v, m)
      BY <3>1, <3>3, <3>5, PairsGoOn
    <3> QED
      BY <2>2, <3>6
  <2> QED
    BY <2>3, <2>4
<1> QED
  BY <1>1

\* A declared schema accepts nothing that has a generation it has not.
LEMMA NothingDeeper ==
  ASSUME NEW schema, NEW limits, SchemaOK(schema, limits),
         NEW in \in Inputs, Accepts(schema, in.raw)
  PROVE  NoDeeper(in.raw, limits.depth)
<1> DEFINE d == limits.depth
<1>1. d \in 0 .. MaxDepth
  BY DepthIsNumber DEF SchemaOK, LimitsOK
<1>2. Generations(schema)[d] = {}
  BY <1>1, DepthIsNumber DEF SchemaOK, DepthOK
<1>3. ASSUME NEW v \in Generations(in.raw)[d] PROVE FALSE
  <2>1. PICK s : Pair(s, v) \in Generations(Pair(schema, in.raw))[d]
    BY <1>1, ValuesArePaired
  <2> QED
    BY <1>1, <1>2, <2>1, PairsFit
<1> QED
  BY <1>3 DEF NoDeeper

\* A path that leads to a place of an accepted input leads to a schema, and the
\* two are a pair.
LEMMA PathsArePaired ==
  ASSUME NEW schema, NEW limits, SchemaOK(schema, limits), None \notin Nodes(schema),
         NEW in \in Inputs, Accepts(schema, in.raw),
         NEW path, Len(path) \in 0 .. MaxDepth
  PROVE  \A n \in 0 .. Len(path) : Walk(in.raw, path)[n] # None =>
           /\ Walk(schema, path)[n] # None
           /\ Pair(Walk(schema, path)[n], Walk(in.raw, path)[n])
                \in Generations(Pair(schema, in.raw))[n]
<1> DEFINE v == Walk(in.raw, path)
           s == Walk(schema, path)
           Meets(n) == v[n] # None =>
                         /\ s[n] # None
                         /\ Pair(s[n], v[n]) \in Generations(Pair(schema, in.raw))[n]
           Wrong == {n \in 0 .. Len(path) : ~Meets(n)}
<1>0. Len(path) \in Nat
  BY DepthIsNumber
<1>1. /\ v[0] = in.raw /\ s[0] = schema
      /\ \A i \in 1 .. Len(path) : v[i] = Place(in.raw, path, v, i) /\ s[i] = Place(schema, path, s, i)
  BY <1>0, StepByStep
<1> HIDE DEF v, s
<1>2. ASSUME NEW n \in 0 .. MaxDepth, Pair(s[n], v[n]) \in Generations(Pair(schema, in.raw))[n]
      PROVE  s[n] # None
  <2>1. s[n] \in Generations(schema)[n]
    BY <1>2, PairsFit
  <2> QED
    BY <2>1 DEF Nodes
<1>3. ASSUME Wrong # {} PROVE FALSE
  <2>1. PICK m \in Wrong : \A n \in Wrong : m <= n
    <3>1. Wrong \in SUBSET Nat
      BY <1>0
    <3> HIDE DEF Wrong
    <3> QED
      BY <1>3, <3>1, Least
  <2>2. m \in 0 .. MaxDepth
    BY <1>0, DepthIsNumber
  <2>3. CASE m = 0
    <3>1. Pair(s[0], v[0]) \in Generations(Pair(schema, in.raw))[0]
      BY <1>1, GenerationByGeneration
    <3> QED
      BY <1>2, <2>2, <2>3, <3>1
  <2>4. CASE m # 0
    <3>1. m \in 1 .. Len(path) /\ m \in 1 .. MaxDepth /\ m - 1 \in 0 .. Len(path) /\ m - 1 \notin Wrong
      BY <1>0, <2>1, <2>2, <2>4, DepthIsNumber
    <3>2. v[m] # None
      BY <2>1
    <3>3. /\ v[m - 1] # None /\ path[m] \in DOMAIN FieldsOf(v[m - 1])
          /\ v[m] = FieldsOf(v[m - 1])[path[m]]
      BY <1>1, <3>1, <3>2, <2>4 DEF Place
    <3>4. s[m - 1] # None /\ Pair(s[m - 1], v[m - 1]) \in Generations(Pair(schema, in.raw))[m - 1]
      BY <3>1, <3>3
    <3>5. path[m] \in DOMAIN FieldsOf(s[m - 1])
      <4>1. m - 1 \in 0 .. MaxDepth
        BY <3>1, DepthIsNumber
      <4> QED
        BY <3>3, <3>4, <4>1, PairsFit
    <3>6. s[m] = FieldsOf(s[m - 1])[path[m]]
      BY <1>1, <3>1, <3>4, <3>5, <2>4 DEF Place
    <3>7. Pair(s[m], v[m]) \in Generations(Pair(schema, in.raw))[m]
      BY <3>1, <3>3, <3>4, <3>6, PairsGoOn
    <3> QED
      BY <1>2, <2>1, <2>2, <3>7
  <2> QED
    BY <2>3, <2>4
<1>4. \A n \in 0 .. Len(path) : Meets(n)
  BY <1>3
<1> QED
  BY <1>4 DEF v, s

----------------------------------------------------------------------------
(* The loop.                                                                *)

\* What the loop's state is after its turn i, if f is the state before it.
Turn(v, rules, list, f, i) ==
  IF i = 0 THEN Untaken(list) ELSE TakeGrant(v, f[i - 1], rules[i])

\* The loop can be run to any number of turns.
LEMMA TurnsExist ==
  ASSUME NEW v, NEW rules, NEW list
  PROVE  \A n \in Nat : \E f : f = [i \in 0 .. n |-> Turn(v, rules, list, f, i)]
<1> DEFINE Runs(f, n) == f = [i \in 0 .. n |-> Turn(v, rules, list, f, i)]
           Stuck == {n \in Nat : ~\E f : Runs(f, n)}
<1>1. ASSUME Stuck # {} PROVE FALSE
  <2>1. PICK m \in Stuck : \A n \in Stuck : m <= n
    BY <1>1, Least
  <2>2. CASE m = 0
    <3> DEFINE f == [i \in 0 .. 0 |-> Untaken(list)]
    <3>1. Runs(f, 0)
      BY DEF Turn
    <3> QED
      BY <2>2, <3>1
  <2>3. CASE m # 0
    <3>1. m - 1 \in Nat /\ m - 1 \notin Stuck
      BY <2>1, <2>3
    <3>2. PICK g : Runs(g, m - 1)
      BY <3>1
    <3> DEFINE f == [i \in 0 .. m |-> IF i = m THEN Turn(v, rules, list, g, m) ELSE g[i]]
    <3>3. \A i \in 0 .. m : f[i] = Turn(v, rules, list, f, i)
      <4> SUFFICES ASSUME NEW i \in 0 .. m PROVE f[i] = Turn(v, rules, list, f, i)
        OBVIOUS
      <4>1. i # 0 => i - 1 \in 0 .. m - 1 /\ f[i - 1] = g[i - 1]
        OBVIOUS
      <4>2. Turn(v, rules, list, f, i) = Turn(v, rules, list, g, i)
        BY <4>1 DEF Turn
      <4>3. i # m => i \in 0 .. m - 1 /\ g[i] = Turn(v, rules, list, g, i)
        BY <3>2
      <4> QED
        BY <4>2, <4>3
    <3>4. Runs(f, m)
      BY <3>3
    <3> QED
      BY <3>4
  <2> QED
    BY <2>2, <2>3
<1> QED
  BY <1>1

\* Each turn starts from the state the one before it left.
LEMMA TurnByTurn ==
  ASSUME NEW v, NEW rules, NEW list, Len(rules) \in Nat
  PROVE  /\ Turns(v, rules, list)[0] = Untaken(list)
         /\ \A i \in 1 .. Len(rules) :
              Turns(v, rules, list)[i] = TakeGrant(v, Turns(v, rules, list)[i - 1], rules[i])
<1> DEFINE t == Turns(v, rules, list)
<1>1. PICK f : f = [i \in 0 .. Len(rules) |-> Turn(v, rules, list, f, i)]
  BY TurnsExist, SMTT(30)
<1>2. f = [i \in 0 .. Len(rules) |->
             IF i = 0 THEN Untaken(list) ELSE TakeGrant(v, f[i - 1], rules[i])]
  BY <1>1 DEF Turn
<1>3. t = [i \in 0 .. Len(rules) |->
             IF i = 0 THEN Untaken(list) ELSE TakeGrant(v, t[i - 1], rules[i])]
  BY <1>2 DEF Turns
<1> HIDE DEF t
<1> QED
  BY <1>3 DEF t

\* What a rule asks for, and what is committed to for it.
GrantOf(v, rule) == [id |-> rule.id, resource |-> ResourceAt(v, rule)]

CommitmentOf(v, rule) ==
  [id |-> rule.id, resource |-> ResourceAt(v, rule), primary |-> rule.primary]

\* What the loop has established when it has seen the first k rules.
Sorted(v, rules, list, state, k) ==
  /\ state.supplied = ToSet(list) \ {GrantOf(v, rules[i]) : i \in 1 .. k}
  /\ state.ok => \A i \in 1 .. k :
                   ResourceAt(v, rules[i]) # None /\ GrantOf(v, rules[i]) \in ToSet(list)
  /\ state.commitments = {CommitmentOf(v, rules[i]) : i \in 1 .. k}
  /\ \A i \in 1 .. k :
       rules[i].primary /\ (\A j \in 1 .. k : rules[j].primary => j = i) =>
         state.primary = ResourceAt(v, rules[i])

\* It has established that in the end: the least turn after which it had not
\* would come after one after which it had.
LEMMA LoopSorts ==
  ASSUME NEW v, NEW rules, NEW list, Len(rules) \in Nat
  PROVE  Sorted(v, rules, list, TakeAll(v, rules, list), Len(rules))
<1> DEFINE t == Turns(v, rules, list)
           Late == {k \in 0 .. Len(rules) : ~Sorted(v, rules, list, t[k], k)}
<1>1. ASSUME Late # {} PROVE FALSE
  <2>1. PICK m \in Late : \A k \in Late : m <= k
    <3>1. Late \in SUBSET Nat
      OBVIOUS
    <3> HIDE DEF Late
    <3> QED
      BY <1>1, <3>1, Least
  <2>2. CASE m = 0
    <3>1. t[0] = Untaken(list)
      BY TurnByTurn
    <3>2. Sorted(v, rules, list, t[0], 0)
      BY <3>1 DEF Sorted, Untaken
    <3> QED
      BY <2>2, <3>2
  <2>3. CASE m # 0
    <3>1. m \in 1 .. Len(rules) /\ m - 1 \in 0 .. Len(rules) /\ m - 1 \notin Late
      BY <2>1, <2>3
    <3> DEFINE s == t[m - 1]
               r == ResourceAt(v, rules[m])
    <3>2. Sorted(v, rules, list, s, m - 1)
      BY <3>1
    <3>3. t[m] = TakeGrant(v, s, rules[m])
      BY <3>1, TurnByTurn
    <3> HIDE DEF t, Late
    <3>4. /\ t[m].ok = (s.ok /\ r # None /\ GrantOf(v, rules[m]) \in s.supplied)
          /\ t[m].supplied = s.supplied \ {GrantOf(v, rules[m])}
          /\ t[m].commitments = s.commitments \cup {CommitmentOf(v, rules[m])}
          /\ t[m].primary = IF rules[m].primary THEN r ELSE s.primary
      BY <3>3 DEF TakeGrant, GrantOf, CommitmentOf
    <3> HIDE DEF s
    <3>5. \A i \in 1 .. m : i = m \/ i \in 1 .. m - 1
      BY <3>1
    <3>6. m \in 1 .. m /\ \A i \in 1 .. m - 1 : i \in 1 .. m /\ i # m
      BY <3>1
    <3> HIDE DEF r
    <3>7. t[m].supplied = ToSet(list) \ {GrantOf(v, rules[i]) : i \in 1 .. m}
      BY <3>2, <3>4, <3>5, <3>6 DEF Sorted
    <3>8. t[m].commitments = {CommitmentOf(v, rules[i]) : i \in 1 .. m}
      BY <3>2, <3>4, <3>5, <3>6 DEF Sorted
    <3>9. ASSUME t[m].ok, NEW i \in 1 .. m
          PROVE  ResourceAt(v, rules[i]) # None /\ GrantOf(v, rules[i]) \in ToSet(list)
      BY <3>2, <3>4, <3>5, <3>9 DEF Sorted, r
    <3>10. ASSUME NEW i \in 1 .. m, rules[i].primary,
                  \A j \in 1 .. m : rules[j].primary => j = i
           PROVE  t[m].primary = ResourceAt(v, rules[i])
      <4>1. CASE i = m
        BY <3>4, <3>10, <4>1 DEF r
      <4>2. CASE i # m
        <5>1. i \in 1 .. m - 1 /\ ~rules[m].primary
          BY <3>5, <3>6, <3>10, <4>2
        <5>2. s.primary = ResourceAt(v, rules[i])
          BY <3>2, <3>6, <3>10, <5>1 DEF Sorted
        <5> QED
          BY <3>4, <5>1, <5>2
      <4> QED
        BY <4>1, <4>2
    <3>11. Sorted(v, rules, list, t[m], m)
      BY <3>7, <3>8, <3>9, <3>10 DEF Sorted
    <3> QED
      BY <2>1, <3>11 DEF Late
  <2> QED
    BY <2>2, <2>3
<1>2. Len(rules) \in 0 .. Len(rules)
  OBVIOUS
<1> QED
  BY <1>1, <1>2 DEF TakeAll

----------------------------------------------------------------------------
(* Counting.                                                                *)

\* Two members of a set with at most one are the same.
LEMMA AtMostOne ==
  ASSUME NEW S, IsFiniteSet(S), Cardinality(S) <= 1, NEW a \in S, NEW b \in S
  PROVE  a = b
<1>1. IsFiniteSet(S \ {a}) /\ Cardinality(S \ {a}) = Cardinality(S) - 1
  BY FS_RemoveElement
<1>2. Cardinality(S) \in Nat /\ Cardinality(S \ {a}) \in Nat
  BY <1>1, FS_CardinalityType
<1>3. Cardinality(S \ {a}) = 0
  BY <1>1, <1>2
<1>4. S \ {a} = {}
  BY <1>1, <1>3, FS_EmptySet
<1> QED
  BY <1>4

\* A list without a binding granted twice is as long as the set of its grants.
LEMMA LengthIsSize ==
  ASSUME NEW list, list \in Seq(Range(list)), NoDuplicateGrant(list)
  PROVE  Len(list) = Cardinality(Range(list))
<1> DEFINE S == Range(list)
           n == Len(list)
<1>1. n \in Nat /\ list \in [1 .. n -> S] /\ DOMAIN list = 1 .. n
  OBVIOUS
<1>2. \A i, j \in 1 .. n : list[i] = list[j] => i = j
  BY <1>1 DEF NoDuplicateGrant, IsInjective
<1>3. \A x \in S : \E i \in 1 .. n : list[i] = x
  BY <1>1 DEF Range
<1>4. list \in Bijection(1 .. n, S)
  BY <1>1, <1>2, <1>3 DEF Bijection, Injection, Surjection, IsInjective
<1>5. ExistsBijection(1 .. n, S)
  BY <1>4 DEF ExistsBijection
<1> HIDE DEF S, n
<1>6. Cardinality(S) = n
  BY <1>1, <1>5, FS_CountingElements
<1> QED
  BY <1>6 DEF S, n

----------------------------------------------------------------------------
(* Preparing an invocation.                                                 *)

\* What is prepared was declared, and its input parsed and accepted.
Admitted ==
  /\ operation \in Operations
  /\ status # "undeclared" => DeclarationOK(operation)
  /\ input # None => input \in Inputs
  /\ Prepared => /\ input \in Inputs
                 /\ ParsesStrictly(input, operation.limits)
                 /\ Accepts(operation.schema, input.raw)

IInv == Admitted /\ GrantsAreExact

\* GrantsAreExact of one value, one list of rules and what was made of them.
Exact(v, rules, list, committed, chosen) ==
  LET text(r) == Pointer(v, r.pointer).text
      named == {[id |-> r.id, resource |-> text(r)] : r \in Range(rules)}
  IN /\ Range(list) = named
     /\ Len(list) = Cardinality(named)
     /\ committed = {[id |-> r.id, resource |-> text(r), primary |-> r.primary] :
                       r \in Range(rules)}
     /\ \A r \in Range(rules) : r.primary => chosen = text(r)

\* Grants that a declared operation takes in full are the ones its rules name.
LEMMA TakenIsExact ==
  ASSUME NEW op \in Operations, DeclarationOK(op),
         NEW list \in GrantLists, NoDuplicateGrant(list), NEW v, NEW taken,
         taken = TakeAll(v, op.rules, list), GrantsFit(taken)
  PROVE  Exact(v, op.rules, list, taken.commitments, taken.primary)
<1> DEFINE text(r) == Pointer(v, r.pointer).text
           n == Len(op.rules)
           named == {[id |-> r.id, resource |-> text(r)] : r \in Range(op.rules)}
<1>1. /\ n \in Nat /\ DOMAIN op.rules = 1 .. n
      /\ list \in Seq(Range(list))
  BY VectorsAreSequences
<1>2. Range(op.rules) = {op.rules[i] : i \in 1 .. n} /\ Range(list) = ToSet(list)
  BY <1>1 DEF Range, ToSet
<1>3. Sorted(v, op.rules, list, taken, n)
  BY <1>1, LoopSorts
<1>4. \A i \in 1 .. n :
        /\ ResourceAt(v, op.rules[i]) = text(op.rules[i])
        /\ GrantOf(v, op.rules[i]) \in ToSet(list)
  BY <1>3 DEF Sorted, GrantsFit, ResourceAt
<1>5. \A r \in Range(op.rules) :
        /\ GrantOf(v, r) = [id |-> r.id, resource |-> text(r)]
        /\ CommitmentOf(v, r) = [id |-> r.id, resource |-> text(r), primary |-> r.primary]
  BY <1>2, <1>4 DEF GrantOf, CommitmentOf
<1>6. Range(list) = named
  <2>1. ToSet(list) = {GrantOf(v, op.rules[i]) : i \in 1 .. n}
    BY <1>3, <1>4 DEF Sorted, GrantsFit
  <2> QED
    BY <1>2, <1>5, <2>1
<1>7. Len(list) = Cardinality(named)
  BY <1>1, <1>6, LengthIsSize
<1>8. taken.commitments =
        {[id |-> r.id, resource |-> text(r), primary |-> r.primary] : r \in Range(op.rules)}
  <2>1. taken.commitments = {CommitmentOf(v, op.rules[i]) : i \in 1 .. n}
    BY <1>3 DEF Sorted
  <2> QED
    BY <1>2, <1>5, <2>1
<1>9. ASSUME NEW r \in Range(op.rules), r.primary PROVE taken.primary = text(r)
  <2> DEFINE P == {i \in DOMAIN op.rules : op.rules[i].primary}
  <2>1. PICK i \in 1 .. n : r = op.rules[i]
    BY <1>2
  <2>2. Cardinality(P) <= 1
    BY DEF DeclarationOK
  <2>3. IsFiniteSet(1 .. n)
    BY <1>1, FS_Interval
  <2>4. P \in SUBSET (1 .. n)
    BY <1>1
  <2>5. IsFiniteSet(P)
    BY <2>3, <2>4, FS_Subset
  <2>6. ASSUME NEW j \in 1 .. n, op.rules[j].primary PROVE j = i
    <3>1. i \in P /\ j \in P
      BY <1>1, <1>9, <2>1, <2>6
    <3> HIDE DEF P
    <3> QED
      BY <2>2, <2>5, <3>1, AtMostOne
  <2>7. taken.primary = ResourceAt(v, op.rules[i])
    BY <1>3, <1>9, <2>1, <2>6 DEF Sorted
  <2> QED
    BY <1>4, <2>1, <2>7
<1> QED
  BY <1>6, <1>7, <1>8, <1>9 DEF Exact

\* Every step keeps the invariant.
LEMMA Step == IInv /\ [Next]_vars => IInv'
<1> SUFFICES ASSUME IInv, [Next]_vars PROVE IInv'
  OBVIOUS
<1>1. ASSUME Declare PROVE IInv'
  <2>1. status' = "declared" /\ DeclarationOK(operation) /\ operation' = operation /\ input' = input
    BY <1>1 DEF Declare
  <2>2. Admitted'
    BY <2>1 DEF IInv, Admitted, Prepared, DeclarationOK
  <2> QED
    BY <2>1, <2>2 DEF IInv, GrantsAreExact, Prepared
<1>2. ASSUME NEW in \in Inputs, NEW list \in GrantLists, Prepare(in, list) PROVE IInv'
  <2>1. /\ operation' = operation /\ input' = in
        /\ status = "declared" /\ status' \in {"prepared", "refused"}
    BY <1>2 DEF Prepare
  <2>2. operation \in Operations /\ DeclarationOK(operation)
    BY <2>1 DEF IInv, Admitted
  <2>3. ASSUME Prepared'
        PROVE  ParsesStrictly(in, operation.limits) /\ Accepts(operation.schema, in.raw)
    BY <1>2, <2>3 DEF Prepare, Prepared
  <2>4. ASSUME Prepared' PROVE GrantsAreExact'
    <3> DEFINE taken == TakeAll(in.raw, operation.rules, list)
    <3>1. /\ NoDuplicateGrant(list) /\ GrantsFit(taken)
          /\ grants' = list
          /\ commitments' = taken.commitments /\ primary' = taken.primary
      BY <1>2, <2>4 DEF Prepare, Prepared
    <3>2. Exact(in.raw, operation.rules, list, taken.commitments, taken.primary)
      <4> DEFINE v == in.raw
      <4> HIDE DEF v
      <4> QED
        BY <2>2, <3>1, TakenIsExact DEF v
    <3> HIDE DEF taken
    <3> QED
      BY <2>1, <3>1, <3>2 DEF GrantsAreExact, Exact
  <2>5. Admitted'
    BY <2>1, <2>2, <2>3 DEF Admitted, DeclarationOK
  <2> QED
    BY <2>4, <2>5 DEF IInv, GrantsAreExact
<1>3. CASE UNCHANGED vars
  BY <1>3 DEF vars, IInv, Admitted, GrantsAreExact, Prepared, DeclarationOK
<1> QED
  BY <1>1, <1>2, <1>3 DEF Next

LEMMA Invariance == Spec => []IInv
<1>1. Init => IInv
  BY DEF Init, IInv, Admitted, GrantsAreExact, Prepared
<1> QED
  BY <1>1, Step, PTL DEF Spec

\* What is prepared has the grants its operation's rules name in the input,
\* each once and no other, and commits to exactly them, whatever the input is.
THEOREM PreparedGrantsAreExact == Spec => []GrantsAreExact
<1>1. IInv => GrantsAreExact
  BY DEF IInv
<1> QED
  BY <1>1, Invariance, PTL

\* Whatever a declared schema accepts, of any depth and shape, is within the
\* limit that the schema itself was held to.
THEOREM DeclaredIsShallow == Spec => []DeclaredDepthSuffices
<1>1. IInv => DeclaredDepthSuffices
  BY NothingDeeper DEF IInv, Admitted, DeclarationOK, DeclaredDepthSuffices
<1> QED
  BY <1>1, Invariance, PTL

\* Whatever path leads to a place of a prepared input leads to the schema that
\* the operation declares for it, which the place meets; and nothing that was
\* sent is hidden from these checks.
THEOREM PreparedInputIsDeclared == Spec => []InputIsDeclared
<1>1. ASSUME IInv PROVE InputIsDeclared
  <2> SUFFICES ASSUME Prepared,
                      NEW n \in 0 .. operation.limits.depth,
                      NEW path \in [1 .. n -> TokensOf(input.raw)],
                      Pointer(input.raw, path) # None
               PROVE  /\ Pointer(operation.schema, path) # None
                      /\ Pointer(input.raw, path).t = KindOf(Pointer(operation.schema, path))
                      /\ n < operation.limits.depth
                      /\ Pointer(operation.schema, path).t = "object" =>
                           Pointer(operation.schema, path).required
                             \subseteq DOMAIN FieldsOf(Pointer(input.raw, path))
                      /\ Pointer(input.raw, path).t = "obj" =>
                           \A i \in DOMAIN Pointer(input.raw, path).members :
                             FieldsOf(Pointer(input.raw, path))[Pointer(input.raw, path).members[i][1]]
                               = Pointer(input.raw, path).members[i][2]
    BY DEF InputIsDeclared
  <2> DEFINE s == Pointer(operation.schema, path)
             v == Pointer(input.raw, path)
             d == operation.limits.depth
             all == Pair(operation.schema, input.raw)
  <2>1. /\ SchemaOK(operation.schema, operation.limits)
        /\ None \notin Nodes(operation.schema)
        /\ input \in Inputs /\ Accepts(operation.schema, input.raw)
        /\ NoDeeper(input.raw, d) /\ Strict(input.raw)
    BY <1>1, NoneIsNoSchema DEF IInv, Admitted, Prepared, DeclarationOK, ParsesStrictly
  <2>2. d \in 1 .. MaxDepth /\ n \in 0 .. MaxDepth /\ Len(path) = n
    <3>1. d \in 1 .. MaxDepth
      BY <2>1 DEF SchemaOK, LimitsOK
    <3>2. n \in Nat /\ n <= MaxDepth
      BY <3>1, DepthIsNumber
    <3>3. path \in Seq(TokensOf(input.raw)) /\ Len(path) = n
      BY <3>2
    <3> QED
      BY <3>1, <3>2, <3>3, DepthIsNumber
  <2>3. s # None /\ Pair(s, v) \in Generations(all)[n]
    <3>1. n \in 0 .. Len(path)
      BY <2>2
    <3> QED
      BY <2>1, <2>2, <3>1, PathsArePaired DEF Pointer
  <2> HIDE DEF s, v
  <2>4. /\ v \in Generations(input.raw)[n] /\ v.t = KindOf(s)
        /\ s.t = "object" => s.required \subseteq DOMAIN FieldsOf(v)
    BY <2>1, <2>2, <2>3, PairsFit
  <2>5. n # d
    BY <2>1, <2>4 DEF NoDeeper
  <2>6. n < d
    BY <2>2, <2>5
  <2>7. v.t = "obj" => \A i \in DOMAIN v.members : FieldsOf(v)[v.members[i][1]] = v.members[i][2]
    <3>1. v \in Nodes(input.raw)
      BY <2>2, <2>4 DEF Nodes
    <3> QED
      BY <2>1, <3>1, NoneIsHidden
  <2> QED
    BY <2>3, <2>4, <2>6, <2>7 DEF s, v
<1> QED
  BY <1>1, Invariance, PTL
============================================================================

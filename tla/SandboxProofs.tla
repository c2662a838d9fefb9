--------------------------- MODULE SandboxProofs ---------------------------
(***************************************************************************)
(* TypeOK, RunsWhatWasAsked, OneGuest, GuestIsBounded and StartsWithinUses *)
(* for any number of callers, sandboxes, components, tokens and faults,    *)
(* any deadlines and any stall of the tickers.                             *)
(***************************************************************************)
EXTENDS WasmSandbox, TLAPS

----------------------------------------------------------------------------
(* The inductive invariant.                                                *)

\* A record that the owner made for this engine names the blob that its component
\* compiles to; every other file may hold anything.
Genuine(x) == \A c, d \in Component : x = Record(c, Blob(d)) => c = d

HasModule == {"create", "write", "rename", "check", "run"}

SoundCall(k, worker) ==
  /\ k = None => worker = None
  /\ k # None =>
       /\ k \in Call
       /\ k.token # None <=> k.in \in Executor
       /\ worker # None <=> k.at = "child"
       /\ k.at = "child" => k.in \in WithWorker
       /\ k.module # None <=> k.at \in HasModule
       /\ k.module # None => k.module = k.of
       /\ Genuine(k.record)

Calls == \A p \in Caller : SoundCall(call[p], child[p])

Files == \A c \in Component : Genuine(blobs[c]) /\ Genuine(records[c]) /\ Genuine(temps[c])

\* While a guest has epochs left, each that is gone cost it four half ticks at most.
SoundClock(s) ==
  /\ since[s] <= MaxStall[s] /\ left[s] <= Deadline[s]
  /\ ~Guest(s) => since[s] = 0 /\ left[s] = 0 /\ ran[s] = 0
  /\ Guest(s) /\ left[s] > 0 => ran[s] <= 4 * (Deadline[s] - left[s]) + since[s]
  /\ Guest(s) /\ left[s] = 0 => ran[s] <= 4 * (Deadline[s] - 1) + MaxStall[s]

Clocks == \A s \in Sandbox : SoundClock(s)

\* The use of a call that is not yet at its guest is spent already.
ToStart(e, t) ==
  gate[e] # None /\ call[gate[e]].token = t /\ call[gate[e]].at # "run"

SoundUses(e, t) ==
  /\ uses[e][t] > 0 =>
       token[t] # None /\ t \notin Forged /\ uses[e][t] <= token[t].max_uses
  /\ started[e][t] <= uses[e][t]
  /\ ToStart(e, t) => started[e][t] < uses[e][t]

Uses == \A e \in Executor, t \in Token : SoundUses(e, t)

SInv == TypeOK /\ DOMAIN token = Token /\ Calls /\ Files /\ OneGuest /\ Clocks /\ Uses

----------------------------------------------------------------------------
(* Facts of the state.                                                     *)

LEMMA NoneIsGenuine == Genuine(None) /\ Genuine(Broken) /\ Genuine(Empty)
BY BytesAreDistinct DEF Genuine

LEMMA BlobsDiffer ==
  ASSUME NEW c \in Component, NEW d \in Component, Blob(c) = Blob(d)
  PROVE  c = d
<1>1. Blob(c).module = c /\ Blob(d).module = d
  BY DEF Blob
<1> QED
  BY <1>1

LEMMA BlobIsGenuine ==
  ASSUME NEW e \in Component
  PROVE  Genuine(Blob(e))
<1>1. \A c, d \in Component : Blob(e) # Record(c, Blob(d))
  <2> SUFFICES ASSUME NEW c \in Component, NEW d \in Component, Blob(e) = Record(c, Blob(d))
               PROVE  FALSE
    OBVIOUS
  <2>1. DOMAIN Blob(e) = {"module"}
    BY DEF Blob
  <2>2. "by" \in DOMAIN Record(c, Blob(d))
    BY DEF Record
  <2> QED
    BY <2>1, <2>2
<1> QED
  BY <1>1 DEF Genuine

LEMMA RecordIsGenuine ==
  ASSUME NEW e \in Component
  PROVE  Genuine(Record(e, Blob(e)))
<1> SUFFICES ASSUME NEW c \in Component, NEW d \in Component,
                    Record(e, Blob(e)) = Record(c, Blob(d))
             PROVE  c = d
  BY DEF Genuine
<1>1. Record(e, Blob(e)).component = e /\ Record(e, Blob(e)).blob = Blob(e)
  BY DEF Record
<1>2. Record(c, Blob(d)).component = c /\ Record(c, Blob(d)).blob = Blob(d)
  BY DEF Record
<1> QED
  BY <1>1, <1>2, BlobsDiffer

\* Nor does a record deceive that a stranger signed or a former engine left.
LEMMA ForeignIsGenuine ==
  ASSUME NEW c \in Component, NEW d \in Component
  PROVE  /\ Genuine([Record(c, Blob(d)) EXCEPT !.by = "stranger"])
         /\ Genuine([Record(c, Blob(d)) EXCEPT !.engine = "former"])
<1>1. ASSUME NEW e \in Component, NEW f \in Component
      PROVE  Record(e, Blob(f)).by = "owner" /\ Record(e, Blob(f)).engine = "current"
  BY DEF Record
<1>2. /\ [Record(c, Blob(d)) EXCEPT !.by = "stranger"].by = "stranger"
      /\ [Record(c, Blob(d)) EXCEPT !.engine = "former"].engine = "former"
  BY DEF Record
<1> QED
  BY <1>1, <1>2 DEF Genuine

\* Who is in a sandbox holds its gate, and nobody else does.
LEMMA GateOfCall ==
  ASSUME SInv, NEW p \in Caller, call[p] # None
  PROVE  /\ call[p].in \in Sandbox /\ gate[call[p].in] = p
         /\ SoundCall(call[p], child[p]) /\ call[p] \in Call
BY DEF SInv, Calls, SoundCall, OneGuest, Call

LEMMA ContentHas ==
  /\ {None, Broken, Empty} \subseteq Content
  /\ \A c \in Component : Blob(c) \in Content
  /\ \A c, d \in Component : Record(c, Blob(d)) \in Content
<1>1. \A c, d \in Component : Record(c, Blob(d)) \in Records
  BY DEF Record, Records
<1> QED
  BY <1>1 DEF Content

LEMMA Initially == Init => SInv
<1> SUFFICES ASSUME Init PROVE SInv
  OBVIOUS
<1>1. TypeOK /\ DOMAIN token = Token
  <2>1. V1TypeOK /\ DOMAIN token = Token
    BY TokenBounds DEF Init, V1Init, V1TypeOK
  <2>2. deployed \subseteq Sandbox
    BY SandboxKinds DEF Init
  <2> QED
    BY <2>1, <2>2 DEF Init, V1Init, TypeOK, Content
<1>2. Calls /\ Files
  BY NoneIsGenuine DEF Init, Calls, SoundCall, Files
<1>3. OneGuest
  BY NoneIsNothing DEF Init, OneGuest
<1>4. Clocks
  BY TickerBounds DEF Init, Clocks, SoundClock, Guest
<1>5. Uses
  BY SandboxKinds DEF Init, V1Init, Uses, SoundUses, ToStart
<1> QED
  BY <1>1, <1>2, <1>3, <1>4, <1>5 DEF SInv

----------------------------------------------------------------------------
(* Steps in which no call begins, ends or reaches its guest.               *)

\* What becomes of a call in such a step.
Moves(k, l) ==
  \/ k = None /\ l = None
  \/ k # None /\ l # None /\ l.in = k.in /\ l.token = k.token /\ (l.at = "run" <=> k.at = "run")

LEMMA MovesKeep ==
  ASSUME SInv,
         UNCHANGED <<deployed, gate, poisoned, clock, started, v1>>,
         call' \in [Caller -> Call \cup {None}],
         child' \in [Caller -> Worker \cup {None}],
         \A q \in Caller : Moves(call[q], call'[q]) /\ SoundCall(call'[q], child'[q]),
         {blobs', records', temps'} \subseteq [Component -> Content],
         Files'
  PROVE  SInv'
<1>1. TypeOK' /\ DOMAIN token' = Token
  BY DEF SInv, TypeOK, V1TypeOK, v1, clock
<1>2. Calls'
  BY DEF Calls
<1>3. OneGuest'
  BY DEF SInv, OneGuest, Moves
<1>4. \A s \in Sandbox : Guest(s)' <=> Guest(s)
  BY DEF SInv, TypeOK, Guest, At, Moves
<1>5. Clocks'
  <2> SUFFICES ASSUME NEW s \in Sandbox PROVE SoundClock(s)'
    BY DEF Clocks
  <2>1. SoundClock(s) /\ (Guest(s)' <=> Guest(s))
    BY <1>4 DEF SInv, Clocks
  <2> QED
    BY <2>1 DEF SoundClock, clock
<1>6. Uses'
  <2> SUFFICES ASSUME NEW e \in Executor, NEW t \in Token PROVE SoundUses(e, t)'
    BY DEF Uses
  <2>1. e \in Sandbox
    BY SandboxKinds
  <2>2. ToStart(e, t)' => ToStart(e, t)
    <3>1. gate[e] # None => gate[e] \in Caller /\ call[gate[e]] # None
      BY <2>1 DEF SInv, TypeOK, OneGuest
    <3> QED
      BY <3>1 DEF ToStart, Moves
  <2>3. SoundUses(e, t)
    BY DEF SInv, Uses
  <2> QED
    BY <2>2, <2>3 DEF SoundUses, v1
<1> QED
  BY <1>1, <1>2, <1>3, <1>5, <1>6 DEF SInv

\* Of the other callers no more changes than the file they have open.
OpensOnly(k, l) ==
  \/ l = k
  \/ k # None /\ \E o \in {"temp", "blob", "record", "gone", None} : l = [k EXCEPT !.open = o]

LEMMA OpensOnlyIsSound ==
  ASSUME NEW k, NEW l, NEW worker, OpensOnly(k, l), SoundCall(k, worker)
  PROVE  /\ Moves(k, l) /\ SoundCall(l, worker)
         /\ k \in Call \cup {None} => l \in Call \cup {None}
<1>1. CASE l = k
  BY <1>1 DEF Moves
<1>2. ASSUME NEW o \in {"temp", "blob", "record", "gone", None}, k # None, l = [k EXCEPT !.open = o]
      PROVE  Moves(k, l) /\ SoundCall(l, worker) /\ l \in Call
  <2>1. k \in Call
    BY <1>2 DEF SoundCall
  <2>2. l \in Call /\ l # None
    BY <1>2, <2>1, NoneIsNothing DEF Call
  <2>3. /\ l.in = k.in /\ l.of = k.of /\ l.at = k.at /\ l.token = k.token
        /\ l.record = k.record /\ l.module = k.module
    BY <1>2, <2>1 DEF Call
  <2> QED
    BY <1>2, <2>1, <2>2, <2>3 DEF Moves, SoundCall
<1> QED
  BY <1>1, <1>2 DEF OpensOnly

\* One call moves on, with whatever it does to the cache.
LEMMA CallMoves ==
  ASSUME SInv, NEW p \in Caller, call[p] # None, call[p].at # "run",
         UNCHANGED <<deployed, gate, poisoned, clock, started, v1>>,
         call' = [q \in Caller |-> call'[q]],
         \A q \in Caller : q # p => OpensOnly(call[q], call'[q]) /\ child'[q] = child[q],
         child' \in [Caller -> Worker \cup {None}],
         call'[p] \in Call, call'[p].in = call[p].in, call'[p].token = call[p].token,
         call'[p].at # "run", SoundCall(call'[p], child'[p]),
         {blobs', records', temps'} \subseteq [Component -> Content], Files'
  PROVE  SInv'
<1>1. ASSUME NEW q \in Caller
      PROVE  Moves(call[q], call'[q]) /\ SoundCall(call'[q], child'[q]) /\ call'[q] \in Call \cup {None}
  <2>1. CASE q = p
    BY <2>1, NoneIsNothing DEF Moves
  <2>2. CASE q # p
    <3>1. SoundCall(call[q], child[q]) /\ call[q] \in Call \cup {None}
      BY DEF SInv, Calls, TypeOK
    <3> QED
      BY <2>2, <3>1, OpensOnlyIsSound
  <2> QED
    BY <2>1, <2>2
<1>2. call' \in [Caller -> Call \cup {None}]
  BY <1>1
<1> QED
  BY <1>1, <1>2, MovesKeep

\* The same where nobody else is touched and the cache is as it was.
LEMMA CallGoes ==
  ASSUME SInv, NEW p \in Caller, call[p] # None, call[p].at # "run",
         UNCHANGED <<deployed, gate, poisoned, clock, started, v1, files>>,
         NEW k \in Call, call' = [call EXCEPT ![p] = k],
         NEW worker \in Worker \cup {None}, child' = [child EXCEPT ![p] = worker],
         k.in = call[p].in, k.token = call[p].token, k.at # "run", SoundCall(k, worker)
  PROVE  SInv'
<1>1. /\ call' = [q \in Caller |-> call'[q]]
      /\ \A q \in Caller : q # p => OpensOnly(call[q], call'[q]) /\ child'[q] = child[q]
      /\ child' \in [Caller -> Worker \cup {None}]
      /\ call'[p] = k /\ child'[p] = worker
  BY DEF SInv, TypeOK, OpensOnly
<1>2. {blobs', records', temps'} \subseteq [Component -> Content] /\ Files'
  BY DEF SInv, TypeOK, Files, files
<1> QED
  BY <1>1, <1>2, CallMoves

----------------------------------------------------------------------------
(* A call on its way: what changes of its record.                          *)

Parts == {"blob", "record", None}
Opens == {"temp", "blob", "record", "gone", None}

With(k, at, record, module, part, open) ==
  [in |-> k.in, of |-> k.of, token |-> k.token, at |-> at, record |-> record,
   module |-> module, part |-> part, open |-> open]

LEMMA WithIsACall ==
  ASSUME NEW k \in Call, NEW at \in Stages, NEW record \in Content,
         NEW module \in Component \cup {None}, NEW part \in Parts, NEW open \in Opens
  PROVE  /\ With(k, at, record, module, part, open) \in Call
         /\ With(k, at, record, module, part, open) # None
         /\ With(k, at, record, module, part, open).in = k.in
         /\ With(k, at, record, module, part, open).of = k.of
         /\ With(k, at, record, module, part, open).token = k.token
         /\ With(k, at, record, module, part, open).at = at
         /\ With(k, at, record, module, part, open).record = record
         /\ With(k, at, record, module, part, open).module = module
<1>1. With(k, at, record, module, part, open) \in Call
  BY DEF With, Call, Parts, Opens
<1> QED
  BY <1>1, NoneIsNothing DEF With

LEMMA CallIsWith ==
  ASSUME NEW k \in Call
  PROVE  /\ k = With(k, k.at, k.record, k.module, k.part, k.open)
         /\ k.in \in Sandbox /\ k.of \in Component /\ k.token \in Token \cup {None}
         /\ k.at \in Stages /\ k.record \in Content /\ k.module \in Component \cup {None}
         /\ k.part \in Parts /\ k.open \in Opens
BY DEF Call, With, Parts, Opens

\* The edits that the actions make, one field at a time.
LEMMA EditAtRecord ==
  ASSUME NEW k \in Call, NEW at, NEW record
  PROVE  [k EXCEPT !.at = at, !.record = record] =
           With(k, at, record, k.module, k.part, k.open)
<1>1. [k EXCEPT !.at = at] =
       With(k, at, k.record, k.module, k.part, k.open)
  BY DEF Call, With
<1>2. [k EXCEPT !.at = at, !.record = record] =
       With(k, at, record, k.module, k.part, k.open)
  <2> DEFINE l == [k EXCEPT !.at = at]
             w == With(k, at, k.record, k.module, k.part, k.open)
  <2>1. l = w
    BY <1>1
  <2>2. [w EXCEPT !.record = record] = With(k, at, record, k.module, k.part, k.open)
    BY DEF With
  <2> HIDE DEF l, w
  <2> QED
    BY <2>1, <2>2 DEF l
<1> QED
  BY <1>2

LEMMA EditAtOpen ==
  ASSUME NEW k \in Call, NEW at, NEW open
  PROVE  [k EXCEPT !.at = at, !.open = open] =
           With(k, at, k.record, k.module, k.part, open)
<1>1. [k EXCEPT !.at = at] =
       With(k, at, k.record, k.module, k.part, k.open)
  BY DEF Call, With
<1>2. [k EXCEPT !.at = at, !.open = open] =
       With(k, at, k.record, k.module, k.part, open)
  <2> DEFINE l == [k EXCEPT !.at = at]
             w == With(k, at, k.record, k.module, k.part, k.open)
  <2>1. l = w
    BY <1>1
  <2>2. [w EXCEPT !.open = open] = With(k, at, k.record, k.module, k.part, open)
    BY DEF With
  <2> HIDE DEF l, w
  <2> QED
    BY <2>1, <2>2 DEF l
<1> QED
  BY <1>2

LEMMA EditModuleAtPart ==
  ASSUME NEW k \in Call, NEW at, NEW module, NEW part
  PROVE  [k EXCEPT !.module = module, !.at = at, !.part = part] =
           With(k, at, k.record, module, part, k.open)
<1>1. [k EXCEPT !.module = module] =
       With(k, k.at, k.record, module, k.part, k.open)
  BY DEF Call, With
<1>2. [k EXCEPT !.module = module, !.at = at] =
       With(k, at, k.record, module, k.part, k.open)
  <2> DEFINE l == [k EXCEPT !.module = module]
             w == With(k, k.at, k.record, module, k.part, k.open)
  <2>1. l = w
    BY <1>1
  <2>2. [w EXCEPT !.at = at] = With(k, at, k.record, module, k.part, k.open)
    BY DEF With
  <2> HIDE DEF l, w
  <2> QED
    BY <2>1, <2>2 DEF l
<1>3. [k EXCEPT !.module = module, !.at = at, !.part = part] =
       With(k, at, k.record, module, part, k.open)
  <2> DEFINE l == [k EXCEPT !.module = module, !.at = at]
             w == With(k, at, k.record, module, k.part, k.open)
  <2>1. l = w
    BY <1>2
  <2>2. [w EXCEPT !.part = part] = With(k, at, k.record, module, part, k.open)
    BY DEF With
  <2> HIDE DEF l, w
  <2> QED
    BY <2>1, <2>2 DEF l
<1> QED
  BY <1>3

LEMMA EditAtModuleRecord ==
  ASSUME NEW k \in Call, NEW at, NEW record, NEW module
  PROVE  [k EXCEPT !.at = at, !.module = module, !.record = record] =
           With(k, at, record, module, k.part, k.open)
<1>1. [k EXCEPT !.at = at] =
       With(k, at, k.record, k.module, k.part, k.open)
  BY DEF Call, With
<1>2. [k EXCEPT !.at = at, !.module = module] =
       With(k, at, k.record, module, k.part, k.open)
  <2> DEFINE l == [k EXCEPT !.at = at]
             w == With(k, at, k.record, k.module, k.part, k.open)
  <2>1. l = w
    BY <1>1
  <2>2. [w EXCEPT !.module = module] = With(k, at, k.record, module, k.part, k.open)
    BY DEF With
  <2> HIDE DEF l, w
  <2> QED
    BY <2>1, <2>2 DEF l
<1>3. [k EXCEPT !.at = at, !.module = module, !.record = record] =
       With(k, at, record, module, k.part, k.open)
  <2> DEFINE l == [k EXCEPT !.at = at, !.module = module]
             w == With(k, at, k.record, module, k.part, k.open)
  <2>1. l = w
    BY <1>2
  <2>2. [w EXCEPT !.record = record] = With(k, at, record, module, k.part, k.open)
    BY DEF With
  <2> HIDE DEF l, w
  <2> QED
    BY <2>1, <2>2 DEF l
<1> QED
  BY <1>3

LEMMA EditAt ==
  ASSUME NEW k \in Call, NEW at
  PROVE  [k EXCEPT !.at = at] =
           With(k, at, k.record, k.module, k.part, k.open)
BY DEF Call, With

LEMMA CallTurns ==
  ASSUME SInv, NEW p \in Caller, call[p] # None, call[p].at # "run",
         UNCHANGED <<deployed, gate, poisoned, clock, started, v1>>,
         NEW f, DOMAIN f = Caller, \A q \in Caller : OpensOnly(call[q], f[q]),
         NEW at \in Stages \ {"run"}, NEW record \in Content, Genuine(record),
         NEW module \in Component \cup {None}, NEW part \in Parts, NEW open \in Opens,
         call' = [f EXCEPT ![p] = With(f[p], at, record, module, part, open)],
         module # None <=> at \in HasModule, module # None => module = call[p].of,
         NEW worker \in Worker \cup {None},
         child' = [child EXCEPT ![p] = worker], worker # None <=> at = "child",
         at = "child" => call[p].in \in WithWorker,
         {blobs', records', temps'} \subseteq [Component -> Content], Files'
  PROVE  SInv'
<1> DEFINE k == f[p]
           l == With(k, at, record, module, part, open)
<1>1. SoundCall(call[p], child[p]) /\ call[p] \in Call
  BY GateOfCall
<1>2. OpensOnly(call[p], k)
  OBVIOUS
<1>3. k # None /\ k \in Call /\ k.in = call[p].in /\ k.token = call[p].token
      /\ SoundCall(k, child[p])
  <2> HIDE DEF k
  <2> QED
    BY <1>1, <1>2, OpensOnlyIsSound, NoneIsNothing DEF Moves
<1>4. k.of = call[p].of
  <2> HIDE DEF k
  <2>1. ASSUME NEW o, k = [call[p] EXCEPT !.open = o]
        PROVE  k.of = call[p].of
    BY <1>1, <2>1 DEF Call
  <2> QED
    BY <1>2, <2>1 DEF OpensOnly
<1>5. /\ l \in Call /\ l # None /\ l.in = k.in /\ l.of = k.of /\ l.token = k.token
      /\ l.at = at /\ l.record = record /\ l.module = module
  <2>1. at \in Stages
    OBVIOUS
  <2>2. record \in Content /\ module \in Component \cup {None} /\ part \in Parts /\ open \in Opens
    OBVIOUS
  <2> HIDE DEF k, l
  <2>3. l = With(k, at, record, module, part, open)
    BY DEF l
  <2>4. l \in Call /\ l # None
    <3>1. /\ k.in \in Sandbox /\ k.of \in Component /\ k.token \in Token \cup {None}
      BY <1>3 DEF Call
    <3>2. l \in Call
      BY <2>1, <2>2, <2>3, <3>1 DEF With, Call, Parts, Opens
    <3> QED
      BY <3>2, NoneIsNothing
  <2>5. l.in = k.in /\ l.of = k.of /\ l.token = k.token /\ l.at = at
    BY <2>3 DEF With
  <2>6. l.record = record /\ l.module = module
    BY <2>3 DEF With
  <2> QED
    BY <2>4, <2>5, <2>6
<1>6. SoundCall(l, worker)
  <2> HIDE DEF k, l
  <2> QED
    BY <1>3, <1>4, <1>5 DEF SoundCall
<1>7. /\ call' = [q \in Caller |-> call'[q]] /\ call'[p] = l
      /\ \A q \in Caller : q # p => call'[q] = f[q]
  <2> HIDE DEF l
  <2> QED
    BY DEF l
<1>8. /\ child' \in [Caller -> Worker \cup {None}] /\ child'[p] = worker
      /\ \A q \in Caller : q # p => child'[q] = child[q]
  BY DEF SInv, TypeOK
<1>9. l.in = call[p].in /\ l.token = call[p].token /\ l.at # "run"
  <2>1. at # "run"
    OBVIOUS
  <2> HIDE DEF k, l
  <2> QED
    BY <1>3, <1>5, <2>1
<1>10. \A q \in Caller : q # p => OpensOnly(call[q], call'[q]) /\ child'[q] = child[q]
  BY <1>7, <1>8
<1>11. SInv'
  <2> HIDE DEF l
  <2>1. /\ call'[p] \in Call /\ call'[p].in = call[p].in /\ call'[p].token = call[p].token
        /\ call'[p].at # "run" /\ SoundCall(call'[p], child'[p])
    BY <1>5, <1>6, <1>7, <1>8, <1>9
  <2> QED
    BY <1>7, <1>8, <1>10, <2>1, CallMoves
<1> QED
  BY <1>11

LEMMA OpensAre ==
  ASSUME NEW k, NEW l, NEW worker, OpensOnly(k, l), k \in Call, SoundCall(k, worker)
  PROVE  /\ l \in Call /\ l # None /\ SoundCall(l, worker)
         /\ l.in = k.in /\ l.of = k.of /\ l.token = k.token /\ l.at = k.at
         /\ l.record = k.record /\ l.module = k.module /\ l.part = k.part
<1>1. l \in Call /\ l # None /\ SoundCall(l, worker)
  BY OpensOnlyIsSound, NoneIsNothing DEF Moves
<1>2. ASSUME NEW o, l = [k EXCEPT !.open = o]
      PROVE  /\ l.in = k.in /\ l.of = k.of /\ l.token = k.token /\ l.at = k.at
             /\ l.record = k.record /\ l.module = k.module /\ l.part = k.part
  BY <1>2 DEF Call
<1> QED
  BY <1>1, <1>2 DEF OpensOnly

LEMMA SelfOpens == \A q \in Caller : OpensOnly(call[q], call[q])
BY DEF OpensOnly

LEMMA MovedOpens ==
  ASSUME NEW c, NEW from, NEW to \in Opens
  PROVE  /\ DOMAIN Moved(c, from, to) = Caller
         /\ \A q \in Caller : OpensOnly(call[q], Moved(c, from, to)[q])
BY DEF Moved, OpensOnly, Opens

----------------------------------------------------------------------------
(* The cache is looked up.                                                 *)

LEMMA LookupKeeps ==
  ASSUME SInv, NEW p \in Caller, Lookup(p) \/ ReadRecord(p) \/ VerifyEntry(p)
  PROVE  SInv'
<1> DEFINE k == call[p]
<1>1. /\ k # None /\ k.at \in {"lookup", "record", "blob"}
      /\ UNCHANGED <<deployed, gate, poisoned, clock, started, v1, files, child>>
  BY DEF Lookup, ReadRecord, VerifyEntry, At
<1>2. SoundCall(k, child[p]) /\ k \in Call
  BY <1>1, GateOfCall
<1>3. /\ child[p] = None /\ k.module = None /\ k.of \in Component
      /\ child' = [child EXCEPT ![p] = None] /\ DOMAIN call = Caller
  BY <1>1, <1>2, CallIsWith DEF SoundCall, HasModule, SInv, TypeOK
<1>4. ASSUME NEW at \in {"lookup", "record", "blob", "quarantine", "compile", "check"},
             NEW record \in Content, NEW module \in Component \cup {None},
             Genuine(record), module = IF at = "check" THEN k.of ELSE None,
             call' = [call EXCEPT ![p] = With(k, at, record, module, k.part, k.open)]
      PROVE  SInv'
  <2> DEFINE l == With(k, at, record, module, k.part, k.open)
  <2>1. at \in Stages
    BY DEF Stages
  <2>2. /\ l \in Call /\ l # None /\ l.in = k.in /\ l.of = k.of /\ l.token = k.token
        /\ l.at = at /\ l.record = record /\ l.module = module
    <3>1. k.part \in Parts /\ k.open \in Opens
      BY <1>2, CallIsWith
    <3> HIDE DEF k
    <3> QED
      BY <1>2, <2>1, <3>1, WithIsACall
  <2> HIDE DEF l
  <2>3. SoundCall(l, None)
    BY <1>1, <1>2, <1>3, <1>4, <2>2, NoneIsNothing DEF SoundCall, HasModule
  <2> QED
    BY <1>1, <1>3, <1>4, <2>2, <2>3, CallGoes DEF l
<1>5. CASE Lookup(p)
  <2>1. PICK at \in {"record", "compile"} : call' = [call EXCEPT ![p].at = at]
    BY <1>5 DEF Lookup, Goto
  <2>2. call' = [call EXCEPT ![p] = With(k, at, k.record, k.module, k.part, k.open)]
    BY <1>2, <2>1, EditAt
  <2> QED
    BY <1>1, <1>2, <1>3, <1>4, <2>2, CallIsWith DEF SoundCall
<1>6. CASE ReadRecord(p)
  <2> DEFINE r == records[k.of]
  <2>1. r \in Content /\ Genuine(r)
    BY <1>3 DEF SInv, TypeOK, Files
  <2>2. call' = [call EXCEPT ![p] = With(k, "blob", r, k.module, k.part, k.open)]
    <3>1. call' = [call EXCEPT ![p] = [k EXCEPT !.at = "blob", !.record = r]]
      BY <1>6 DEF ReadRecord
    <3>2. [k EXCEPT !.at = "blob", !.record = r] = With(k, "blob", r, k.module, k.part, k.open)
      <4> HIDE DEF k, r
      <4> QED
        BY <1>2, EditAtRecord
    <3> QED
      BY <3>1, <3>2
  <2> QED
    BY <1>3, <1>4, <2>1, <2>2
<1>7. CASE VerifyEntry(p)
  <2> DEFINE c == k.of
  <2>1. CASE Admits(c, k.record, blobs[c])
    <3>1. blobs[c].module = c
      <4>1. PICK d \in Component : blobs[c] = Blob(d) /\ k.record = Record(c, Blob(d))
        BY <2>1 DEF Admits
      <4>2. c = d
        BY <1>1, <1>2, <1>3, <4>1 DEF SoundCall, Genuine
      <4> QED
        BY <4>1, <4>2 DEF Blob
    <3>2. call' = [call EXCEPT ![p] =
                     [k EXCEPT !.at = "check", !.module = blobs[c].module, !.record = None]]
      BY <1>7, <2>1 DEF VerifyEntry
    <3>3. [k EXCEPT !.at = "check", !.module = c, !.record = None] =
            With(k, "check", None, c, k.part, k.open)
      <4> HIDE DEF k
      <4> DEFINE m == c
      <4>1. [k EXCEPT !.at = "check", !.module = m, !.record = None] =
              With(k, "check", None, m, k.part, k.open)
        <5> HIDE DEF m
        <5> QED
          BY <1>2, EditAtModuleRecord
      <4> QED
        BY <4>1
    <3>4. call' = [call EXCEPT ![p] = With(k, "check", None, c, k.part, k.open)]
      BY <3>1, <3>2, <3>3
    <3>5. None \in Content /\ Genuine(None) /\ c \in Component
      BY <1>3, NoneIsGenuine DEF Content
    <3> HIDE DEF k
    <3> QED
      BY <1>4, <3>4, <3>5
  <2>2. CASE ~Admits(c, k.record, blobs[c])
    <3>1. call' = [call EXCEPT ![p] = [k EXCEPT !.at = "quarantine", !.record = None]]
      BY <1>7, <2>2 DEF VerifyEntry
    <3>2. [k EXCEPT !.at = "quarantine", !.record = None] =
            With(k, "quarantine", None, k.module, k.part, k.open)
      BY <1>2, EditAtRecord
    <3>3. call' = [call EXCEPT ![p] = With(k, "quarantine", None, k.module, k.part, k.open)]
      BY <3>1, <3>2
    <3>4. None \in Content /\ Genuine(None) /\ k.module = None
      BY <1>3, NoneIsGenuine DEF Content
    <3> HIDE DEF k
    <3> QED
      BY <1>4, <3>3, <3>4
  <2> QED
    BY <2>1, <2>2
<1> QED
  BY <1>5, <1>6, <1>7

LEMMA QuarantineKeeps ==
  ASSUME SInv, NEW p \in Caller, QuarantineBlob(p) \/ QuarantineRecord(p)
  PROVE  SInv'
<1>1. /\ call[p] # None /\ call[p].at \in {"quarantine", "quarantine record"}
      /\ UNCHANGED <<deployed, gate, poisoned, clock, started, v1, child, temps>>
  BY DEF QuarantineBlob, QuarantineRecord, At
<1>2. SoundCall(call[p], child[p]) /\ call[p] \in Call
  BY <1>1, GateOfCall
<1>3. child[p] = None /\ call[p].module = None
  BY <1>1, <1>2 DEF SoundCall, HasModule
<1>4. PICK from \in {"blob", "record"}, at \in {"quarantine record", "compile"} :
        call' = [Moved(call[p].of, from, "gone") EXCEPT ![p].at = at]
  BY DEF QuarantineBlob, QuarantineRecord
<1> DEFINE f == Moved(call[p].of, from, "gone")
           k == f[p]
<1>5. DOMAIN f = Caller /\ \A q \in Caller : OpensOnly(call[q], f[q])
  BY MovedOpens DEF Opens
<1>6. /\ k \in Call /\ SoundCall(k, None) /\ k.module = None
  <2>1. OpensOnly(call[p], k)
    BY <1>5
  <2>2. SoundCall(call[p], None)
    BY <1>2, <1>3
  <2> HIDE DEF f, k
  <2> QED
    BY <1>2, <1>3, <2>1, <2>2, OpensAre
<1>7. /\ k.record \in Content /\ k.part \in Parts /\ k.open \in Opens /\ Genuine(k.record)
  <2> HIDE DEF k
  <2> QED
    BY <1>6, CallIsWith, NoneIsNothing DEF SoundCall
<1>8. call' = [f EXCEPT ![p] = With(k, at, k.record, k.module, k.part, k.open)]
  <2>1. [k EXCEPT !.at = at] = With(k, at, k.record, k.module, k.part, k.open)
    <3> HIDE DEF k
    <3> QED
      BY <1>6, EditAt
  <2> QED
    BY <1>4, <2>1
<1>9. {blobs', records', temps'} \subseteq [Component -> Content] /\ Files'
  <2>1. None \in Content /\ Genuine(None)
    BY NoneIsGenuine, ContentHas
  <2>2. {blobs, records, temps} \subseteq [Component -> Content] /\ Files
    BY DEF SInv, TypeOK
  <2>3. PICK c : \/ blobs' = [blobs EXCEPT ![c] = None] /\ UNCHANGED <<records, temps>>
                 \/ records' = [records EXCEPT ![c] = None] /\ UNCHANGED <<blobs, temps>>
    BY DEF QuarantineBlob, QuarantineRecord
  <2>4. {blobs', records', temps'} \subseteq [Component -> Content]
    BY <2>1, <2>2, <2>3
  <2>5. Files'
    BY <2>1, <2>2, <2>3 DEF Files
  <2> QED
    BY <2>4, <2>5
<1>10. child' = [child EXCEPT ![p] = None]
  BY <1>1, <1>3 DEF SInv, TypeOK
<1>11. at \in Stages \ {"run"} /\ at \notin HasModule /\ at # "child"
  BY DEF Stages, HasModule
<1> HIDE DEF f
<1> QED
  BY <1>1, <1>5, <1>6, <1>7, <1>8, <1>9, <1>10, <1>11, CallTurns, ZenonT(30)

----------------------------------------------------------------------------
(* Compilation.                                                            *)

LEMMA CompiledKeeps ==
  ASSUME SInv, NEW p \in Caller, call[p] # None, call[p].at \in {"compile", "child"},
         Compiled(p), child' = [child EXCEPT ![p] = None],
         UNCHANGED <<deployed, gate, poisoned, clock, started, v1, files>>
  PROVE  SInv'
<1> DEFINE k == call[p]
<1>1. SoundCall(k, child[p]) /\ k \in Call
  BY GateOfCall
<1>2. /\ k.of \in Component /\ k.record \in Content /\ k.open \in Opens /\ Genuine(k.record)
  <2> HIDE DEF k
  <2> QED
    BY <1>1, CallIsWith, NoneIsNothing DEF SoundCall
<1>3. PICK at \in {"create", "check"}, part \in Parts :
        call' = [call EXCEPT ![p] = [k EXCEPT !.module = k.of, !.at = at, !.part = part]]
  BY DEF Compiled, Parts
<1>4. call' = [call EXCEPT ![p] = With(k, at, k.record, k.of, part, k.open)]
  <2> DEFINE m == k.of
  <2>1. [k EXCEPT !.module = m, !.at = at, !.part = part] = With(k, at, k.record, m, part, k.open)
    <3> HIDE DEF k, m
    <3> QED
      BY <1>1, EditModuleAtPart
  <2> QED
    BY <1>3, <2>1
<1>5. {blobs', records', temps'} \subseteq [Component -> Content] /\ Files'
  BY DEF SInv, TypeOK, Files, files
<1>6. at \in Stages \ {"run"} /\ at \in HasModule /\ at # "child"
  BY DEF Stages, HasModule
<1>7. DOMAIN call = Caller /\ k.of # None
  BY <1>2, NoneIsNothing DEF SInv, TypeOK
<1> QED
  BY <1>2, <1>4, <1>5, <1>6, <1>7, SelfOpens, CallTurns

LEMMA SpawnKeeps ==
  ASSUME SInv, NEW p \in Caller, SpawnWorker(p)
  PROVE  SInv'
<1> DEFINE k == call[p]
<1>1. /\ k # None /\ k.at = "compile" /\ call' = [call EXCEPT ![p] = [k EXCEPT !.at = "child"]]
      /\ child' = [child EXCEPT ![p] = "compiling"]
      /\ UNCHANGED <<deployed, gate, poisoned, clock, started, v1, files>>
  BY DEF SpawnWorker, At, Goto
<1>2. SoundCall(k, child[p]) /\ k \in Call
  BY <1>1, GateOfCall
<1>3. /\ k.module = None /\ k.module \in Component \cup {None}
      /\ k.record \in Content /\ k.part \in Parts /\ k.open \in Opens /\ Genuine(k.record)
  <2> HIDE DEF k
  <2> QED
    BY <1>1, <1>2, CallIsWith, NoneIsNothing DEF SoundCall, HasModule
<1>4. call' = [call EXCEPT ![p] = With(k, "child", k.record, None, k.part, k.open)]
  <2>1. [k EXCEPT !.at = "child"] = With(k, "child", k.record, k.module, k.part, k.open)
    <3> HIDE DEF k
    <3> QED
      BY <1>2, EditAt
  <2> QED
    BY <1>1, <1>3, <2>1
<1>5. {blobs', records', temps'} \subseteq [Component -> Content] /\ Files'
  BY <1>1 DEF SInv, TypeOK, Files, files
<1>6. "child" \in Stages \ {"run"} /\ "child" \notin HasModule
  BY DEF Stages, HasModule
<1>7. "compiling" \in Worker \cup {None} /\ "compiling" # None
  BY NoneIsNothing DEF Worker
<1>8. DOMAIN call = Caller
  BY DEF SInv, TypeOK
<1>9. PICK at \in Stages \ {"run"}, worker \in Worker \cup {None} :
        at = "child" /\ worker = "compiling"
  BY <1>6, <1>7
<1>10. /\ call' = [call EXCEPT ![p] = With(k, at, k.record, None, k.part, k.open)]
       /\ at \notin HasModule /\ worker # None /\ child' = [child EXCEPT ![p] = worker]
       /\ k.at # "run"
  BY <1>1, <1>4, <1>6, <1>7, <1>9
<1>11. UNCHANGED <<deployed, gate, poisoned, clock, started, v1>>
  BY <1>1
<1>12. k # None /\ k.record \in Content /\ Genuine(k.record) /\ k.part \in Parts /\ k.open \in Opens
  BY <1>1, <1>3
<1>13. None \in Component \cup {None} /\ (None # None <=> at \in HasModule)
  BY <1>10
<1>14. (worker # None <=> at = "child") /\ k.in \in WithWorker
  BY <1>9, <1>10 DEF SpawnWorker
<1> QED
  BY <1>5, <1>8, <1>10, <1>11, <1>12, <1>13, <1>14, SelfOpens, CallTurns

LEMMA WorkerKeeps ==
  ASSUME SInv, NEW p \in Caller, WorkerExits(p) \/ WorkerCompiles(p)
  PROVE  SInv'
<1>1. PICK worker \in {"done", "failed"} : child' = [child EXCEPT ![p] = worker]
  BY DEF WorkerExits, WorkerCompiles
<1>2. /\ child[p] = "compiling" /\ call' = call
      /\ UNCHANGED <<deployed, gate, poisoned, clock, started, v1, files>>
  BY DEF WorkerExits, WorkerCompiles
<1> DEFINE k == call[p]
<1>3. SoundCall(k, child[p])
  BY DEF SInv, Calls
<1>4. k # None /\ k \in Call /\ k.at = "child" /\ SoundCall(k, worker)
  <2>1. {"compiling", worker} \cap {None} = {} /\ worker \in Worker \cup {None}
    BY NoneIsNothing DEF Worker
  <2> HIDE DEF k
  <2> QED
    BY <1>2, <1>3, <2>1 DEF SoundCall
<1>5. call' = [call EXCEPT ![p] = k]
  BY <1>2 DEF SInv, TypeOK
<1>6. worker \in Worker \cup {None}
  BY DEF Worker
<1> HIDE DEF k
<1> QED
  BY <1>1, <1>2, <1>4, <1>5, <1>6, CallGoes DEF k

----------------------------------------------------------------------------
(* A call ends.                                                            *)

LEMMA EndKeeps ==
  ASSUME SInv, NEW p \in Caller, call[p] # None, End(p),
         child' = [child EXCEPT ![p] = None],
         poisoned' \subseteq WithWorker,
         UNCHANGED <<deployed, started, v1, files>>,
         \/ call[p].at # "run" /\ UNCHANGED clock
         \/ call[p].at = "run" /\ Stop(call[p].in)
  PROVE  SInv'
<1> DEFINE s == call[p].in
<1>1. /\ s \in Sandbox /\ gate[s] = p /\ gate' = [gate EXCEPT ![s] = None]
      /\ call' = [call EXCEPT ![p] = None]
  BY GateOfCall DEF End
<1>2. /\ call \in [Caller -> Call \cup {None}] /\ gate \in [Sandbox -> Caller \cup {None}]
      /\ child \in [Caller -> Worker \cup {None}] /\ p # None
      /\ \A q \in Caller : q # None
  BY NoneIsNothing DEF SInv, TypeOK
<1> HIDE DEF s
<1>3. TypeOK' /\ DOMAIN token' = Token
  <2>1. gate' \in [Sandbox -> Caller \cup {None}] /\ call' \in [Caller -> Call \cup {None}]
        /\ child' \in [Caller -> Worker \cup {None}]
    BY <1>1, <1>2
  <2>2. V1TypeOK' /\ DOMAIN token' = Token
    BY DEF SInv, TypeOK, V1TypeOK, v1
  <2>3. /\ deployed' \subseteq Sandbox
        /\ {blobs', records', temps'} \subseteq [Component -> Content]
        /\ started' \in [Executor -> [Token -> Nat]]
    BY DEF SInv, TypeOK, files
  <2>4. since' \in [Sandbox -> Nat] /\ left' \in [Sandbox -> Nat] /\ ran' \in [Sandbox -> Nat]
    <3>1. since \in [Sandbox -> Nat] /\ left \in [Sandbox -> Nat] /\ ran \in [Sandbox -> Nat]
      BY DEF SInv, TypeOK
    <3>2. CASE UNCHANGED clock
      BY <3>1, <3>2 DEF clock
    <3>3. CASE Stop(call[p].in)
      BY <3>1, <3>3 DEF Stop
    <3> QED
      BY <3>2, <3>3
  <2> QED
    BY <2>1, <2>2, <2>3, <2>4 DEF TypeOK
<1>4. Calls'
  <2> SUFFICES ASSUME NEW q \in Caller PROVE SoundCall(call[q], child[q])'
    BY DEF Calls
  <2>1. CASE q = p
    BY <1>1, <1>2, <2>1 DEF SoundCall
  <2>2. CASE q # p
    BY <1>1, <1>2, <2>2 DEF SInv, Calls
  <2> QED
    BY <2>1, <2>2
<1>5. Files'
  BY DEF SInv, Files, files
<1>6. OneGuest'
  BY <1>1, <1>2 DEF SInv, OneGuest
<1>7. ASSUME NEW r \in Sandbox
      PROVE  /\ r = s => ~Guest(r)'
             /\ r # s => gate'[r] = gate[r] /\ (gate[r] # None => call'[gate[r]] = call[gate[r]])
  <2>1. r = s => gate'[r] = None
    BY <1>1, <1>2
  <2>2. r # s => gate'[r] = gate[r] /\ gate[r] # p
    BY <1>1, <1>2 DEF SInv, OneGuest, s
  <2>3. r # s /\ gate[r] # None => call'[gate[r]] = call[gate[r]]
    BY <1>1, <1>2, <2>2
  <2> QED
    BY <2>1, <2>2, <2>3 DEF Guest
<1>8. Clocks'
  <2> SUFFICES ASSUME NEW r \in Sandbox PROVE SoundClock(r)'
    BY DEF Clocks
  <2>1. SoundClock(r) /\ MaxStall[r] \in Nat /\ Deadline[r] \in Nat
    BY TickerBounds DEF SInv, Clocks
  <2>2. CASE r = s
    <3>1. ~Guest(s) \/ Stop(s)
      BY <1>1 DEF Guest, At, s
    <3>2. since'[s] = 0 /\ left'[s] = 0 /\ ran'[s] = 0
      <4>1. CASE Stop(s)
        BY <1>1, <4>1 DEF SInv, TypeOK, Stop
      <4>2. CASE ~Stop(s)
        BY <3>1, <4>2, <2>1, <2>2 DEF SoundClock, clock, s
      <4> QED
        BY <4>1, <4>2
    <3> QED
      BY <1>7, <2>1, <2>2, <3>2 DEF SoundClock
  <2>3. CASE r # s
    <3>1. Guest(r)' <=> Guest(r)
      BY <1>7, <2>3 DEF Guest, At
    <3>2. since'[r] = since[r] /\ left'[r] = left[r] /\ ran'[r] = ran[r]
      BY <1>1, <2>3 DEF SInv, TypeOK, Stop, clock, s
    <3> QED
      BY <2>1, <3>1, <3>2 DEF SoundClock
  <2> QED
    BY <2>2, <2>3
<1>9. Uses'
  <2> SUFFICES ASSUME NEW e \in Executor, NEW t \in Token PROVE SoundUses(e, t)'
    BY DEF Uses
  <2>1. SoundUses(e, t) /\ e \in Sandbox
    BY SandboxKinds DEF SInv, Uses
  <2>2. ToStart(e, t)' => ToStart(e, t)
    <3>1. CASE e = s
      BY <1>1, <1>2, <3>1 DEF ToStart
    <3>2. CASE e # s
      BY <1>7, <2>1, <3>2 DEF ToStart
    <3> QED
      BY <3>1, <3>2
  <2> QED
    BY <2>1, <2>2 DEF SoundUses, v1
<1> QED
  BY <1>3, <1>4, <1>5, <1>6, <1>8, <1>9 DEF SInv

\* The ways for a call to end without a result, or with one.
LEMMA FailKeeps ==
  ASSUME SInv, NEW p \in Caller,
         PollWorker(p) \/ KillWorker(p) \/ SpawnPanics(p) \/ CompileInProcess(p) \/ Refuse(p)
  PROVE  SInv'
<1>1. /\ call[p] # None /\ call[p].at \in {"compile", "child", "check"}
      /\ SoundCall(call[p], child[p]) /\ call[p] \in Call
  BY GateOfCall DEF PollWorker, KillWorker, SpawnPanics, CompileInProcess, Refuse, At
<1>2. call[p].at \in {"compile", "check"} => child = [child EXCEPT ![p] = None]
  BY <1>1 DEF SoundCall, SInv, TypeOK
<1>3. UNCHANGED <<deployed, clock, started, v1, files>>
  BY DEF PollWorker, KillWorker, SpawnPanics, CompileInProcess, Refuse
<1>4. CASE PollWorker(p)
  <2>1. child' = [child EXCEPT ![p] = None] /\ UNCHANGED poisoned
        /\ ((Compiled(p) /\ UNCHANGED gate) \/ End(p))
    BY <1>4 DEF PollWorker, Reap
  <2>2. call[p].at = "child"
    BY <1>4 DEF PollWorker, At
  <2>3. poisoned' \subseteq WithWorker
    BY <2>1 DEF SInv, TypeOK
  <2> QED
    BY <1>1, <1>3, <2>1, <2>2, <2>3, CompiledKeeps, EndKeeps
<1>5. CASE KillWorker(p)
  <2>1. child' = [child EXCEPT ![p] = None] /\ poisoned' \subseteq WithWorker /\ End(p)
    BY <1>5 DEF KillWorker, Reap, SInv, TypeOK
  <2> QED
    BY <1>1, <1>3, <2>1, EndKeeps
<1>6. CASE SpawnPanics(p)
  <2>1. child' = [child EXCEPT ![p] = None] /\ End(p)
        /\ poisoned' = poisoned \cup {call[p].in} /\ call[p].at = "child"
    BY <1>6 DEF SpawnPanics, Reap, At
  <2>2. call[p].in \in WithWorker
    BY <1>1, <2>1 DEF SoundCall
  <2>3. poisoned' \subseteq WithWorker
    BY <2>1, <2>2 DEF SInv, TypeOK
  <2> QED
    BY <1>1, <1>3, <2>1, <2>3, EndKeeps
<1>7. CASE CompileInProcess(p)
  <2>1. call[p].at = "compile" /\ UNCHANGED <<poisoned, child>>
        /\ ((Compiled(p) /\ UNCHANGED gate) \/ End(p))
    BY <1>7 DEF CompileInProcess, At
  <2>2. child' = [child EXCEPT ![p] = None] /\ poisoned' \subseteq WithWorker
    BY <1>2, <2>1 DEF SInv, TypeOK
  <2> QED
    BY <1>1, <1>3, <2>1, <2>2, CompiledKeeps, EndKeeps
<1>8. CASE Refuse(p)
  <2>1. call[p].at = "check" /\ UNCHANGED <<poisoned, child>> /\ End(p)
    BY <1>8 DEF Refuse, At
  <2>2. child' = [child EXCEPT ![p] = None] /\ poisoned' \subseteq WithWorker
    BY <1>2, <2>1 DEF SInv, TypeOK
  <2> QED
    BY <1>1, <1>3, <2>1, <2>2, EndKeeps
<1> QED
  BY <1>4, <1>5, <1>6, <1>7, <1>8

LEMMA FinishKeeps ==
  ASSUME SInv, NEW p \in Caller, Return(p) \/ CutOff(p)
  PROVE  SInv'
<1>1. /\ call[p] # None /\ call[p].at = "run" /\ End(p) /\ Stop(call[p].in)
      /\ UNCHANGED <<v1, deployed, poisoned, child, files, started>>
  BY DEF Return, CutOff, Finish, At
<1>2. SoundCall(call[p], child[p])
  BY <1>1, GateOfCall
<1>3. child' = [child EXCEPT ![p] = None] /\ poisoned' \subseteq WithWorker
  BY <1>1, <1>2 DEF SoundCall, SInv, TypeOK
<1> QED
  BY <1>1, <1>3, EndKeeps

----------------------------------------------------------------------------
(* The store.                                                              *)

LEMMA OverwrittenIsSound ==
  ASSUME NEW file \in [Component -> Content], \A c \in Component : Genuine(file[c]),
         NEW c \in Component, NEW bytes \in Content, Genuine(bytes),
         NEW g \in Overwritten(file, c, bytes)
  PROVE  g \in [Component -> Content] /\ \A d \in Component : Genuine(g[d])
<1>1. PICK b \in {bytes, Broken} : g = [file EXCEPT ![c] = b]
  BY DEF Overwritten
<1>2. b \in Content /\ Genuine(b)
  BY NoneIsGenuine, ContentHas
<1> QED
  BY <1>1, <1>2

\* A call that stores what it compiled.
LEMMA Storing ==
  ASSUME SInv, NEW p \in Caller, call[p] # None, call[p].at \in {"create", "write", "rename"}
  PROVE  /\ call[p] \in Call /\ child[p] = None /\ child = [child EXCEPT ![p] = None]
         /\ SoundCall(call[p], None)
         /\ call[p].of \in Component /\ call[p].module = call[p].of
         /\ Bytes(p) \in Content /\ Genuine(Bytes(p))
         /\ {blobs, records, temps} \subseteq [Component -> Content] /\ Files
<1> DEFINE k == call[p]
           c == k.of
<1>1. SoundCall(k, child[p]) /\ k \in Call
  BY GateOfCall
<1>2. child[p] = None /\ k.module # None /\ k.module = k.of
  <2>1. k # None /\ k.at \in {"create", "write", "rename"}
    OBVIOUS
  <2> HIDE DEF k
  <2> QED
    BY <1>1, <2>1, NoneIsNothing DEF SoundCall, HasModule
<1>3. c \in Component
  BY <1>1, CallIsWith
<1>4. Bytes(p) = Blob(c) \/ Bytes(p) = Record(c, Blob(c))
  BY <1>2 DEF Bytes
<1>5. Bytes(p) \in Content /\ Genuine(Bytes(p))
  <2> HIDE DEF c
  <2> QED
    BY <1>3, <1>4, ContentHas, BlobIsGenuine, RecordIsGenuine
<1> QED
  BY <1>1, <1>2, <1>3, <1>5 DEF SInv, TypeOK

LEMMA CreateKeeps ==
  ASSUME SInv, NEW p \in Caller, CreateTemp(p)
  PROVE  SInv'
<1> DEFINE k == call[p]
<1>1. /\ k # None /\ k.at = "create" /\ temps' = [temps EXCEPT ![k.of] = Empty]
      /\ UNCHANGED <<deployed, gate, poisoned, clock, started, v1, child, blobs, records>>
  BY DEF CreateTemp, At
<1>2. /\ k \in Call /\ child' = [child EXCEPT ![p] = None] /\ SoundCall(k, None)
      /\ k.of \in Component /\ k.module = k.of
      /\ {blobs, records, temps} \subseteq [Component -> Content] /\ Files
  BY <1>1, Storing
<1>3. k.record \in Content /\ Genuine(k.record) /\ k.part \in Parts
  <2> HIDE DEF k
  <2> QED
    BY <1>1, <1>2, CallIsWith DEF SoundCall
<1>4. call' = [call EXCEPT ![p] = With(k, "write", k.record, k.module, k.part, "temp")]
  <2>1. [k EXCEPT !.at = "write", !.open = "temp"] =
          With(k, "write", k.record, k.module, k.part, "temp")
    <3> HIDE DEF k
    <3> QED
      BY <1>2, EditAtOpen
  <2>2. call' = [call EXCEPT ![p] = [k EXCEPT !.at = "write", !.open = "temp"]]
    BY DEF CreateTemp
  <2> QED
    BY <2>1, <2>2
<1>5. {blobs', records', temps'} \subseteq [Component -> Content] /\ Files'
  BY <1>1, <1>2, NoneIsGenuine, ContentHas DEF Files
<1>6. PICK at \in Stages \ {"run"} : at = "write"
  BY DEF Stages
<1>7. /\ at \in HasModule /\ at # "child" /\ "temp" \in Opens /\ k.at # "run"
      /\ DOMAIN call = Caller /\ k.module # None /\ k.module \in Component \cup {None}
  BY <1>1, <1>2, <1>6, NoneIsNothing DEF HasModule, Opens, SInv, TypeOK
<1>8. UNCHANGED <<deployed, gate, poisoned, clock, started, v1>>
  BY <1>1
<1>9. call' = [call EXCEPT ![p] = With(k, at, k.record, k.module, k.part, "temp")]
  BY <1>4, <1>6
<1>10. /\ k # None /\ child' = [child EXCEPT ![p] = None]
       /\ (k.module # None => k.module = k.of)
  BY <1>1, <1>2
<1>11. (None # None <=> at = "child") /\ (k.module # None <=> at \in HasModule)
  BY <1>7
<1> QED
  BY <1>3, <1>5, <1>7, <1>8, <1>9, <1>10, <1>11, SelfOpens, CallTurns

LEMMA WriteKeeps ==
  ASSUME SInv, NEW p \in Caller, WriteBytes(p)
  PROVE  SInv'
<1> DEFINE k == call[p]
<1>1. /\ k # None /\ k.at = "write"
      /\ UNCHANGED <<deployed, gate, poisoned, clock, started, v1, child>>
  BY DEF WriteBytes, At
<1>2. /\ k \in Call /\ child' = [child EXCEPT ![p] = None] /\ SoundCall(k, None)
      /\ k.of \in Component /\ k.module = k.of
      /\ Bytes(p) \in Content /\ Genuine(Bytes(p))
      /\ {blobs, records, temps} \subseteq [Component -> Content] /\ Files
  BY <1>1, Storing
<1>3. k.record \in Content /\ Genuine(k.record) /\ k.part \in Parts /\ k.open \in Opens
  <2> HIDE DEF k
  <2> QED
    BY <1>1, <1>2, CallIsWith DEF SoundCall
<1>4. call' = [call EXCEPT ![p] = With(k, "rename", k.record, k.module, k.part, k.open)]
  <2>1. [k EXCEPT !.at = "rename"] = With(k, "rename", k.record, k.module, k.part, k.open)
    <3> HIDE DEF k
    <3> QED
      BY <1>2, EditAt
  <2>2. call' = [call EXCEPT ![p] = [k EXCEPT !.at = "rename"]]
    BY DEF WriteBytes, Goto
  <2> QED
    BY <2>1, <2>2
<1>5. {blobs', records', temps'} \subseteq [Component -> Content] /\ Files'
  <2> DEFINE bytes == Bytes(p)
             c == k.of
  <2>1. \/ temps' \in Overwritten(temps, c, bytes) /\ UNCHANGED <<blobs, records>>
        \/ blobs' \in Overwritten(blobs, c, bytes) /\ UNCHANGED <<temps, records>>
        \/ records' \in Overwritten(records, c, bytes) /\ UNCHANGED <<temps, blobs>>
        \/ UNCHANGED <<blobs, records, temps>>
    BY DEF WriteBytes, files
  <2>2. bytes \in Content /\ Genuine(bytes) /\ c \in Component
    BY <1>2
  <2> HIDE DEF bytes, c
  <2>3. ASSUME NEW file \in {blobs, records, temps}, NEW g \in Overwritten(file, c, bytes)
        PROVE  g \in [Component -> Content] /\ \A d \in Component : Genuine(g[d])
    <3>1. file \in [Component -> Content] /\ \A d \in Component : Genuine(file[d])
      BY <1>2 DEF Files
    <3> QED
      BY <2>2, <3>1, OverwrittenIsSound
  <2> QED
    BY <1>2, <2>1, <2>3 DEF Files
<1>6. PICK at \in Stages \ {"run"} : at = "rename"
  BY DEF Stages
<1>7. /\ at \in HasModule /\ at # "child" /\ k.at # "run"
      /\ DOMAIN call = Caller /\ k.module # None /\ k.module \in Component \cup {None}
  BY <1>1, <1>2, <1>6, NoneIsNothing DEF HasModule, Opens, SInv, TypeOK
<1>8. UNCHANGED <<deployed, gate, poisoned, clock, started, v1>>
  BY <1>1
<1>9. call' = [call EXCEPT ![p] = With(k, at, k.record, k.module, k.part, k.open)]
  BY <1>4, <1>6
<1>10. /\ k # None /\ child' = [child EXCEPT ![p] = None]
       /\ (k.module # None => k.module = k.of)
  BY <1>1, <1>2
<1>11. (None # None <=> at = "child") /\ (k.module # None <=> at \in HasModule)
  BY <1>7
<1> QED
  BY <1>3, <1>5, <1>7, <1>8, <1>9, <1>10, <1>11, SelfOpens, CallTurns

LEMMA UnstoredKeeps ==
  ASSUME SInv, NEW p \in Caller, RenameFails(p) \/ StoreFails(p)
  PROVE  SInv'
<1> DEFINE k == call[p]
           f == Moved(k.of, "temp", "gone")
           l == f[p]
<1>1. /\ k # None /\ k.at \in {"create", "write", "rename"} /\ Unstored(p)
  BY DEF RenameFails, StoreFails, At
<1>2. UNCHANGED <<deployed, gate, poisoned, clock, started, v1, child, blobs, records>>
  BY <1>1 DEF Unstored
<1>3. /\ k \in Call /\ child' = [child EXCEPT ![p] = None] /\ SoundCall(k, None)
      /\ k.of \in Component /\ k.module = k.of
      /\ {blobs, records, temps} \subseteq [Component -> Content] /\ Files
  BY <1>1, <1>2, Storing
<1>4. DOMAIN f = Caller /\ \A q \in Caller : OpensOnly(call[q], f[q])
  BY MovedOpens DEF Opens
<1>5. l \in Call /\ SoundCall(l, None) /\ l.module = k.of
  <2>1. OpensOnly(k, l)
    BY <1>4
  <2> HIDE DEF f, l, k
  <2> QED
    BY <1>3, <2>1, OpensAre
<1>6. l.record \in Content /\ Genuine(l.record)
  <2> HIDE DEF l
  <2> QED
    BY <1>5, CallIsWith, NoneIsNothing DEF SoundCall
<1>7. call' = [f EXCEPT ![p] = With(l, "check", l.record, l.module, None, None)]
  <2>1. [l EXCEPT !.at = "check", !.part = None, !.open = None] =
          With(l, "check", l.record, l.module, None, None)
    <3>0. l \in Call
      BY <1>5
    <3> HIDE DEF l
    <3>1. [l EXCEPT !.at = "check"] =
           With(l, "check", l.record, l.module, l.part, l.open)
      BY <3>0 DEF Call, With
    <3>2. [l EXCEPT !.at = "check", !.part = None] =
           With(l, "check", l.record, l.module, None, l.open)
      <4> DEFINE m == [l EXCEPT !.at = "check"]
                 w == With(l, "check", l.record, l.module, l.part, l.open)
      <4>1. m = w
        BY <3>1
      <4>2. [w EXCEPT !.part = None] = With(l, "check", l.record, l.module, None, l.open)
        BY DEF With
      <4> HIDE DEF m, w
      <4> QED
        BY <4>1, <4>2 DEF m
    <3>3. [l EXCEPT !.at = "check", !.part = None, !.open = None] =
           With(l, "check", l.record, l.module, None, None)
      <4> DEFINE m == [l EXCEPT !.at = "check", !.part = None]
                 w == With(l, "check", l.record, l.module, None, l.open)
      <4>1. m = w
        BY <3>2
      <4>2. [w EXCEPT !.open = None] = With(l, "check", l.record, l.module, None, None)
        BY DEF With
      <4> HIDE DEF m, w
      <4> QED
        BY <4>1, <4>2 DEF m
    <3> QED
      BY <3>3
  <2>2. call' = [f EXCEPT ![p] = [l EXCEPT !.at = "check", !.part = None, !.open = None]]
    BY <1>1 DEF Unstored
  <2> QED
    BY <2>1, <2>2
<1>8. {blobs', records', temps'} \subseteq [Component -> Content] /\ Files'
  <2>1. temps' = [temps EXCEPT ![k.of] = None]
    BY <1>1 DEF Unstored
  <2> QED
    BY <1>2, <1>3, <2>1, NoneIsGenuine, ContentHas DEF Files
<1>9. /\ "check" \in Stages \ {"run"} /\ "check" \in HasModule /\ None \in Parts \cap Opens
      /\ l.module # None /\ l.module \in Component \cup {None} /\ k.at # "run"
  BY <1>1, <1>3, <1>5, NoneIsNothing DEF Stages, HasModule, Parts, Opens
<1>10. UNCHANGED <<deployed, gate, poisoned, clock, started, v1>>
  BY <1>2
<1> HIDE DEF f
<1> QED
  BY <1>1, <1>3, <1>4, <1>5, <1>6, <1>7, <1>8, <1>9, <1>10, CallTurns

LEMMA RenameKeeps ==
  ASSUME SInv, NEW p \in Caller, RenameTemp(p)
  PROVE  SInv'
<1> DEFINE k == call[p]
           f == [q \in Caller |-> IF q = p THEN k ELSE call'[q]]
<1>1. /\ k # None /\ k.at = "rename"
      /\ UNCHANGED <<deployed, gate, poisoned, clock, started, v1, child>>
  BY DEF RenameTemp, At
<1>2. /\ k \in Call /\ child' = [child EXCEPT ![p] = None] /\ SoundCall(k, None)
      /\ k.of \in Component /\ k.module = k.of
      /\ {blobs, records, temps} \subseteq [Component -> Content] /\ Files
  BY <1>1, Storing
<1>3. k.record \in Content /\ Genuine(k.record)
  <2> HIDE DEF k
  <2> QED
    BY <1>1, <1>2, CallIsWith DEF SoundCall
<1>4. DOMAIN f = Caller /\ \A q \in Caller : OpensOnly(call[q], f[q])
  <2>1. SUFFICES ASSUME NEW q \in Caller, q # p PROVE OpensOnly(call[q], call'[q])
    BY SelfOpens
  <2>2. k.part \in Opens
    <3>1. k.part \in Parts
      <4> HIDE DEF k
      <4> QED
        BY <1>2, CallIsWith
    <3> QED
      BY <3>1 DEF Parts, Opens
  <2>3. \/ call'[q] = call[q]
        \/ /\ call[q] # None
           /\ call'[q] = [call[q] EXCEPT !.open =
                           CASE @ = "temp" -> k.part [] @ = k.part -> "gone" [] OTHER -> @]
    BY <2>1 DEF RenameTemp
  <2>4. CASE call'[q] = call[q]
    BY <2>4 DEF OpensOnly
  <2>5. CASE call[q] # None /\ call'[q] # call[q]
    <3> DEFINE o == CASE call[q].open = "temp" -> k.part
                      [] call[q].open = k.part -> "gone"
                      [] OTHER -> call[q].open
    <3>1. call'[q] = [call[q] EXCEPT !.open = o]
      BY <2>3, <2>5
    <3>2. call[q].open \in Opens
      BY <2>5, GateOfCall, CallIsWith
    <3>3. o \in Opens
      BY <2>2, <3>2 DEF Opens
    <3> HIDE DEF o
    <3> QED
      BY <2>5, <3>1, <3>3 DEF OpensOnly, Opens
  <2> QED
    BY <2>3, <2>4, <2>5
<1>5. PICK at \in {"create", "check"}, part \in Parts :
        call'[p] = [k EXCEPT !.open = None, !.at = at, !.part = part]
  BY DEF RenameTemp, Parts
<1>6. call' = [f EXCEPT ![p] = With(f[p], at, k.record, k.module, part, None)]
  <2>1. call'[p] = With(k, at, k.record, k.module, part, None)
    <3>0. k \in Call
      BY <1>2
    <3> HIDE DEF k
    <3>1. [k EXCEPT !.open = None] =
           With(k, k.at, k.record, k.module, k.part, None)
      BY <3>0 DEF Call, With
    <3>2. [k EXCEPT !.open = None, !.at = at] =
           With(k, at, k.record, k.module, k.part, None)
      <4> DEFINE m == [k EXCEPT !.open = None]
                 w == With(k, k.at, k.record, k.module, k.part, None)
      <4>1. m = w
        BY <3>1
      <4>2. [w EXCEPT !.at = at] = With(k, at, k.record, k.module, k.part, None)
        BY DEF With
      <4> HIDE DEF m, w
      <4> QED
        BY <4>1, <4>2 DEF m
    <3>3. [k EXCEPT !.open = None, !.at = at, !.part = part] =
           With(k, at, k.record, k.module, part, None)
      <4> DEFINE m == [k EXCEPT !.open = None, !.at = at]
                 w == With(k, at, k.record, k.module, k.part, None)
      <4>1. m = w
        BY <3>2
      <4>2. [w EXCEPT !.part = part] = With(k, at, k.record, k.module, part, None)
        BY DEF With
      <4> HIDE DEF m, w
      <4> QED
        BY <4>1, <4>2 DEF m
    <3> QED
      BY <1>5, <3>3
  <2>2. call' = [q \in Caller |-> call'[q]]
    BY DEF RenameTemp
  <2> HIDE DEF k
  <2> QED
    BY <2>1, <2>2
<1>7. {blobs', records', temps'} \subseteq [Component -> Content] /\ Files'
  <2> DEFINE c == k.of
  <2>1. /\ temps' = [temps EXCEPT ![c] = None]
        /\ \/ blobs' = [blobs EXCEPT ![c] = temps[c]] /\ UNCHANGED records
           \/ records' = [records EXCEPT ![c] = temps[c]] /\ UNCHANGED blobs
    BY DEF RenameTemp
  <2>2. c \in Component
    BY <1>2
  <2> HIDE DEF c
  <2> QED
    BY <1>2, <2>1, <2>2, NoneIsGenuine, ContentHas DEF Files
<1>8. /\ at \in Stages \ {"run"} /\ at \in HasModule /\ at # "child" /\ None \in Opens
      /\ k.module # None /\ k.module \in Component \cup {None} /\ k.at # "run"
  BY <1>1, <1>2, NoneIsNothing DEF Stages, HasModule, Opens
<1>9. UNCHANGED <<deployed, gate, poisoned, clock, started, v1>>
  BY <1>1
<1> HIDE DEF f
<1> QED
  BY <1>1, <1>2, <1>3, <1>4, <1>6, <1>7, <1>8, <1>9, CallTurns, ZenonT(30)

----------------------------------------------------------------------------
(* The guest and its clock.                                                *)

LEMMA ClockTypes ==
  ASSUME SInv, NEW s \in Sandbox
  PROVE  /\ since[s] \in Nat /\ left[s] \in Nat /\ ran[s] \in Nat
         /\ Deadline[s] \in Nat \ {0} /\ MaxStall[s] \in Nat /\ SoundClock(s)
BY TickerBounds DEF SInv, TypeOK, Clocks

LEMMA RunKeeps ==
  ASSUME SInv, NEW p \in Caller, Run(p)
  PROVE  SInv'
<1> DEFINE k == call[p]
           s == k.in
           t == k.token
<1>1. /\ k # None /\ k.at = "check"
      /\ UNCHANGED <<v1, deployed, gate, poisoned, child, ran, files>>
  BY DEF Run, At
<1>2. /\ SoundCall(k, child[p]) /\ k \in Call /\ gate[s] = p /\ s \in Sandbox
  BY <1>1, GateOfCall
<1>3. PICK phase \in 0 .. MaxStall[s] : since' = [since EXCEPT ![s] = phase]
  BY DEF Run
<1>4. left' = [left EXCEPT ![s] = Deadline[s]]
      /\ started' = IF t = None THEN started ELSE [started EXCEPT ![s][t] = @ + 1]
  BY DEF Run
<1>5. /\ k.module # None /\ k.module = k.of /\ child[p] = None /\ (t # None <=> s \in Executor)
      /\ k.module \in Component \cup {None} /\ t \in Token \cup {None}
      /\ k.record \in Content /\ k.part \in Parts /\ k.open \in Opens /\ Genuine(k.record)
  <2> HIDE DEF k
  <2> QED
    BY <1>1, <1>2, CallIsWith DEF SoundCall, HasModule
<1> DEFINE l == With(k, "run", k.record, k.module, k.part, k.open)
<1>6. call' = [call EXCEPT ![p] = l]
  <2>1. [k EXCEPT !.at = "run"] = With(k, "run", k.record, k.module, k.part, k.open)
    <3> HIDE DEF k
    <3> QED
      BY <1>2, EditAt
  <2>2. call' = [call EXCEPT ![p] = [k EXCEPT !.at = "run"]]
    BY DEF Run, Goto
  <2> QED
    BY <2>1, <2>2
<1>7. /\ l \in Call /\ l # None /\ l.in = s /\ l.of = k.of /\ l.token = t /\ l.at = "run"
      /\ l.record = k.record /\ l.module = k.module
  <2>1. "run" \in Stages
    BY DEF Stages
  <2>2. PICK at \in Stages : at = "run"
    BY <2>1
  <2>3. k \in Call
    BY <1>2
  <2> HIDE DEF k
  <2> QED
    BY <2>2, <2>3, <1>5, WithIsACall
<1>8. SoundCall(l, None)
  <2> HIDE DEF l, k
  <2> QED
    BY <1>2, <1>5, <1>7 DEF SoundCall, HasModule, s, t
<1> HIDE DEF l, k
<1>9. call'[p] = l /\ \A q \in Caller : q # p => call'[q] = call[q]
  BY <1>6 DEF SInv, TypeOK
<1>10. /\ MaxStall[s] \in Nat /\ Deadline[s] \in Nat \ {0}
  BY <1>2, TickerBounds
<1>11. TypeOK' /\ DOMAIN token' = Token
  <2>1. call' \in [Caller -> Call \cup {None}]
    BY <1>6, <1>7 DEF SInv, TypeOK
  <2>2. since' \in [Sandbox -> Nat] /\ left' \in [Sandbox -> Nat] /\ ran' \in [Sandbox -> Nat]
    <3>1. phase \in Nat
      BY <1>10
    <3> QED
      BY <1>1, <1>3, <1>4, <1>10, <3>1 DEF SInv, TypeOK
  <2>3. started' \in [Executor -> [Token -> Nat]]
    <3>1. started \in [Executor -> [Token -> Nat]]
      BY DEF SInv, TypeOK
    <3>2. CASE t = None
      BY <1>4, <3>1, <3>2
    <3>3. CASE t # None
      <4>1. t \in Token /\ s \in Executor
        BY <1>5, <3>3
      <4>2. started' = [started EXCEPT ![s][t] = @ + 1]
        BY <1>4, <3>3
      <4> HIDE DEF s, t
      <4> QED
        BY <3>1, <4>1, <4>2
    <3> QED
      BY <3>2, <3>3
  <2>4. V1TypeOK' /\ DOMAIN token' = Token
    BY <1>1 DEF SInv, TypeOK, V1TypeOK, v1
  <2>5. /\ deployed' \subseteq Sandbox /\ gate' \in [Sandbox -> Caller \cup {None}]
        /\ poisoned' \subseteq WithWorker /\ child' \in [Caller -> Worker \cup {None}]
        /\ {blobs', records', temps'} \subseteq [Component -> Content]
    BY <1>1 DEF SInv, TypeOK, files
  <2> QED
    BY <2>1, <2>2, <2>3, <2>4, <2>5 DEF TypeOK
<1>12. Calls' /\ Files'
  BY <1>1, <1>5, <1>8, <1>9 DEF SInv, Calls, Files, files
<1>13. OneGuest'
  <2>1. k # None /\ k = call[p] /\ s = k.in
    BY <1>1 DEF k
  <2> HIDE DEF s
  <2> QED
    BY <1>1, <1>7, <1>9, <2>1 DEF SInv, OneGuest
<1>14. Clocks'
  <2> SUFFICES ASSUME NEW r \in Sandbox PROVE SoundClock(r)'
    BY DEF Clocks
  <2>1. CASE r = s
    <3>1. ~Guest(s)
      BY <1>1, <1>2 DEF Guest, At, k
    <3>2. Guest(r)'
      <4>1. gate'[r] = p /\ p # None
        BY <1>1, <1>2, <2>1, NoneIsNothing
      <4>2. call'[p] # None /\ call'[p].at = "run"
        BY <1>7, <1>9
      <4> QED
        BY <4>1, <4>2 DEF Guest, At
    <3>3. ran'[r] = 0
      BY <1>1, <1>2, <2>1, <3>1, ClockTypes DEF SoundClock
    <3>4. since'[r] = phase /\ left'[r] = Deadline[r] /\ phase \in Nat /\ phase <= MaxStall[r]
      BY <1>2, <1>3, <1>4, <1>10, <2>1 DEF SInv, TypeOK
    <3>5. /\ since'[r] <= MaxStall[r] /\ left'[r] <= Deadline[r]
          /\ ran'[r] <= 4 * (Deadline[r] - left'[r]) + since'[r] /\ left'[r] # 0
      <4>1. Deadline[r] \in Nat \ {0}
        BY TickerBounds
      <4> QED
        BY <3>3, <3>4, <4>1
    <3> QED
      BY <3>2, <3>5 DEF SoundClock
  <2>2. CASE r # s
    <3>1. since'[r] = since[r] /\ left'[r] = left[r] /\ ran'[r] = ran[r]
      BY <1>1, <1>3, <1>4, <2>2 DEF SInv, TypeOK
    <3>2. gate[r] # p
      BY <1>1, <2>2 DEF SInv, OneGuest, k
    <3>3. Guest(r)' <=> Guest(r)
      BY <1>1, <1>9, <3>2 DEF Guest, At, SInv, TypeOK
    <3> QED
      BY <3>1, <3>3, ClockTypes DEF SoundClock
  <2> QED
    BY <2>1, <2>2
<1>15. Uses'
  <2> SUFFICES ASSUME NEW e \in Executor, NEW u \in Token PROVE SoundUses(e, u)'
    BY DEF Uses
  <2>1. /\ SoundUses(e, u) /\ e \in Sandbox /\ started[e][u] \in Nat /\ uses[e][u] \in Nat
    BY SandboxKinds DEF SInv, Uses, TypeOK, V1TypeOK
  <2>2. UNCHANGED <<uses, token>>
    BY <1>1 DEF v1
  <2>3. CASE e = s
    <3>1. ~ToStart(e, u)'
      BY <1>1, <1>2, <1>7, <1>9, <2>3 DEF ToStart
    <3>2. CASE u = t
      <4>1. ToStart(e, u)
        BY <1>1, <1>2, <2>3, <3>2, NoneIsNothing DEF ToStart, k
      <4>2. started'[e][u] = started[e][u] + 1
        <5>1. started' = [started EXCEPT ![e][u] = @ + 1]
          BY <1>4, <1>5, <2>3, <3>2
        <5> QED
          BY <5>1 DEF SInv, TypeOK
      <4> QED
        BY <2>1, <2>2, <3>1, <4>1, <4>2 DEF SoundUses
    <3>3. CASE u # t
      <4>1. started'[e][u] = started[e][u]
        <5>1. started' = [started EXCEPT ![e][t] = @ + 1]
          BY <1>4, <1>5, <2>3
        <5> HIDE DEF t
        <5> QED
          BY <3>3, <5>1 DEF SInv, TypeOK
      <4> QED
        BY <2>1, <2>2, <3>1, <4>1 DEF SoundUses
    <3> QED
      BY <3>2, <3>3
  <2>4. CASE e # s
    <3>1. started'[e][u] = started[e][u]
      <4>1. CASE t = None
        BY <1>4, <4>1
      <4>2. CASE t # None
        <5>1. started' = [started EXCEPT ![s][t] = @ + 1] /\ s \in Executor
          BY <1>4, <1>5, <4>2
        <5> HIDE DEF s, t
        <5> QED
          BY <2>4, <5>1 DEF SInv, TypeOK
      <4> QED
        BY <4>1, <4>2
    <3>2. gate[e] # p
      BY <1>1, <2>1, <2>4 DEF SInv, OneGuest, k
    <3>3. ToStart(e, u)' <=> ToStart(e, u)
      BY <1>1, <1>9, <2>1, <3>2 DEF ToStart, SInv, TypeOK
    <3> QED
      BY <2>1, <2>2, <3>1, <3>3 DEF SoundUses
  <2> QED
    BY <2>3, <2>4
<1> QED
  BY <1>11, <1>12, <1>13, <1>14, <1>15 DEF SInv

\* Time changes no more than one sandbox's clock.
LEMMA ClockGoes ==
  ASSUME SInv, NEW s \in Sandbox, NEW i \in Nat, NEW j \in Nat, NEW n \in Nat,
         UNCHANGED <<v1, deployed, gate, poisoned, call, child, files, started>>,
         since' = [since EXCEPT ![s] = i], left' = [left EXCEPT ![s] = j],
         ran' = [ran EXCEPT ![s] = n],
         Guest(s), i <= MaxStall[s], j <= Deadline[s],
         j > 0 => n <= 4 * (Deadline[s] - j) + i,
         j = 0 => n <= 4 * (Deadline[s] - 1) + MaxStall[s]
  PROVE  SInv'
<1>1. TypeOK' /\ DOMAIN token' = Token
  <2>1. since' \in [Sandbox -> Nat] /\ left' \in [Sandbox -> Nat] /\ ran' \in [Sandbox -> Nat]
    BY DEF SInv, TypeOK
  <2>2. V1TypeOK' /\ DOMAIN token' = Token
    BY DEF SInv, TypeOK, V1TypeOK, v1
  <2> QED
    BY <2>1, <2>2 DEF SInv, TypeOK, files
<1>2. Calls' /\ Files' /\ OneGuest' /\ Uses'
  BY DEF SInv, Calls, Files, files, OneGuest, Uses, SoundUses, ToStart, v1
<1>3. Clocks'
  <2> SUFFICES ASSUME NEW r \in Sandbox PROVE SoundClock(r)'
    BY DEF Clocks
  <2>1. Guest(r)' <=> Guest(r)
    BY DEF Guest, At
  <2>2. CASE r = s
    <3>1. since'[s] = i /\ left'[s] = j /\ ran'[s] = n
      BY DEF SInv, TypeOK
    <3> QED
      BY <2>1, <2>2, <3>1 DEF SoundClock
  <2>3. CASE r # s
    <3>1. since'[r] = since[r] /\ left'[r] = left[r] /\ ran'[r] = ran[r]
      BY <2>3 DEF SInv, TypeOK
    <3> QED
      BY <2>1, <3>1, ClockTypes DEF SoundClock
  <2> QED
    BY <2>2, <2>3
<1> QED
  BY <1>1, <1>2, <1>3 DEF SInv

LEMMA TimeKeeps ==
  ASSUME SInv, NEW s \in Sandbox, Pass(s) \/ Wake(s)
  PROVE  SInv'
<1>1. /\ since[s] \in Nat /\ left[s] \in Nat /\ ran[s] \in Nat
      /\ Deadline[s] \in Nat \ {0} /\ MaxStall[s] \in Nat /\ SoundClock(s)
  BY ClockTypes
<1>2. /\ Guest(s) /\ left[s] > 0
      /\ UNCHANGED <<v1, deployed, gate, poisoned, call, child, files, started>>
  BY DEF Pass, Wake
<1>3. ran[s] <= 4 * (Deadline[s] - left[s]) + since[s] /\ left[s] <= Deadline[s] /\ since[s] <= MaxStall[s]
  BY <1>1, <1>2 DEF SoundClock
<1>4. CASE Pass(s)
  <2> DEFINE i == since[s] + 1
             n == ran[s] + 1
  <2>1. /\ since' = [since EXCEPT ![s] = i] /\ ran' = [ran EXCEPT ![s] = n]
        /\ left' = [left EXCEPT ![s] = left[s]] /\ since[s] < MaxStall[s]
    BY <1>4 DEF Pass, SInv, TypeOK
  <2>2. /\ i \in Nat /\ n \in Nat /\ i <= MaxStall[s]
        /\ n <= 4 * (Deadline[s] - left[s]) + i
    BY <1>1, <1>3, <2>1
  <2> HIDE DEF i, n
  <2>3. PICK j \in Nat : j = left[s]
    BY <1>1
  <2>4. /\ j <= Deadline[s]
        /\ j > 0 => n <= 4 * (Deadline[s] - j) + i
        /\ j = 0 => n <= 4 * (Deadline[s] - 1) + MaxStall[s]
        /\ left' = [left EXCEPT ![s] = j]
    BY <1>2, <1>3, <2>1, <2>2, <2>3
  <2> QED
    BY <1>2, <2>1, <2>2, <2>4, ClockGoes
<1>5. CASE Wake(s)
  <2> DEFINE d == Smaller(left[s], ElapsedTicks(since[s], Deadline[s]))
             j == left[s] - d
  <2>1. /\ since' = [since EXCEPT ![s] = 0] /\ ran' = [ran EXCEPT ![s] = ran[s]]
        /\ left' = [left EXCEPT ![s] = j] /\ since[s] >= 2
    BY <1>5 DEF Wake, SInv, TypeOK
  <2>2. since[s] \div 2 \in Nat /\ 2 * (since[s] \div 2) >= since[s] - 1
    BY <1>1
  <2>3. d \in Nat /\ d <= left[s] /\ (d < left[s] => d = since[s] \div 2)
    BY <1>1, <1>3, <2>2 DEF Smaller, ElapsedTicks
  <2> HIDE DEF d
  <2>4. /\ j \in Nat /\ j <= Deadline[s]
        /\ j > 0 => ran[s] <= 4 * (Deadline[s] - j) + 0
        /\ j = 0 => ran[s] <= 4 * (Deadline[s] - 1) + MaxStall[s]
    BY <1>1, <1>2, <1>3, <2>1, <2>2, <2>3
  <2> HIDE DEF j
  <2>5. PICK i \in Nat, n \in Nat : i = 0 /\ n = ran[s]
    BY <1>1
  <2>6. /\ i <= MaxStall[s] /\ j \in Nat /\ j <= Deadline[s]
        /\ j > 0 => n <= 4 * (Deadline[s] - j) + i
        /\ j = 0 => n <= 4 * (Deadline[s] - 1) + MaxStall[s]
        /\ since' = [since EXCEPT ![s] = i] /\ ran' = [ran EXCEPT ![s] = n]
        /\ left' = [left EXCEPT ![s] = j]
    BY <1>1, <2>1, <2>4, <2>5
  <2> QED
    BY <1>2, <2>6, ClockGoes
<1> QED
  BY <1>4, <1>5

----------------------------------------------------------------------------
(* A call enters.                                                          *)

LEMMA EnterKeeps ==
  ASSUME SInv, NEW p \in Caller, call[p] = None, NEW s \in Sandbox, gate[s] = None,
         NEW c \in Component, NEW t \in Token \cup {None}, t # None <=> s \in Executor,
         gate' = [gate EXCEPT ![s] = p], call' = [call EXCEPT ![p] = Fresh(s, c, t)],
         UNCHANGED <<now, token, deployed, poisoned, child, files, clock, started>>,
         \/ t = None /\ UNCHANGED uses
         \/ t \in Token /\ s \in Executor /\ Spend(s, t) /\ uses[s][t] < token[t].max_uses
            /\ token[t] # None /\ t \notin Forged
  PROVE  SInv'
<1> DEFINE l == Fresh(s, c, t)
<1>1. /\ l \in Call /\ l.in = s /\ l.token = t /\ l.at = "lookup" /\ l.record = None /\ l.module = None
  <2>1. "lookup" \in Stages /\ None \in Content
    BY ContentHas DEF Stages
  <2> QED
    BY <2>1 DEF Fresh, Call
<1> HIDE DEF l
<1>2. l # None /\ p # None /\ \A q \in Caller : q # None
  BY <1>1, NoneIsNothing
<1>3. call'[p] = l /\ gate'[s] = p
      /\ (\A q \in Caller : q # p => call'[q] = call[q])
      /\ (\A r \in Sandbox : r # s => gate'[r] = gate[r])
  BY DEF SInv, TypeOK, l
<1>4. child[p] = None
  BY DEF SInv, Calls, SoundCall
<1>5. \A r \in Sandbox : gate[r] # p
  BY DEF SInv, OneGuest
<1>6. uses' \in [Executor -> [Token -> Nat]]
  <2>1. uses \in [Executor -> [Token -> Nat]]
    BY DEF SInv, TypeOK, V1TypeOK
  <2> QED
    BY <2>1 DEF Spend
<1>7. TypeOK' /\ DOMAIN token' = Token
  <2>1. V1TypeOK' /\ DOMAIN token' = Token
    BY <1>6 DEF SInv, TypeOK, V1TypeOK
  <2>2. call' \in [Caller -> Call \cup {None}] /\ gate' \in [Sandbox -> Caller \cup {None}]
    <3>1. call \in [Caller -> Call \cup {None}] /\ gate \in [Sandbox -> Caller \cup {None}]
      BY DEF SInv, TypeOK
    <3>2. call' = [call EXCEPT ![p] = l]
      BY DEF l
    <3> QED
      BY <1>1, <3>1, <3>2
  <2>3. /\ deployed' \subseteq Sandbox /\ poisoned' \subseteq WithWorker
        /\ child' \in [Caller -> Worker \cup {None}]
        /\ {blobs', records', temps'} \subseteq [Component -> Content]
        /\ started' \in [Executor -> [Token -> Nat]]
    BY DEF SInv, TypeOK, files
  <2>4. since' \in [Sandbox -> Nat] /\ left' \in [Sandbox -> Nat] /\ ran' \in [Sandbox -> Nat]
    BY DEF SInv, TypeOK, clock
  <2> QED
    BY <2>1, <2>2, <2>3, <2>4 DEF TypeOK
<1>8. Calls'
  <2>1. SoundCall(l, None)
    BY <1>1, <1>2, NoneIsGenuine DEF SoundCall, HasModule
  <2> SUFFICES ASSUME NEW q \in Caller PROVE SoundCall(call[q], child[q])'
    BY DEF Calls
  <2>2. child'[q] = child[q]
    OBVIOUS
  <2> QED
    BY <1>3, <1>4, <2>1, <2>2 DEF SInv, Calls
<1>9. Files'
  BY DEF SInv, Files, files
<1>10. OneGuest'
  BY <1>1, <1>2, <1>3, <1>5 DEF SInv, OneGuest
<1>11. ASSUME NEW r \in Sandbox
       PROVE  Guest(r)' <=> Guest(r)
  <2>1. CASE r = s
    BY <1>1, <1>2, <1>3, <2>1 DEF Guest, At
  <2>2. CASE r # s
    <3>1. gate'[r] = gate[r] /\ (gate[r] # None => call'[gate[r]] = call[gate[r]])
      BY <1>3, <1>5, <2>2 DEF SInv, TypeOK
    <3> QED
      BY <3>1 DEF Guest, At
  <2> QED
    BY <2>1, <2>2
<1>12. Clocks'
  <2> SUFFICES ASSUME NEW r \in Sandbox PROVE SoundClock(r)'
    BY DEF Clocks
  <2>1. SoundClock(r) /\ (Guest(r)' <=> Guest(r))
    BY <1>11, ClockTypes
  <2> QED
    BY <2>1 DEF SoundClock, clock
<1>13. Uses'
  <2> SUFFICES ASSUME NEW e \in Executor, NEW u \in Token PROVE SoundUses(e, u)'
    BY DEF Uses
  <2>1. /\ SoundUses(e, u) /\ e \in Sandbox /\ started[e][u] \in Nat /\ uses[e][u] \in Nat
    BY SandboxKinds DEF SInv, Uses, TypeOK, V1TypeOK
  <2>2. token' = token /\ started' = started
    OBVIOUS
  <2>3. CASE e = s /\ u = t
    <3>1. /\ uses' = [uses EXCEPT ![e][u] = @ + 1] /\ uses[e][u] < token[u].max_uses
          /\ token[u] # None /\ u \notin Forged
      BY <2>3, NoneIsNothing DEF Spend
    <3>2. uses'[e][u] = uses[e][u] + 1
      BY <3>1 DEF SInv, TypeOK, V1TypeOK
    <3>3. token[u].max_uses \in Nat
      BY <3>1, TokenBounds DEF SInv, TypeOK, V1TypeOK
    <3>4. uses'[e][u] <= token[u].max_uses /\ started[e][u] < uses'[e][u]
      BY <2>1, <3>1, <3>2, <3>3 DEF SoundUses
    <3> QED
      BY <2>1, <2>2, <3>1, <3>4 DEF SoundUses
  <2>4. CASE ~(e = s /\ u = t)
    <3>1. uses'[e][u] = uses[e][u]
      BY <2>4 DEF SInv, TypeOK, V1TypeOK, Spend
    <3>2. ToStart(e, u)' => ToStart(e, u)
      <4>1. CASE e = s
        BY <1>1, <1>3, <2>4, <4>1 DEF ToStart
      <4>2. CASE e # s
        <5>1. gate'[e] = gate[e] /\ (gate[e] # None => call'[gate[e]] = call[gate[e]])
          BY <1>3, <1>5, <2>1, <4>2 DEF SInv, TypeOK
        <5> QED
          BY <5>1 DEF ToStart
      <4> QED
        BY <4>1, <4>2
    <3> QED
      BY <2>1, <2>2, <3>1, <3>2 DEF SoundUses
  <2> QED
    BY <2>3, <2>4
<1> QED
  BY <1>7, <1>8, <1>9, <1>10, <1>12, <1>13 DEF SInv

LEMMA StillKeeps ==
  ASSUME SInv,
         UNCHANGED <<v1, deployed, gate, poisoned, call, child, files, clock, started>>
  PROVE  SInv'
<1>1. TypeOK' /\ DOMAIN token' = Token
  BY DEF SInv, TypeOK, V1TypeOK, v1, files, clock
<1>2. Calls' /\ Files' /\ OneGuest' /\ Uses'
  BY DEF SInv, Calls, Files, files, OneGuest, Uses, SoundUses, ToStart, v1
<1>3. Clocks'
  BY DEF SInv, Clocks, SoundClock, Guest, At, clock
<1> QED
  BY <1>1, <1>2, <1>3 DEF SInv

LEMMA ExecuteKeeps ==
  ASSUME SInv, NEW p \in Caller, NEW s \in Sandbox, NEW c \in Component, Execute(p, s, c)
  PROVE  SInv'
<1>1. /\ s \notin Executor /\ call[p] = None /\ Enter(p, s, c, None)
      /\ UNCHANGED <<v1, deployed, poisoned, child, files, clock, started>>
  BY DEF Execute, Called
<1>2. CASE GateIsFree(s)
  <2>1. /\ gate[s] = None /\ gate' = [gate EXCEPT ![s] = p]
        /\ call' = [call EXCEPT ![p] = Fresh(s, c, None)]
    BY <1>1, <1>2 DEF Enter, GateIsFree
  <2>2. PICK t \in Token \cup {None} : t = None
    OBVIOUS
  <2>3. /\ call' = [call EXCEPT ![p] = Fresh(s, c, t)] /\ (t # None <=> s \in Executor)
        /\ UNCHANGED uses
        /\ UNCHANGED <<now, token, deployed, poisoned, child, files, clock, started>>
    BY <1>1, <2>1, <2>2 DEF v1
  <2> QED
    BY <1>1, <2>1, <2>2, <2>3, EnterKeeps
<1>3. CASE ~GateIsFree(s)
  BY <1>1, <1>3, StillKeeps DEF Enter
<1> QED
  BY <1>2, <1>3

LEMMA ExecuteWasmKeeps ==
  ASSUME SInv, NEW p \in Caller, NEW s \in Sandbox, NEW c \in Component, NEW t \in Token,
         NEW r \in V1Request, ExecuteWasm(p, s, c, t, r)
  PROVE  SInv'
<1>1. /\ s \in Executor /\ call[p] = None /\ gate[s] = None
      /\ UNCHANGED <<now, token, deployed, poisoned, child, files, clock, started>>
  BY DEF ExecuteWasm, Called
<1>2. GateIsFree(s)
  <2>1. s \notin WithWorker
    BY <1>1, SandboxKinds
  <2> QED
    BY <1>1, <2>1 DEF GateIsFree, SInv, TypeOK
<1> DEFINE scope == <<r.venture, r.actor, r.tool, r.operation, r.resource>>
<1>3. CASE Valid(s, t, scope)
  <2>1. /\ Spend(s, t) /\ gate' = [gate EXCEPT ![s] = p]
        /\ call' = [call EXCEPT ![p] = Fresh(s, c, t)]
    BY <1>2, <1>3 DEF ExecuteWasm, Enter
  <2>2. /\ uses[s][t] < token[t].max_uses /\ token[t] # None /\ t \notin Forged
    BY <1>3 DEF Valid
  <2>3. t # None
    BY NoneIsNothing
  <2> QED
    BY <1>1, <2>1, <2>2, <2>3, EnterKeeps
<1>4. CASE ~Valid(s, t, scope)
  <2>1. UNCHANGED <<v1, deployed, gate, poisoned, call, child, files, clock, started>>
    BY <1>1, <1>4 DEF ExecuteWasm, v1
  <2> QED
    BY <2>1, StillKeeps
<1> QED
  BY <1>3, <1>4

----------------------------------------------------------------------------
(* The world.                                                              *)

LEMMA KillKeeps ==
  ASSUME SInv, NEW s \in Sandbox, Kill(s)
  PROVE  SInv'
<1> DEFINE dead(p) == call[p] # None /\ call[p].in = s
<1>1. /\ gate' = [gate EXCEPT ![s] = None] /\ poisoned' = poisoned \ {s}
      /\ Stop(s) /\ UNCHANGED <<now, token, deployed, files>>
      /\ IF s \in Executor
         THEN Forget(s) /\ started' = [started EXCEPT ![s] = [t \in Token |-> 0]]
         ELSE UNCHANGED <<uses, started>>
  BY DEF Kill
<1>2. /\ call' = [p \in Caller |-> IF dead(p) THEN None ELSE call[p]]
      /\ child' = [p \in Caller |-> IF dead(p) THEN None ELSE child[p]]
  BY DEF Kill
<1>3. \A q \in Caller : q # None
  BY NoneIsNothing
<1>4. TypeOK' /\ DOMAIN token' = Token
  <2>1. uses' \in [Executor -> [Token -> Nat]] /\ started' \in [Executor -> [Token -> Nat]]
    <3>1. uses \in [Executor -> [Token -> Nat]] /\ started \in [Executor -> [Token -> Nat]]
      BY DEF SInv, TypeOK, V1TypeOK
    <3>2. CASE s \in Executor
      <4>1. PICK zero \in [Token -> Nat] : zero = [t \in Token |-> 0]
        OBVIOUS
      <4>2. uses' = [uses EXCEPT ![s] = zero] /\ started' = [started EXCEPT ![s] = zero]
        BY <1>1, <3>2, <4>1 DEF Forget
      <4> QED
        BY <3>1, <4>2
    <3>3. CASE s \notin Executor
      BY <1>1, <3>1, <3>3
    <3> QED
      BY <3>2, <3>3
  <2>2. V1TypeOK' /\ DOMAIN token' = Token
    BY <1>1, <2>1 DEF SInv, TypeOK, V1TypeOK
  <2>3. call' \in [Caller -> Call \cup {None}] /\ child' \in [Caller -> Worker \cup {None}]
    BY <1>2 DEF SInv, TypeOK
  <2>4. gate' \in [Sandbox -> Caller \cup {None}] /\ poisoned' \subseteq WithWorker
    BY <1>1 DEF SInv, TypeOK
  <2>5. since' \in [Sandbox -> Nat] /\ left' \in [Sandbox -> Nat] /\ ran' \in [Sandbox -> Nat]
    BY <1>1 DEF SInv, TypeOK, Stop
  <2>6. deployed' \subseteq Sandbox /\ {blobs', records', temps'} \subseteq [Component -> Content]
    BY <1>1 DEF SInv, TypeOK, files
  <2> QED
    BY <2>1, <2>2, <2>3, <2>4, <2>5, <2>6 DEF TypeOK
<1>5. Calls'
  <2> SUFFICES ASSUME NEW q \in Caller PROVE SoundCall(call[q], child[q])'
    BY DEF Calls
  <2>1. CASE dead(q)
    BY <1>2, <2>1 DEF SoundCall
  <2>2. CASE ~dead(q)
    BY <1>2, <2>2 DEF SInv, Calls
  <2> QED
    BY <2>1, <2>2
<1>6. Files'
  BY <1>1 DEF SInv, Files, files
<1>7. OneGuest'
  <2> SUFFICES ASSUME NEW q \in Caller, NEW r \in Sandbox
               PROVE  gate'[r] = q <=> call'[q] # None /\ call'[q].in = r
    BY DEF OneGuest
  <2>1. gate[r] = q <=> call[q] # None /\ call[q].in = r
    BY DEF SInv, OneGuest
  <2>2. CASE r = s
    BY <1>1, <1>2, <1>3, <2>1, <2>2 DEF SInv, TypeOK
  <2>3. CASE r # s
    BY <1>1, <1>2, <2>1, <2>3 DEF SInv, TypeOK
  <2> QED
    BY <2>2, <2>3
<1>8. ASSUME NEW r \in Sandbox
      PROVE  /\ r = s => ~Guest(r)' /\ gate'[r] = None
             /\ r # s => gate'[r] = gate[r] /\ (gate[r] # None => call'[gate[r]] = call[gate[r]])
  <2>1. r = s => gate'[r] = None
    BY <1>1 DEF SInv, TypeOK
  <2>2. r # s => gate'[r] = gate[r]
    BY <1>1 DEF SInv, TypeOK
  <2>3. r # s /\ gate[r] # None => call'[gate[r]] = call[gate[r]]
    BY <1>2 DEF SInv, TypeOK, OneGuest
  <2> QED
    BY <2>1, <2>2, <2>3 DEF Guest
<1>9. Clocks'
  <2> SUFFICES ASSUME NEW r \in Sandbox PROVE SoundClock(r)'
    BY DEF Clocks
  <2>1. CASE r = s
    <3>1. since'[r] = 0 /\ left'[r] = 0 /\ ran'[r] = 0
      BY <1>1, <2>1 DEF SInv, TypeOK, Stop
    <3> QED
      BY <1>8, <2>1, <3>1, ClockTypes DEF SoundClock
  <2>2. CASE r # s
    <3>1. since'[r] = since[r] /\ left'[r] = left[r] /\ ran'[r] = ran[r]
      BY <1>1, <2>2 DEF SInv, TypeOK, Stop
    <3>2. Guest(r)' <=> Guest(r)
      BY <1>8, <2>2 DEF Guest, At
    <3> QED
      BY <3>1, <3>2, ClockTypes DEF SoundClock
  <2> QED
    BY <2>1, <2>2
<1>10. Uses'
  <2> SUFFICES ASSUME NEW e \in Executor, NEW t \in Token PROVE SoundUses(e, t)'
    BY DEF Uses
  <2>1. SoundUses(e, t) /\ e \in Sandbox
    BY SandboxKinds DEF SInv, Uses
  <2>2. CASE e = s
    <3>1. uses'[e][t] = 0 /\ started'[e][t] = 0
      BY <1>1, <2>2 DEF SInv, TypeOK, V1TypeOK, Forget
    <3>2. ~ToStart(e, t)'
      BY <1>8, <2>1, <2>2 DEF ToStart
    <3> QED
      BY <3>1, <3>2 DEF SoundUses
  <2>3. CASE e # s
    <3>1. uses'[e] = uses[e] /\ started'[e] = started[e] /\ token' = token
      BY <1>1, <2>3 DEF SInv, TypeOK, V1TypeOK, Forget
    <3>2. ToStart(e, t)' <=> ToStart(e, t)
      BY <1>8, <2>1, <2>3 DEF ToStart
    <3> QED
      BY <2>1, <3>1, <3>2 DEF SoundUses
  <2> QED
    BY <2>2, <2>3
<1> QED
  BY <1>4, <1>5, <1>6, <1>7, <1>9, <1>10 DEF SInv

LEMMA DamageKeeps ==
  ASSUME SInv, NEW c \in Component, Damage(c)
  PROVE  SInv'
<1>1. UNCHANGED <<v1, deployed, gate, poisoned, child, temps, clock, started>>
  BY DEF Damage
<1>2. ASSUME NEW d \in Component
      PROVE  /\ {Blob(d), Record(d, Blob(d)), [Record(c, Blob(d)) EXCEPT !.by = "stranger"],
                 [Record(c, Blob(d)) EXCEPT !.engine = "former"]} \subseteq {x \in Content : Genuine(x)}
  <2>1. [Record(c, Blob(d)) EXCEPT !.by = "stranger"] \in Records
        /\ [Record(c, Blob(d)) EXCEPT !.engine = "former"] \in Records
    BY DEF Record, Records
  <2>2. [Record(c, Blob(d)) EXCEPT !.by = "stranger"] \in Content
        /\ [Record(c, Blob(d)) EXCEPT !.engine = "former"] \in Content
    BY <2>1 DEF Content
  <2> QED
    BY <2>2, ContentHas, BlobIsGenuine, RecordIsGenuine, ForeignIsGenuine
<1>3. {None, Broken} \subseteq {x \in Content : Genuine(x)}
  BY NoneIsGenuine, ContentHas
<1>4. \E b, r \in {x \in Content : Genuine(x)} :
        \/ blobs' = [blobs EXCEPT ![c] = b] /\ UNCHANGED records
        \/ records' = [records EXCEPT ![c] = r] /\ UNCHANGED blobs
        \/ blobs' = [blobs EXCEPT ![c] = b] /\ records' = [records EXCEPT ![c] = r]
  BY <1>2, <1>3 DEF Damage
<1>5. {blobs', records', temps'} \subseteq [Component -> Content] /\ Files'
  BY <1>1, <1>4 DEF SInv, TypeOK, Files
<1>6. ASSUME NEW q \in Caller
      PROVE  OpensOnly(call[q], call'[q])
  BY DEF Damage, OpensOnly
<1>7. ASSUME NEW q \in Caller
      PROVE  Moves(call[q], call'[q]) /\ SoundCall(call'[q], child'[q]) /\ call'[q] \in Call \cup {None}
  <2>1. SoundCall(call[q], child[q]) /\ call[q] \in Call \cup {None}
    BY DEF SInv, Calls, TypeOK
  <2> QED
    BY <1>1, <1>6, <2>1, OpensOnlyIsSound
<1>8. call' \in [Caller -> Call \cup {None}] /\ child' \in [Caller -> Worker \cup {None}]
  <2>1. call' = [q \in Caller |-> call'[q]]
    BY DEF Damage
  <2> QED
    BY <1>1, <1>7, <2>1 DEF SInv, TypeOK
<1> QED
  BY <1>1, <1>5, <1>7, <1>8, MovesKeep

LEMMA AuthorityKeeps ==
  ASSUME SInv, Authority
  PROVE  SInv'
<1>1. UNCHANGED <<deployed, gate, poisoned, call, child, files, clock, started, uses>>
  BY DEF Authority, Issue, V1Tick
<1>2. Calls' /\ Files' /\ OneGuest'
  BY <1>1 DEF SInv, Calls, Files, files, OneGuest
<1>3. Clocks'
  BY <1>1 DEF SInv, Clocks, SoundClock, Guest, At, clock
<1>4. /\ now' \in 0 .. MaxTime /\ DOMAIN token' = Token
      /\ \A t \in Token : token'[t] = token[t] \/ (token[t] = None /\ token'[t].max_uses \in UseLimits \ {0})
  <2>1. CASE V1Tick
    BY <2>1, TokenBounds DEF V1Tick, SInv, TypeOK, V1TypeOK
  <2>2. ASSUME NEW t \in Token, Issue(t)
        PROVE  /\ now' = now /\ DOMAIN token' = Token
               /\ \A u \in Token : token'[u] = token[u] \/ (token[u] = None /\ token'[u].max_uses \in UseLimits \ {0})
    <3>1. PICK r \in V1Request, ttl \in Ttls, limit \in UseLimits :
            /\ token[t] = None /\ limit > 0 /\ now' = now
            /\ token' = [token EXCEPT ![t] =
                 [scope |-> <<r.venture, r.actor, r.tool, r.operation, r.resource>>,
                  max_uses |-> limit, expires |-> now + ttl]]
      BY <2>2 DEF Issue
    <3>2. limit \in UseLimits \ {0}
      BY <3>1, TokenBounds
    <3> DEFINE said == [scope |-> <<r.venture, r.actor, r.tool, r.operation, r.resource>>,
                        max_uses |-> limit, expires |-> now + ttl]
    <3>3. said.max_uses = limit
      OBVIOUS
    <3>4. token' = [token EXCEPT ![t] = said]
      BY <3>1
    <3> HIDE DEF said
    <3> QED
      BY <3>1, <3>2, <3>3, <3>4 DEF SInv
  <2> QED
    BY <2>1, <2>2 DEF Authority, SInv, TypeOK, V1TypeOK
<1>5. TypeOK'
  <2>1. V1TypeOK'
    BY <1>1, <1>4 DEF SInv, TypeOK, V1TypeOK
  <2> QED
    BY <1>1, <2>1 DEF SInv, TypeOK, files, clock
<1>6. Uses'
  <2> SUFFICES ASSUME NEW e \in Executor, NEW t \in Token PROVE SoundUses(e, t)'
    BY DEF Uses
  <2>1. SoundUses(e, t)
    BY DEF SInv, Uses
  <2>2. ToStart(e, t)' <=> ToStart(e, t)
    BY <1>1 DEF ToStart
  <2>3. CASE token'[t] = token[t]
    BY <1>1, <2>1, <2>2, <2>3 DEF SoundUses
  <2>4. CASE token[t] = None
    <3>1. uses[e][t] \in Nat /\ ~(uses[e][t] > 0)
      BY <2>1, <2>4 DEF SInv, TypeOK, V1TypeOK, SoundUses
    <3> QED
      BY <1>1, <2>1, <2>2, <3>1 DEF SoundUses
  <2> QED
    BY <1>4, <2>3, <2>4
<1> QED
  BY <1>2, <1>3, <1>4, <1>5, <1>6 DEF SInv

----------------------------------------------------------------------------
(* Every step.                                                             *)

LEMMA StepKeeps ==
  ASSUME SInv, NEW p \in Caller, Step(p)
  PROVE  SInv'
<1>1. CASE Lookup(p) \/ ReadRecord(p) \/ VerifyEntry(p)
  BY <1>1, LookupKeeps
<1>2. CASE QuarantineBlob(p) \/ QuarantineRecord(p)
  BY <1>2, QuarantineKeeps
<1>3. CASE SpawnWorker(p)
  BY <1>3, SpawnKeeps
<1>4. CASE PollWorker(p) \/ KillWorker(p) \/ Refuse(p)
  BY <1>4, FailKeeps
<1>5. CASE CreateTemp(p)
  BY <1>5, CreateKeeps
<1>6. CASE WriteBytes(p)
  BY <1>6, WriteKeeps
<1>7. CASE RenameTemp(p)
  BY <1>7, RenameKeeps
<1>8. CASE RenameFails(p)
  BY <1>8, UnstoredKeeps
<1>9. CASE Run(p)
  BY <1>9, RunKeeps
<1>10. CASE CutOff(p)
  BY <1>10, FinishKeeps
<1> QED
  BY <1>1, <1>2, <1>3, <1>4, <1>5, <1>6, <1>7, <1>8, <1>9, <1>10 DEF Step

LEMMA NextKeeps == SInv /\ [Next]_vars => SInv'
<1> SUFFICES ASSUME SInv, [Next]_vars PROVE SInv'
  OBVIOUS
<1>1. deployed \subseteq Sandbox /\ Asked \subseteq Component
  BY SandboxKinds DEF SInv, TypeOK
<1>2. ASSUME NEW p \in Caller, NEW s \in deployed, NEW c \in Asked,
             Execute(p, s, c) \/ \E t \in Token, r \in V1Request : ExecuteWasm(p, s, c, t, r)
      PROVE  SInv'
  BY <1>1, <1>2, ExecuteKeeps, ExecuteWasmKeeps
<1>3. ASSUME NEW p \in Caller,
             \/ Step(p) \/ CompileInProcess(p) \/ WorkerExits(p) \/ WorkerCompiles(p)
             \/ SpawnPanics(p) \/ StoreFails(p) \/ Return(p)
      PROVE  SInv'
  BY <1>3, StepKeeps, FailKeeps, WorkerKeeps, UnstoredKeeps, FinishKeeps
<1>4. ASSUME NEW s \in deployed, Pass(s) \/ Wake(s) \/ Kill(s)
      PROVE  SInv'
  BY <1>1, <1>4, TimeKeeps, KillKeeps
<1>5. ASSUME NEW c \in Asked, Damage(c)
      PROVE  SInv'
  BY <1>1, <1>5, DamageKeeps
<1>6. CASE UNCHANGED vars
  BY <1>6, StillKeeps DEF vars
<1> QED
  BY <1>2, <1>3, <1>4, <1>5, <1>6, AuthorityKeeps DEF Next

THEOREM SandboxInvariant == Spec => []SInv
<1>1. Init => SInv
  BY Initially
<1>2. SInv /\ [Next]_vars => SInv'
  BY NextKeeps
<1> QED
  BY <1>1, <1>2, PTL DEF Spec

----------------------------------------------------------------------------

\* The variables keep their types: in particular no gate is poisoned but that of
\* a sandbox with a compile worker.
THEOREM TypeCorrect == Spec => []TypeOK
<1>1. SInv => TypeOK
  BY DEF SInv
<1> QED
  BY <1>1, SandboxInvariant, PTL

\* No guest is compiled from any bytes but those its caller gave, whatever the
\* processes that share the cache write over each other and whatever else is put
\* there, short of a record that the owner's key made for other bytes.
THEOREM GuestsAreGenuine == Spec => []RunsWhatWasAsked
<1>1. SInv => RunsWhatWasAsked
  BY DEF SInv, Calls, SoundCall, RunsWhatWasAsked
<1> QED
  BY <1>1, SandboxInvariant, PTL

\* Every way in takes the gate and every way out gives it back.
THEOREM GatesAdmitOne == Spec => []OneGuest
<1>1. SInv => OneGuest
  BY DEF SInv
<1> QED
  BY <1>1, SandboxInvariant, PTL

\* For any deadline, and any stall of the ticker, a guest is cut off in time.
THEOREM GuestsAreCutOff == Spec => []GuestIsBounded
<1>1. SInv => GuestIsBounded
  <2> SUFFICES ASSUME SInv, NEW s \in Sandbox, Guest(s)
               PROVE  ran[s] <= 4 * (Deadline[s] - 1) + (IF left[s] = 0 THEN MaxStall[s] ELSE since[s])
    BY DEF GuestIsBounded
  <2>1. /\ since[s] \in Nat /\ left[s] \in Nat /\ ran[s] \in Nat
        /\ Deadline[s] \in Nat \ {0} /\ MaxStall[s] \in Nat /\ SoundClock(s)
    BY ClockTypes
  <2>2. CASE left[s] = 0
    BY <2>1, <2>2 DEF SoundClock
  <2>3. CASE left[s] > 0
    <3>1. ran[s] <= 4 * (Deadline[s] - left[s]) + since[s]
      BY <2>1, <2>3 DEF SoundClock
    <3> QED
      BY <2>1, <2>3, <3>1
  <2> QED
    BY <2>1, <2>2, <2>3
<1> QED
  BY <1>1, SandboxInvariant, PTL

\* In one life of an executor no token starts more guests than it allows.
THEOREM StartsAreCounted == Spec => []StartsWithinUses
<1>1. SInv => StartsWithinUses
  <2> SUFFICES ASSUME SInv, NEW e \in Executor, NEW t \in Token, started[e][t] > 0
               PROVE  token[t] # None /\ t \notin Forged /\ started[e][t] <= token[t].max_uses
    BY DEF StartsWithinUses
  <2>1. /\ SoundUses(e, t) /\ started[e][t] \in Nat /\ uses[e][t] \in Nat
    BY DEF SInv, Uses, TypeOK, V1TypeOK
  <2>2. uses[e][t] > 0 /\ started[e][t] <= uses[e][t]
    BY <2>1 DEF SoundUses
  <2>3. token[t] # None /\ t \notin Forged /\ uses[e][t] <= token[t].max_uses
    BY <2>1, <2>2 DEF SoundUses
  <2>4. token[t].max_uses \in Nat
    BY <2>3, TokenBounds DEF SInv, TypeOK, V1TypeOK
  <2> QED
    BY <2>1, <2>2, <2>3, <2>4
<1> QED
  BY <1>1, SandboxInvariant, PTL

============================================================================

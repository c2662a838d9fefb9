----------------------------- MODULE WasmSandbox -----------------------------
(***************************************************************************)
(* The WebAssembly sandbox (crates/sandbox: wasm.rs, compiled_cache.rs,    *)
(* compile_worker.rs and the V1 executor of lib.rs): one guest at a time   *)
(* behind a gate, compiled in a child process that may be killed, or taken *)
(* from a cache of signed files that several processes share, and cut off  *)
(* by a ticker thread that advances the engine's epoch.                    *)
(***************************************************************************)
EXTENDS CapabilityV1

CONSTANTS
  Caller,               \* threads that call execute
  Sandbox,              \* WasmSandbox objects, each in its process
  WithCache, WithWorker,
  Component,            \* module bytes
  Asked,                \* those that callers run; the rest only lie in the cache
  MayBe,                \* what each one's bytes may be: see Natures
  Broken, Empty,        \* bytes that are neither a module nor a record, no bytes
  Deadline,             \* deadline_ticks: each wall_timeout / epoch_tick, rounded up
  MaxStall,             \* half ticks each ticker thread may go unscheduled
  Deployments,          \* which sandboxes run beside each other
  MaxCalls, MaxFaults

Natures == {"runs", "heavy", "invalid", "refused"}

ASSUME SandboxKinds ==
  /\ Executor \subseteq Sandbox
  /\ WithCache \cup WithWorker \subseteq Sandbox \ Executor
  /\ Deployments \subseteq SUBSET Sandbox
  /\ Asked \subseteq Component
  /\ MayBe \in [Component -> SUBSET Natures]
ASSUME TickerBounds == Deadline \in [Sandbox -> Nat \ {0}] /\ MaxStall \in [Sandbox -> Nat \ {0, 1}]

VARIABLES
  deployed,      \* the sandboxes there are
  gate,          \* who holds each execution gate
  poisoned,      \* gates whose holder panicked
  call,          \* each caller's call
  child,         \* the compile worker's process
  blobs, records, temps,        \* KEY.blob, KEY.cose and the KEY.tmp they share
  since,         \* half ticks since each ticker last woke
  left,          \* epochs each guest has left
  ran,           \* half ticks it has run for
  started,       \* guests started under each token, in this life of its executor
  calls, faults                 \* bounds

files == <<blobs, records, temps>>
clock == <<since, left, ran>>
bounds == <<calls, faults>>
vars == <<v1, deployed, gate, poisoned, call, child, files, clock, started, bounds>>

\* A compiled blob, and the record that vouches for one.
Blob(c) == [module |-> c]
Record(c, b) == [component |-> c, blob |-> b, by |-> "owner", engine |-> "current"]

\* What a file of the cache may hold, and a call of execute on its way.
Records ==
  [component : Component, blob : {Blob(c) : c \in Component},
   by : {"owner", "stranger"}, engine : {"current", "former"}]

Content == {None, Broken, Empty} \cup {Blob(c) : c \in Component} \cup Records

Stages ==
  {"lookup", "record", "blob", "quarantine", "quarantine record", "compile", "child",
   "create", "write", "rename", "check", "run"}

Call ==
  [in : Sandbox, of : Component, token : Token \cup {None}, at : Stages, record : Content,
   module : Component \cup {None}, part : {"blob", "record", None},
   open : {"temp", "blob", "record", "gone", None}]

\* The compile worker's process, while there is one.
Worker == {"compiling", "done", "failed"}

ASSUME NoneIsNothing == None \notin Caller \cup Component \cup Token \cup Call \cup Worker
ASSUME BytesAreDistinct ==
  \A c, d \in Component : {Blob(c), Record(c, Blob(d))} \cap {None, Broken, Empty} = {}

Init ==
  /\ V1Init
  /\ deployed \in Deployments
  /\ gate = [s \in Sandbox |-> None]
  /\ poisoned = {}
  /\ call = [p \in Caller |-> None]
  /\ child = call
  /\ blobs = [c \in Component |-> None]
  /\ records = blobs
  /\ temps = blobs
  /\ since = [s \in Sandbox |-> 0]
  /\ left = since
  /\ ran = since
  /\ started = uses
  /\ calls = 0
  /\ faults = 0

At(p, stage) == call[p] # None /\ call[p].at = stage

Goto(p, stage) == call' = [call EXCEPT ![p].at = stage]

\* The call returns, with a result or an error, and drops its guard.
End(p) ==
  /\ gate' = [gate EXCEPT ![call[p].in] = None]
  /\ call' = [call EXCEPT ![p] = None]

(***************************************************************************)
(* execute: the gate                                                       *)
(***************************************************************************)
GateIsFree_Ignored(s) == s \notin poisoned

GateIsFree(s) == gate[s] = None /\ s \notin poisoned

Fresh(s, c, t) ==
  [in |-> s, of |-> c, token |-> t, at |-> "lookup", record |-> None, module |-> None,
   part |-> None, open |-> None]

\* try_lock never waits: a call that finds the gate held is told RuntimeBusy, one
\* that finds it poisoned RuntimeUnavailable.
Enter(p, s, c, t) ==
  IF GateIsFree(s)
  THEN /\ gate' = [gate EXCEPT ![s] = p]
       /\ call' = [call EXCEPT ![p] = Fresh(s, c, t)]
  ELSE UNCHANGED <<gate, call>>

Called(p) == call[p] = None /\ calls < MaxCalls /\ calls' = calls + 1

\* WasmSandbox::execute, and VerifiedSandboxExecutor with its authority checked
\* elsewhere.
Execute(p, s, c) ==
  /\ s \notin Executor
  /\ Called(p)
  /\ Enter(p, s, c, None)
  /\ UNCHANGED <<v1, deployed, poisoned, child, files, clock, started, faults>>

\* SandboxExecutor::execute_wasm holds its executor exclusively.  The use is
\* spent whatever becomes of the run.
ExecuteWasm(p, s, c, t, r) ==
  /\ s \in Executor
  /\ gate[s] = None
  /\ Called(p)
  /\ IF Valid(s, t, <<r.venture, r.actor, r.tool, r.operation, r.resource>>)
     THEN Spend(s, t) /\ Enter(p, s, c, t)
     ELSE UNCHANGED <<uses, gate, call>>
  /\ UNCHANGED <<now, token, deployed, poisoned, child, files, clock, started, faults>>

(***************************************************************************)
(* CompiledCache::lookup                                                   *)
(***************************************************************************)
Lookup(p) ==
  LET c == call[p].of
  IN  /\ At(p, "lookup")
      /\ Goto(p, IF call[p].in \in WithCache /\ None \notin {blobs[c], records[c]}
                 THEN "record" ELSE "compile")
      /\ UNCHANGED <<v1, deployed, gate, poisoned, child, files, clock, started, bounds>>

ReadRecord(p) ==
  /\ At(p, "record")
  /\ call' = [call EXCEPT ![p] = [@ EXCEPT !.at = "blob", !.record = records[call[p].of]]]
  /\ UNCHANGED <<v1, deployed, gate, poisoned, child, files, clock, started, bounds>>

\* verify_entry: the record is the owner's, for this engine and this component,
\* and the blob is the one it names.
Admits_AnyBlob(c, record, blob) ==
  \E d, e \in Component : blob = Blob(d) /\ record = Record(c, Blob(e))

Admits(c, record, blob) == \E d \in Component : blob = Blob(d) /\ record = Record(c, blob)

VerifyEntry(p) ==
  LET c == call[p].of
  IN  /\ At(p, "blob")
      /\ call' = [call EXCEPT ![p] =
           IF Admits(c, @.record, blobs[c])
           THEN [@ EXCEPT !.at = "check", !.module = blobs[c].module, !.record = None]
           ELSE [@ EXCEPT !.at = "quarantine", !.record = None]]
      /\ UNCHANGED <<v1, deployed, gate, poisoned, child, files, clock, started, bounds>>

\* A writer that has the file open writes on to the file that moved.
Moved(c, from, to) ==
  [q \in Caller |-> IF call[q] = None \/ call[q].of # c \/ call[q].open # from THEN call[q]
                    ELSE [call[q] EXCEPT !.open = to]]

\* quarantine_entry, best effort: whatever is there by now goes, file by file.
QuarantineBlob(p) ==
  LET c == call[p].of
  IN  /\ At(p, "quarantine")
      /\ blobs' = [blobs EXCEPT ![c] = None]
      /\ call' = [Moved(c, "blob", "gone") EXCEPT ![p].at = "quarantine record"]
      /\ UNCHANGED <<v1, deployed, gate, poisoned, child, records, temps, clock, started, bounds>>

QuarantineRecord(p) ==
  LET c == call[p].of
  IN  /\ At(p, "quarantine record")
      /\ records' = [records EXCEPT ![c] = None]
      /\ call' = [Moved(c, "record", "gone") EXCEPT ![p].at = "compile"]
      /\ UNCHANGED <<v1, deployed, gate, poisoned, child, blobs, temps, clock, started, bounds>>

(***************************************************************************)
(* Compilation                                                             *)
(***************************************************************************)
Compiles(c) == MayBe[c] \cap {"runs", "refused"} # {}

Compiled(p) ==
  LET cached == call[p].in \in WithCache
  IN  call' = [call EXCEPT ![p] = [@ EXCEPT !.module = call[p].of,
                                           !.at = IF cached THEN "create" ELSE "check",
                                           !.part = IF cached THEN "blob" ELSE None]]

\* Without a worker nothing bounds the compilation.
CompileInProcess(p) ==
  /\ At(p, "compile")
  /\ call[p].in \notin WithWorker
  /\ \/ "invalid" \in MayBe[call[p].of] /\ End(p)
     \/ Compiles(call[p].of) /\ Compiled(p) /\ UNCHANGED gate
  /\ UNCHANGED <<v1, deployed, poisoned, child, files, clock, started, bounds>>

SpawnWorker(p) ==
  /\ At(p, "compile")
  /\ call[p].in \in WithWorker
  /\ child' = [child EXCEPT ![p] = "compiling"]
  /\ Goto(p, "child")
  /\ UNCHANGED <<v1, deployed, gate, poisoned, files, clock, started, bounds>>

\* run_compile_worker: it may run out of memory or die, and heavy work may
\* never end.
WorkerExits(p) ==
  /\ child[p] = "compiling"
  /\ child' = [child EXCEPT ![p] = "failed"]
  /\ UNCHANGED <<v1, deployed, gate, poisoned, call, files, clock, started, bounds>>

WorkerCompiles(p) ==
  /\ child[p] = "compiling"
  /\ Compiles(call[p].of)
  /\ child' = [child EXCEPT ![p] = "done"]
  /\ UNCHANGED <<v1, deployed, gate, poisoned, call, files, clock, started, bounds>>

Reap(p) == child' = [child EXCEPT ![p] = None]

\* The parent polls, and kills a child that is still running at the deadline.
PollWorker(p) ==
  /\ At(p, "child")
  /\ child[p] \in {"done", "failed"}
  /\ Reap(p)
  /\ IF child[p] = "done"
     THEN Compiled(p) /\ UNCHANGED gate
     ELSE End(p)
  /\ UNCHANGED <<v1, deployed, poisoned, files, clock, started, bounds>>

Outlasts_Never(p) == FALSE

Outlasts(p) == child[p] = "compiling"

KillWorker(p) ==
  /\ At(p, "child")
  /\ Outlasts(p)
  /\ Reap(p)
  /\ End(p)
  /\ UNCHANGED <<v1, deployed, poisoned, files, clock, started, bounds>>

Fault == faults < MaxFaults /\ faults' = faults + 1

\* The parent cannot start its pipe threads: thread::spawn panics with the gate
\* held, and the sandbox fails closed for good.
SpawnPanics(p) ==
  /\ At(p, "child")
  /\ Fault
  /\ Reap(p)
  /\ poisoned' = poisoned \cup {call[p].in}
  /\ End(p)
  /\ UNCHANGED <<v1, deployed, files, clock, started, calls>>

(***************************************************************************)
(* CompiledCache::store, the blob and then its record, each by             *)
(* write_atomic over the one temporary file                                *)
(***************************************************************************)
Bytes(p) == IF call[p].part = "blob" THEN Blob(call[p].module)
            ELSE Record(call[p].of, Blob(call[p].module))

CreateTemp(p) ==
  /\ At(p, "create")
  /\ temps' = [temps EXCEPT ![call[p].of] = Empty]
  /\ call' = [call EXCEPT ![p] = [@ EXCEPT !.at = "write", !.open = "temp"]]
  /\ UNCHANGED <<v1, deployed, gate, poisoned, child, blobs, records, clock, started, bounds>>

\* Bytes written over another writer's: the longer of the two shows through.
Overwritten(file, c, bytes) ==
  {[file EXCEPT ![c] = b] : b \in {bytes} \cup (IF file[c] \in {Empty, bytes} THEN {} ELSE {Broken})}

WriteBytes(p) ==
  LET c == call[p].of
  IN  /\ At(p, "write")
      /\ \/ /\ call[p].open = "temp"
            /\ temps' \in Overwritten(temps, c, Bytes(p))
            /\ UNCHANGED <<blobs, records>>
         \/ /\ call[p].open = "blob"
            /\ blobs' \in Overwritten(blobs, c, Bytes(p))
            /\ UNCHANGED <<temps, records>>
         \/ /\ call[p].open = "record"
            /\ records' \in Overwritten(records, c, Bytes(p))
            /\ UNCHANGED <<temps, blobs>>
         \/ call[p].open = "gone" /\ UNCHANGED files
      /\ Goto(p, "rename")
      /\ UNCHANGED <<v1, deployed, gate, poisoned, child, clock, started, bounds>>

\* Every writer that has the renamed file open goes along with it, and the file
\* it replaces is gone.
RenameTemp(p) ==
  LET c == call[p].of
      part == call[p].part
      moved(q) ==
        IF call[q] = None \/ call[q].of # c THEN call[q]
        ELSE [call[q] EXCEPT !.open = CASE @ = "temp" -> part [] @ = part -> "gone" [] OTHER -> @]
  IN  /\ At(p, "rename")
      /\ temps[c] # None
      /\ IF part = "blob"
         THEN blobs' = [blobs EXCEPT ![c] = temps[c]] /\ UNCHANGED records
         ELSE records' = [records EXCEPT ![c] = temps[c]] /\ UNCHANGED blobs
      /\ temps' = [temps EXCEPT ![c] = None]
      /\ call' = [q \in Caller |->
           IF q # p THEN moved(q)
           ELSE [call[p] EXCEPT !.open = None,
                                !.at = IF part = "blob" THEN "create" ELSE "check",
                                !.part = IF part = "blob" THEN "record" ELSE None]]
      /\ UNCHANGED <<v1, deployed, gate, poisoned, child, clock, started, bounds>>

\* A store that fails removes the temporary file by its name and is forgotten.
Unstored(p) ==
  /\ temps' = [temps EXCEPT ![call[p].of] = None]
  /\ call' = [Moved(call[p].of, "temp", "gone") EXCEPT
                ![p] = [@ EXCEPT !.at = "check", !.part = None, !.open = None]]
  /\ UNCHANGED <<v1, deployed, gate, poisoned, child, blobs, records, clock, started>>

RenameFails(p) ==
  /\ At(p, "rename")
  /\ temps[call[p].of] = None
  /\ Unstored(p)
  /\ UNCHANGED bounds

StoreFails(p) ==
  /\ \E stage \in {"create", "write", "rename"} : At(p, stage)
  /\ Fault
  /\ Unstored(p)
  /\ UNCHANGED calls

(***************************************************************************)
(* The guest                                                               *)
(***************************************************************************)
\* No import is linked, and the declared memory and tables must fit.
Refuse(p) ==
  /\ At(p, "check")
  /\ "refused" \in MayBe[call[p].module]
  /\ End(p)
  /\ UNCHANGED <<v1, deployed, poisoned, child, files, clock, started, bounds>>

\* The guest starts anywhere between two wakes of the ticker.
Run(p) ==
  LET s == call[p].in
      t == call[p].token
  IN  /\ At(p, "check")
      /\ "runs" \in MayBe[call[p].module]
      /\ \E phase \in 0 .. MaxStall[s] : since' = [since EXCEPT ![s] = phase]
      /\ left' = [left EXCEPT ![s] = Deadline[s]]
      /\ started' = IF t = None THEN started ELSE [started EXCEPT ![s][t] = @ + 1]
      /\ Goto(p, "run")
      /\ UNCHANGED <<v1, deployed, gate, poisoned, child, ran, files, bounds>>

\* With the guest go its store and its clock.
Stop(s) ==
  /\ since' = [since EXCEPT ![s] = 0]
  /\ left' = [left EXCEPT ![s] = 0]
  /\ ran' = [ran EXCEPT ![s] = 0]

Finish(p) ==
  /\ At(p, "run")
  /\ End(p)
  /\ Stop(call[p].in)
  /\ UNCHANGED <<v1, deployed, poisoned, child, files, started, bounds>>

\* It returns or traps of its own accord, asks for too much memory or uses up its
\* fuel ...
Return(p) == Finish(p)

\* ... or is cut off at its next check of the epoch.
CutOff(p) ==
  /\ At(p, "run")
  /\ left[call[p].in] = 0
  /\ Finish(p)

Guest(s) == gate[s] # None /\ At(gate[s], "run")

\* Time passes while a guest runs.  One whose deadline is over runs no more.
Pass(s) ==
  /\ Guest(s)
  /\ left[s] > 0
  /\ since[s] < MaxStall[s]
  /\ since' = [since EXCEPT ![s] = @ + 1]
  /\ ran' = [ran EXCEPT ![s] = @ + 1]
  /\ UNCHANGED <<v1, deployed, gate, poisoned, call, child, files, left, started, bounds>>

Smaller(i, j) == IF i < j THEN i ELSE j

ElapsedTicks_One(halves, ceiling) == 1

\* elapsed_ticks, capped at the deadline.  The remainder is lost.
ElapsedTicks(halves, ceiling) == Smaller(halves \div 2, ceiling)

\* recv_timeout gives up after at least one tick; the thread may be late.
Wake(s) ==
  /\ Guest(s)
  /\ left[s] > 0
  /\ since[s] >= 2
  /\ left' = [left EXCEPT ![s] = @ - Smaller(@, ElapsedTicks(since[s], Deadline[s]))]
  /\ since' = [since EXCEPT ![s] = 0]
  /\ UNCHANGED <<v1, deployed, gate, poisoned, call, child, files, ran, started, bounds>>

(***************************************************************************)
(* The world                                                               *)
(***************************************************************************)
\* The process dies and is started again; its files stay as they are.
Kill(s) ==
  LET dead == {p \in Caller : call[p] # None /\ call[p].in = s}
  IN  /\ Fault
      /\ gate' = [gate EXCEPT ![s] = None]
      /\ poisoned' = poisoned \ {s}
      /\ call' = [p \in Caller |-> IF p \in dead THEN None ELSE call[p]]
      /\ child' = [p \in Caller |-> IF p \in dead THEN None ELSE child[p]]
      /\ Stop(s)
      /\ IF s \in Executor
         THEN Forget(s) /\ started' = [started EXCEPT ![s] = [t \in Token |-> 0]]
         ELSE UNCHANGED <<uses, started>>
      /\ UNCHANGED <<now, token, deployed, files, calls>>

\* What a bad disk, a power loss or another program may leave in the cache:
\* bytes that are nothing, another entry's files under this name, a record that
\* another key signed or that an earlier engine left, or no file.
Damage(c) ==
  /\ Fault
  /\ \/ \E b \in {None, Broken} \cup {Blob(d) : d \in Component} :
          blobs' = [blobs EXCEPT ![c] = b] /\ UNCHANGED records
     \/ \E r \in {None, Broken} \cup {Record(d, Blob(d)) : d \in Component} :
          records' = [records EXCEPT ![c] = r] /\ UNCHANGED blobs
     \/ \E d \in Component :
          /\ blobs' = [blobs EXCEPT ![c] = Blob(d)]
          /\ \E r \in {Record(d, Blob(d)),
                       [Record(c, Blob(d)) EXCEPT !.by = "stranger"],
                       [Record(c, Blob(d)) EXCEPT !.engine = "former"]} :
               records' = [records EXCEPT ![c] = r]
  /\ call' = [p \in Caller |->
       IF call[p] # None /\ call[p].of = c /\ call[p].open \in {"blob", "record"}
       THEN [call[p] EXCEPT !.open = "gone"] ELSE call[p]]
  /\ UNCHANGED <<v1, deployed, gate, poisoned, child, temps, clock, started, calls>>

Authority ==
  /\ (\E t \in Token : Issue(t)) \/ V1Tick
  /\ UNCHANGED <<deployed, gate, poisoned, call, child, files, clock, started, bounds>>

\* What the caller's thread does next, without being asked.
Step(p) ==
  \/ Lookup(p) \/ ReadRecord(p) \/ VerifyEntry(p) \/ QuarantineBlob(p) \/ QuarantineRecord(p)
  \/ SpawnWorker(p) \/ PollWorker(p) \/ KillWorker(p)
  \/ CreateTemp(p) \/ WriteBytes(p) \/ RenameTemp(p) \/ RenameFails(p)
  \/ Refuse(p) \/ Run(p) \/ CutOff(p)

Next ==
  \/ \E p \in Caller, s \in deployed, c \in Asked :
       \/ Execute(p, s, c)
       \/ \E t \in Token, r \in V1Request : ExecuteWasm(p, s, c, t, r)
  \/ \E p \in Caller : \/ Step(p) \/ CompileInProcess(p) \/ WorkerExits(p) \/ WorkerCompiles(p) \/ SpawnPanics(p)
                       \/ StoreFails(p) \/ Return(p)
  \/ \E s \in deployed : Pass(s) \/ Wake(s) \/ Kill(s)
  \/ deployed \cap WithCache # {} /\ \E c \in Asked : Damage(c)
  \/ deployed \cap Executor # {} /\ Authority

\* Threads are scheduled and time passes.  Nothing is asked of the guest, of the
\* compile worker, nor of a compilation that no worker bounds.
Fairness ==
  /\ \A p \in Caller : WF_vars(Step(p))
  /\ \A s \in Sandbox : WF_vars(Pass(s)) /\ WF_vars(Wake(s))

Spec == Init /\ [][Next]_vars /\ Fairness

(***************************************************************************)
(* Properties                                                              *)
(***************************************************************************)
TypeOK ==
  /\ V1TypeOK
  /\ deployed \subseteq Sandbox
  /\ gate \in [Sandbox -> Caller \cup {None}]
  /\ poisoned \subseteq WithWorker
  /\ call \in [Caller -> Call \cup {None}]
  /\ child \in [Caller -> Worker \cup {None}]
  /\ {blobs, records, temps} \subseteq [Component -> Content]
  /\ since \in [Sandbox -> Nat] /\ left \in [Sandbox -> Nat] /\ ran \in [Sandbox -> Nat]
  /\ started \in [Executor -> [Token -> Nat]]

\* A guest is compiled from the very bytes its caller gave, whatever the cache
\* holds and whoever writes to it at that moment: a lookup rehashes the blob
\* against an owner's record for this component (verify_entry).
RunsWhatWasAsked ==
  \A p \in Caller : call[p] # None /\ call[p].module # None => call[p].module = call[p].of

\* At most one call is inside a sandbox, and the gate knows which: every way out
\* gives the gate back (execution_gate, its guard's drop).
OneGuest ==
  \A p \in Caller, s \in Sandbox : gate[s] = p <=> call[p] # None /\ call[p].in = s

\* A guest is cut off before it has run for twice its deadline and one stall of
\* the ticker: a late wake makes up for the ticks it missed, but for the
\* remainder (WasmSandbox::new's thread, elapsed_ticks).
GuestIsBounded ==
  \A s \in Sandbox : Guest(s) =>
    ran[s] <= 4 * (Deadline[s] - 1) + (IF left[s] = 0 THEN MaxStall[s] ELSE since[s])

\* An executor starts no more guests under a token than it allows, and none
\* under one it never admitted, however their runs ended (validate, authorize).
StartsWithinUses ==
  \A e \in Executor, t \in Token :
    started[e][t] > 0 => token[t] # None /\ t \notin Forged /\ started[e][t] <= token[t].max_uses

\* Every call returns, be the guest an endless loop or its compilation endless
\* work (CompileWorker::run's deadline, the epoch deadline).  Only a sandbox
\* without a compile worker may never get as far as its guest.
EveryCallReturns ==
  \A p \in Caller :
    call[p] # None /\ (call[p].in \in WithWorker \/ At(p, "run")) ~> call[p] = None
==============================================================================

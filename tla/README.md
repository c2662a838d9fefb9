# A formal model of Sovereign Founder OS

TLA+ modules, TLC configurations and TLAPS proofs about the local-first
founder workspace of this repository and the crates below it: the data
directory, the signed artifacts, the policy, the capabilities, the one-use
authority store, the model gateway and the WebAssembly sandbox. `PROJECT.json`
relates every definition to the lines it models, every run to what it shows,
and every hazard of the code to the properties that cover it.

## The system

`sovereign ui` serves one founder on the loopback interface. One server
process takes requests one at a time (`apps/cli/src/ui.rs`, the
`incoming_requests` loop). Each request opens a `Store` on the data directory,
reads what it needs, computes in memory and makes a few durable writes. There
is no lock file and no database: durability is "temporary file, fsync, rename"
per file, and consistency between files is a matter of the order of writes.
`sovereign init`, `demo`, `integrity` and `model-check` are further processes
on the same directory. The crates below are libraries with the same habits:
the admission store, the authority store and the compiled cache are directories
that any number of processes share without a lock.

| Component | State | Operations | Hard part | Module |
|---|---|---|---|---|
| workspace (`workspace/ops.rs`, `store.rs`) | venture, customers, documents, approvals, disclosures: one vault entry | set venture, add customer, assistant, create document, request send, decide, revoke, confirm, export | each operation is two durable writes, chain first | `Workspace` |
| durable send (`send_workflow.rs`) | a directory per approval: checkpoint and signed record | execute step, commit step, resume | a crash between any two of five writes | `Workspace` |
| kernel chain (`kernel_exec.rs`) | admitted artifact, owner keys | admit, decide, sign, issue, execute, write outbox | an attempt may be repeated | `Workspace` |
| integrity audit, export (`reporting.rs`) | none | compare state and chain, report | reads two files while they are written | `Workspace` |
| outbox broker (`crates/effects`) | one `.eml` per document | exclusive write, revoke | orphans of interrupted attempts | `Workspace` |
| workflow runner (`crates/workflow`) | checkpoint | run, resume | replay receipts, not effects | `Workspace` |
| audit ledger (`crates/audit-ledger`) | hash-linked signed events | append, verify, load, save | whole-file replacement | `DataDirectory` |
| vault (`crates/vault`) | key, manifest, encrypted blobs | init, put, get | three files, written one by one | `DataDirectory` |
| device identity (`crates/identity`) | a key file | generate, load | first-run races | `DataDirectory` |
| role trust (`crates/identity`) | keys per role, their status and validity | add, revoke, reinstate, verify | status changes under signed objects | `RoleTrust` |
| model gateway (`crates/model`) | providers | complete | failover, disclosure | `ModelGateway` |
| artifact store (`crates/artifact`) | objects, manifests, admission records | verify, admit, load | concurrent admission | `ArtifactStore` |
| invocation (`crates/artifact`) | none | declare, prepare | three walks over two trees | `InvocationInput` |
| policy (`crates/policy`) | rules | evaluate | precedence | `PolicyRules` |
| capability v2, approvals (`crates/capability`) | consumed ids in memory | approve, issue, authorize and consume | what is presented together, clocks, revocation | `Authorization`, `VerifiedExecution` |
| capability v1 (`crates/capability`) | use counts in memory | issue, validate | counts of failed runs | `CapabilityV1` |
| authority store (`crates/authority`) | one file per consumed id | claim, bind, purge | cross-process races, expiry | `AuthorityStore` |
| execution journal (`crates/execution`) | append-only file per execution | begin, started, finish, recover | torn tail | `VerifiedExecution` |
| verified executor (`crates/sandbox`) | none of its own | execute | one failure of several durable steps | `VerifiedExecution` |
| Wasm engine, compile worker, compiled cache (`crates/sandbox`) | gate, epoch, child process, cache entries | execute, compile, look up, store, quarantine | late ticker, shared temporary file | `WasmSandbox` |
| server, CLI, frontend (`apps/cli`) | none | route, print | one request at a time | `Workspace`, `DataDirectory` |

What makes each correct, in a sentence:

- **workspace**: whatever is in the vault is signed on the chain, and a
  document moves only along its lifecycle;
- **durable send**: an execution that is durable is never repeated, what is
  committed describes the file in the outbox, and every crash can be resumed;
- **integrity audit**: no false alarm while the server works, and an
  interrupted operation is reported;
- **ledger, vault, identity**: after any crash the directory can be opened, and
  its files vouch for each other;
- **gateway**: a disclosure names every provider that saw the data, and the
  gateway gives up only when nobody else could have answered;
- **artifacts**: what is loaded was admitted, byte for byte, by a key in force;
- **invocation**: what reaches a guest is what its manifest declares;
- **policy, capability, authority**: an authorization is for exactly what was
  decided and approved, and an authority is used once by all processes together;
- **journal**: what is reported as finished did finish, and what may have run
  is never reported as denied;
- **sandbox**: the bytes that run are those that were asked for, one guest at a
  time, for a bounded time, and every call returns.

## Modules

### `Workspace`

The core: the workspace, the send workflow, the outbox, the chain, the vault
and the integrity command.

- `ws`, `ledger`, `outbox`, `flow` are the durable state: the vault entry,
  `ledger.json`, the outbox directory (per document, the venture profile its
  message was composed from), the workflow directories (completed steps, the
  `done` flag, the signed record).
- `pc[p]`, `op[p]` are a server process: the durable step it takes next and
  what it holds in memory. Everything a handler does before its first durable
  write reads one file and computes, so it is one action (`SetVenture`,
  `AddCustomer`, `CreateDocument`, ...). `Commit` and `Record` hand over to
  `LoadChain`, `SaveChain` and `SaveVault`, which are `Store::commit`.
- Approving follows `run_durable_send`: `ComposeSend` (re-check, compose,
  remove an orphan), `RunKernel` (the capability is consumed and executed),
  `WriteOutbox`, `WriteRecord`, `PersistExecute`, `CommitDecision`, the commit,
  `PersistCommit`, `PersistDone`. A later `Approve` resumes after the last
  receipt.
- `Interrupt(p)` is a crash of the process or a durable call that fails: both
  drop the request where it stands and keep what was written. A file is
  replaced atomically (`write_atomic`: temporary file, fsync, rename), so a
  write happens or does not.
- `AuditReadState`, `AuditReadChain` are `sovereign integrity`, a second
  process that reads the vault and then the chain, at any moment.
- `executions`, `shown`, `torn`, `minted` are history: what happened, not what
  the program stores.

A message's content is the venture profile it was composed from, because the
profile is the only input of the composer that can change between two attempts
(customers and documents are never edited). Names, amounts, timestamps, policy
reasons, hashes and signatures are left out: the chain is a sequence of
(action, resource) pairs, which is all that `integrity_check` looks at. The
policy checks of the operations always allow (the rules and their inputs are
fixed for these calls), so they are not guards here.

### `DocumentLifecycle`

The abstract specification: a document's status moves along the lifecycle, and
a move is signed before it lands. `Workspace` implements it with
`status <- ws.documents` and `signed` computed from the chain
(`FollowsLifecycle`).

### `AuthorityStore`

One directory of `crates/authority`, file operation by file operation. The
three kinds of authority have a directory each and share the code; they differ
in what a loser is told (`CompareExisting`).

- `entry[id]` is the file under an authority's id, `temp[c]` the temporary file
  of call `c`, `flushed` what the disk is sure to hold. A record is the call
  that wrote it (which fixes its fingerprint and expiry in `request`) and
  whether it was complete when it was linked.
- `claim` is `CreateTemp`, `FillTemp`, then `LinkFree` or `LinkTaken` (one
  `hard_link`), `Flush` (`sync_directory`) or `CompareExisting`. The winner
  removes its temporary file together with the flush; nothing reads it in
  between but a purge, which would remove it too.
- `purge_expired` reads a record (`PurgeRead`) and removes its name
  (`PurgeRemove`); every `tmp-` file goes (`PurgeTemp`). `Purger` is the set of
  purges that may run at once: the code calls none yet and serialises nothing.
- `Kill` stops a call between two file operations. `PowerLoss` stops them all,
  and a name whose directory was not flushed since its last change becomes any
  of its old value, its new value, or absent. `SyncMayFail` says whether the
  flush, whose error the code discards, may fail.

### `OneUse`

The abstract specification of the store: an identifier has at most one holder,
only a holder is told that it won, and it keeps the identifier until its record
expires. `AuthorityStore` implements it (`KeepsPromise`) with the owner of each
file as holder.

### `VerifiedExecution`

From a decision to a guest: `Evaluate` (policy), `Approve` (the owner's
device), `Issue` (capability V2), and for each process `execute_approved`:
`Begin` (journal intent), `Check` (everything read-only, at one reading of the
clock), `ClaimToken`, `BindKey`, `ClaimApproval` (the durable store),
`Authorize` (the validator's memory), `MarkStarted`, `EnterGuest`,
`LeaveGuest`, `Finish`, or `RecordDenial`.

- A decision stands for the exact invocation it binds: the digests, the tool
  and the session are compared for equality throughout, so equality of
  decisions replaces them. Two decisions may share an idempotency key
  (`KeyOf`).
- Times are kept: a token lives up to `TokenTTL`, an approval up to
  `ApprovalTTL`, a decision may be `DecisionAge` old, or `ApprovalTTL` with
  approval evidence. The clock only advances.
- `memory[p]` is the validator's own record of what it consumed, lost by
  `Kill`. A claim in the durable store is one step here; `AuthorityStore` shows
  that its file operations amount to that, under the assumptions below.
- `journal[x]` is the file of an execution as its lines, a partial line being
  `"torn"`; `Recovered` is `read_execution`. A failed or interrupted append
  leaves the whole line, a part, or nothing (`CutShort`).
- `granted`, `ran`, `lives` are history.

Kills and failed writes share `MaxFaults`. `Purging` says whether somebody
calls `purge_expired`; its two steps per record are one here. The workspace
uses a fresh validator for each send (`kernel_exec.rs`), which is a process
that is killed after each call; long-lived validators are what the crate
offers.

### `RoleTrust`

Signatures of one role, shared by `ArtifactStore` and `Authorization`. An
envelope (`Sign`) is what a COSE object determines: key id, content type,
external data, the key that really signed, the payload. `Verifies` is
`RoleTrustStore::verify`: the envelope is genuine for the role, and its key is
known, of the right issuer, not revoked and within its span of validity. A
digest is what it is a digest of; Ed25519 is assumed.

### `ArtifactStore`

From a publisher's manifest to an artifact the owner admitted. `Verify` is
`ArtifactVerifier::verify`; `Admit`, `CheckEntry`, `WriteEntry` and `FlushEntry`
are `admit`, one file operation at a time for object, manifest and record;
`Load`, `LoadManifest` and `LoadComponent` are the three reads of `load`. Any
number of processes run side by side over one `disk`. `TrustPublisher`,
`TrustAdmitter` and `SetStatus` change the trust stores at any time. Faults are
a failed write, a kill, a file that is damaged or lies under another's name, and
a power loss, which may take the names in a directory that was not flushed
since. A reused entry gets no flush of its own, as in the code; `lost` remembers
what the power took.

### `PolicyRules`, `Authorization`

`PolicyRules` has the rules of `crates/policy` as operators. `Authorization` is
the path from a decision to a consumed capability in full: `Evaluate`,
`Approve`, `IssueToken` and `Consume` make every comparison of
`evaluate_prepared`, `approve_invocation`, `issue_inner` and
`authorize_and_consume_approved`, field by field. The caller presents any
decision, token, approval and invocation together. `SetStatus` revokes and
reinstates the two keys, `Tick` sets the clock forward or back. The validator
has its memory only; the durable store is in `AuthorityStore` and
`VerifiedExecution`, which in turn abstract these comparisons.

### `InvocationInput`

How bytes and grants become a prepared invocation: an operation is declared,
then one invocation is prepared. Bytes are the tree they spell, with objects as
sequences of members so that a name can occur twice. An input has its length and
the length of its canonical form.

The code walks trees three times: a schema when it is declared (with a stack),
a value for its depth (with a stack), and a value beside its schema (by
recursion). Each walk stops at the first node it refuses, and which one that is
makes no difference to the state, so that a walk is a condition on all nodes:
`Generations` has the nodes of a tree by their distance from the root,
`Children` says what is below a node of an input, of a schema, or of a `Pair` of
both, and `NodeOK`, `NodeAccepts` and `Strict` are the checks at one node. The
generations end at `MaxDepth`, the ceiling of declared depths (64 in the code):
a schema or a value that goes further is refused for that. `serde_json`'s own
limit on nesting (128) is above the ceiling and refuses nothing else. The value
that `visit_map` builds is the raw tree seen through `FieldsOf`, which keeps the
last member of a name. `Walk` follows a JSON pointer, and `Turns` is the loop
that matches grants to resource bindings.

### `ModelGateway`

`ModelGateway::complete`: one step per provider considered, in two passes.
`SkipRed`, `SkipUnhealthy`, `ProviderFails`, `ProviderAnswers` choose the health
and the answer freely each time. A provider that is first found unfit in the
second pass is not written on the trail, as in the code. One request is routed
at a time.

### `DataDirectory`

`device.json`, the vault (`vault.key`, `manifest.json`, blobs) and
`ledger.json`, below `Workspace`: what is two atomic writes there is five steps
per file here. It extends `ModelGateway`, because the drafter asks it between
two uses of the directory.

- `Program` lists the stages of each operation in the order of the code; the
  stages are `OpenDevice`, `InitKey`, `ReadManifest`, `GetWorkspace`,
  `LoadLedger`, `AppendEvent`, `CreateLedger`, `PutBlob`, `ListEntry`,
  `AskGateway`, `TakeAnswer`.
- A file is replaced by `CreateTemp`, `WriteBytes`, `SyncBytes`, `RenameTemp`,
  `FlushDirectory`. The temporary file's name is derived from the target's, so
  two writers share it: bytes may mix (`Broken`), a rename may publish what
  another still writes, and a rename may find nothing. The device key alone has
  a private temporary file (`InstallPrivate`).
- `pending` holds a directory's renames since its last flush. A power loss keeps
  a first part of them: the renames of one directory reach the disk in order, as
  on the journalling file systems the code is for, and those of two directories
  in any combination. The data root itself is taken as durable; the vault
  directory is not until the root was flushed after it was made.
- A blob is the key it was encrypted under and the operations it holds; a hash
  link is the event it names.

Two overlapping operations may lose acknowledged events, and the model lets
them. `overlapped` marks such behaviours; all but one of the module's
properties of files are about the others.

Operations that only append to the chain have no program of their own: their
stages are those of the workspace operations without the vault write. Nor has
`owner_secret`, which puts a signing secret into the vault on the first send: it
is one more vault entry, stored by `PutBlob` and listed by `ListEntry`.

### `CapabilityV1`, `WasmSandbox`

`CapabilityV1` is the legacy token: issue, validate and count in memory.
`WasmSandbox` extends it with what happens after `execute` is called.

- `gate[s]` is the execution gate (`try_lock`), `poisoned` the sandboxes whose
  holder panicked; they refuse every call until their process restarts.
- `Lookup`, `ReadRecord`, `VerifyEntry`, `QuarantineBlob`, `QuarantineRecord`
  are the reads of the compiled cache, `CreateTemp`, `WriteBytes`, `RenameTemp`
  its writes, blob first, over one temporary name; several processes share the
  files. `Damage` leaves anything in them: nothing, bytes of nothing, another
  entry's files, a record of another signer or of an earlier engine. That
  includes what a power loss may leave.
- `SpawnWorker`, `WorkerCompiles`, `WorkerExits`, `PollWorker`, `KillWorker` are
  the child process and its deadline.
- `Pass` and `Wake` are time and the ticker thread, in half ticks. The thread
  may be late by up to `MaxStall`; `ElapsedTicks` is its catch-up, which loses
  the remainder. A stall as long as the deadline may cut off a guest that just
  started.
- What bytes are (a module that runs, compiles for ever, is invalid or is
  refused) is chosen whenever it matters, within `MayBe`. What Wasmtime does
  with its limits is external.
- `ExecuteWasm` is the V1 executor, which has neither cache nor worker.
- A blob that matches its record and then fails to deserialize is not a case of
  its own: it is quarantined like one that does not match (`VerifyEntry`).

### MC and proof modules

`MCWorkspace`, `MCAuthorityStore`, `MCVerifiedExecution`, `MCArtifactStore`,
`MCAuthorization`, `MCInvocationInput`, `MCDataDirectory`, `MCWasmSandbox` have
the model values, the constants' sets and the symmetries for TLC.
`WorkspaceProofs`, `AuthorityProofs`, `ExecutionProofs`, `AuthorizationProofs`,
`ArtifactProofs`, `InvocationProofs`, `DirectoryProofs`, `SandboxProofs` have the
theorems (below).

## Runs

| Run | What it asks | Instance |
|---|---|---|
| `safety` | all safety and action properties of one server, the refinement of `DocumentLifecycle`, and that a repeated approval is decided | 1 customer, document, approval; 2 ventures; 2 repeatable requests; 2 interruptions |
| `two_documents` | two sends interleaved request by request | 2 documents and approvals (symmetric), 1 interruption |
| `showings` | a sentence about the disclosure log, refuted | 1 customer, one drafting request, 1 interruption |
| `store_safety` | claims against a purge and failures, and the refinement of `OneUse` | 3 calls for 1 id, 1 purge, 2 failures, expiry times up to 2 |
| `execution_safety` | one use, policy, honest journal | 2 processes, 2 decisions for one idempotency key, 1 approval, 2 tokens, 2 executions, 1 tick, 1 fault |
| `execution_purge` | purges under running validators | 2 processes, 1 decision, 1 approval, 2 tokens, 2 executions, 2 ticks, a purge at any time |
| `purge_revives` | a sentence of the store's documentation, refuted | 1 process, 2 executions, 1 fault, purges |
| `artifacts` | what is loaded was admitted, what is recorded is there | 2 processes, 2 components with a manifest each, an unsound and a wrong-role manifest, 1 key, 1 tick, 1 fault |
| `authorization` | an authorization is exact, single and under keys in force | 2 requests, 3 invocations, 2 decisions, 1 approval, 2 tokens, clock up to 2 and back |
| `inputs` | every declared operation against every input and grant list | 11 schemas, 6 lists of bindings, 2 depth limits; 37 inputs, 6 grant lists |
| `directory` | identity, vault, ledger and gateway | 2 processes, 3 device and vault keys (symmetric), 3 providers; 3 operations and 1 fault, or 2 overlapping operations without one |
| `sandbox` | what runs, for how long, and that calls return | two sandboxes with worker and common cache, or one V1 executor with deadline 2 and a stall of 5 half ticks; 2 callers, 2 components, 2 tokens of which one is forged, 3 calls, 1 fault |

What the properties say:

- `AuditNeverCritical`: the integrity command, reading beside the server and
  after any crash, never finds state without its event. Depends on the order of
  writes in `commit` and on the order of reads in `integrity_check`.
- `ReceiptMatchesOutbox`: once the execute step has its receipt and the
  approval is still pending, the record is there and is that of the last
  execution, and the outbox holds what it describes, so the resumed commit
  signs for the right file.
- `EvidenceNamesTheFile`: committed evidence is that of the only execution
  whose file can be in the outbox.
- `CutOffMoveIsReported`: an interrupted operation of one of the four kinds the
  audit knows is reported until something else is signed.
- `UninterruptedIsClean`: without an interruption the audit does not warn, no
  document is signed as both revoked and delivered, and no decided document has
  an unrecorded file.
- `ShowingsAreLogged`: the disclosure log names no showing that did not happen
  and misses at most one per interruption. This is what the code keeps;
  `EveryShowingIsLogged` is what the repository says, and `showings` refutes it.
- `DecisionsAgree`: an approval and its document are decided together and a
  document has one approval.
- `NoReplayAfterReceipt`: no second capability is consumed after the receipt
  or the decision.
- `ChainIsAppendOnly`: no step loses or rewrites a signed event.
- `PendingIsDecided`: under the fairness below, a pending approval is decided.
- `FollowsLifecycle`: the refinement.
- `LiveClaimStands`: a claim that was acknowledged and has not expired is still
  the record under its id, after kills, purges and power losses. Two live
  winners of one id are impossible in consequence.
- `RecordsAreWhole`: a record that can be read is complete, because it is
  linked only after it was written and flushed.
- `SomeoneWins`: racers for one id do not deny each other when no file
  operation failed and nothing was purged.
- `KeepsPromise`: the refinement of `OneUse`.
- `OneUse` of `VerifiedExecution`: without purges, two executions that were
  authorized share no token, no idempotency key and no approval, across
  processes and restarts.
- `OncePerLife`: with purges, the same still holds of the executions of one
  validator between two restarts.
- `PolicyIsObeyed`: what was authorized was not denied by policy, and was
  approved by the owner, for that very decision, where policy asked for it.
- `JournalIsHonest`: recovery never reports a guest that may have run as
  denied, absent or merely intended, and a verdict is the guest's own.
- `LoadedIsAdmitted`: what a load hands out is the bytes it was asked for, and
  the owner signed a record for that very pair.
- `RecordIsBacked`: an undamaged admission record has its object and manifest,
  but for what the power took. Depends on the record being written last.
- `AdmittedLoads`: what `admit` returned stays loadable while the key is in
  force, whoever else admits it, fails or dies.
- `GrantIsExact`: whatever is presented together, the authorization is for the
  principal, key and invocation of one decision, recent enough, and approved
  after it was made where it had to be, by a token within its lifetime. The
  windows of decision, approval and token end by different comparisons; each is
  here.
- `OneUse` of `Authorization`: no token, approval or idempotency key is good
  twice in the life of a validator, also when the clock goes back.
- `RevocationStops`: a key revoked between issuance and use stops the use.
- `InputIsDeclared`: every path into a prepared input leads to what the schema
  declares there, of its kind and with what it requires, within the depth, and
  no member that was sent is hidden by another of its name; stated over paths,
  where the code walks both trees.
- `DeclaredDepthSuffices`: what a declared schema accepts is within the depth
  limit; the two limits are counted by different walks.
- `GrantsAreExact`: the grants are the resources the input names, one for each
  binding.
- `DirectoryOpens`: after any kill, failed write or power loss every file
  parses, the ledger verifies under the identity, the blobs open under the key.
- `ListedIsStored`, `EvidenceFirst`: the manifest lists only what is there, and
  the workspace holds nothing without its event, through power losses too.
- `AcknowledgedStaysAlone`: while no two operations overlap, an operation that
  was reported as done keeps its event.
- `IdentityIsWhole`: the key file is never partial, also when two processes open
  a fresh directory at once.
- `DisclosureNamesWhoSaw`, `GivesUpLast`: whoever saw the prompt is named, and
  the gateway gives up only when every provider it may ask was last found down
  or failed.
- `RunsWhatWasAsked`: a guest is compiled from the bytes its caller gave,
  whatever is in the cache and whoever writes to it between two reads.
- `OneGuest`: one call at most is inside a sandbox, and every way out gives the
  gate back.
- `GuestIsBounded`: a guest runs for less than twice its deadline and one stall
  of the ticker. The factor of two is the remainder that each wake loses.
- `StartsWithinUses`: an executor starts no more guests under a token than it
  allows, in one life of its process.
- `EveryCallReturns`: with a compile worker every call returns, and without one
  every call that got as far as its guest.

The type invariants are theorems, so no run repeats them.

The bounds. `MaxOptional` bounds the requests that may be repeated without end
(venture, assistant, export); two of them allow a profile to change between a
first attempt of a send and its resumption. `MaxInterrupts` bounds crashes: one
crash reaches every torn state, the second interrupts the repair of the first.
All other requests are bounded by the identifiers, which are never reused (the
code draws UUIDs). One document is enough for the properties about a single
one; `two_documents` is there for those that relate several.
`CHECK_DEADLOCK` stays on for the workspace: the integrity command can always
run. Three calls for one id let a third claim follow a purge of the first while
the second is in flight; claims of different ids touch different files and
meet only in a purge, so the theorems speak of several ids and the run has one.
Lifetimes of one and two ticks are enough to have a token expire before its
approval, and claims on either side of an expiry; two executions are what the
properties relate. In `authorization` the limits of the protocol are small but
ordered as in the code (policy age below token lifetime below approval
lifetime), and approvals are asked for two and for three ticks, so that each of
the three can be the one that ends first. Two processes and one
fault reach every pair of steps of two admissions and every half-done admission
under a later one. In `directory` faults and overlaps are explored apart,
because with both hardly a property of files would be left; three operations let a
third meet what a fault between the first two left. `draft`, `integrity` and
`modelcheck` do not overlap there: their writes are those of a request or none.
In `sandbox` the two sandboxes that share a cache have short deadlines, since
only files pass between them, and the executor has the long one: a deadline of
two ticks and a stall of more than that show the catch-up with and without its
cap. The instances other than the workspace's do stop, when all identifiers are
used, all calls are made or time is over, so deadlock is not checked there;
that nobody is stuck on the way is `PendingIsDecided`, `SomeoneWins` and
`EveryCallReturns`.

Fairness of the workspace (`FairSpec`). Weak fairness of `Continue(p)`: a server
carries on with an accepted request (the loop of `ui.rs` is sequential and no
handler waits for another). Weak fairness of `Approve(p, a)` for an idle
server: the founder repeats an approval that did not go through; the README of
the repository promises just this ("resumes on the next attempt").
Interruptions are bounded and not fair. Nothing is assumed of the other
requests.

Fairness of the sandbox (`WasmSandbox!Spec`). Weak fairness of each caller's own
steps, which wait for nobody once the gate is held; of `Pass`, as time goes on;
and of `Wake`, as the ticker's thread is scheduled in the end. Nothing is
assumed of the guest, of the child process (its parent's deadline is what ends
it), or of a compilation in the calling process, which nothing in the code
bounds.

## What the code does not keep

Two runs end in a counterexample; `findings` quotes the sentences.

`showings`. The README of the repository promises "a data-disclosure log of every
time a model provider was shown customer data" (lines 231-233), and the field
that holds it is documented as "Every time a model provider was shown customer
data" (`types.rs`, line 167). `draft_assistant` gives the provider the prompt
(`ops.rs`, line 118) and only then loads the workspace again and commits the
entry (line 154). A crash, or a chain or vault write that fails, in between
leaves a showing the log does not have, and nothing adds it later. Without an
interruption the claim holds in the same instance (`MaxInterrupts = 0`), and
with them the log misses at most one showing for each (`ShowingsAreLogged`, and
`LogAccountsForShowings` for every value of the constants).

`purge_revives`. With purges, an approval whose record expired with its token authorizes again after
a restart, because the record is given the token's expiry and not the
approval's. Nothing in the repository calls `purge_expired` outside tests, so
this waits for its first caller.

One sentence holds only without interruptions. "An approved send is either
revoked or marked delivered" (README.md of the repository, lines 214-215) is
true of the saved status whatever happens (`FollowsLifecycle`). On the signed
chain it is true as long as nothing is interrupted (`UninterruptedIsClean`): a
revocation that was cut off after its event was signed leaves the document
approved, its delivery may then be confirmed, and the chain has both events and
the outbox no file.

Limits of the design that the models show and no sentence of the repository
denies, noted with the hazards they belong to: two servers on one data
directory lose each other's events; a rejection after an interrupted send
leaves the composed file in the outbox; a panic of the thread that watches the compile
worker closes the sandbox until its process restarts; a V1 token's count is
forgotten with its process.

## Proofs

TLC checks small instances; TLAPS proves these for every value of the constants
that their named assumptions allow: any number of customers, documents,
approvals, calls, identifiers, processes, tokens and executions, and any bound.

- `TypeCorrect` (`WorkspaceProofs`): `Spec => []TypeOK`, for any number of
  servers. `TypeOK` is not inductive: that `CommitDecision` writes a workspace
  needs the approval it works on to exist, and that `RunKernel` counts an
  execution needs its subject to be an approval. `ITypeOK` adds `Located(p)`:
  what a server holds in memory fits the step it is about to take. The proof has
  one step per action.
- `AuditIsSound`: with one server,
  `Spec => []AuditNeverCritical`. The invariant `AuditInv` says that the vault
  is backed by the chain on disk, that the copy the audit has read is too, that
  a chain in memory is the one on disk, and that what a server is about to save
  is backed by the chain it is about to save. The chain only grows, so evidence
  once there stays (`BackedGrows`), and each operation's events back its own
  edit (`BackedEdits`, `BackedMove`).
- `ChainOnlyGrows`: with one server, `Spec => ChainIsAppendOnly`, from the same
  invariant.
- `DecisionsStayTogether`: with one server, `Spec => []DecisionsAgree`.
  `EditInv` says that every workspace on its way to the vault is one `Edit` of
  the workspace that is there (a customer, a document, a document with its
  approval, a grant with the record its workflow holds), that its events are on
  the chain by the time it is saved, and that only minted identifiers are in use.
- `ReceiptIsSound`, `EvidenceIsTrue`, `RetriesDoNotReplay`: with one server,
  `ReceiptMatchesOutbox`, `EvidenceNamesTheFile` and `NoReplayAfterReceipt`.
  `SendInv` says what checkpoint, record, outbox file and count of executions
  say of each other at rest (`Sound`) and at each label of a send (`Sending`): a
  receipt is durable only when the record and the file under it are, and as long
  as there is none the approval is pending and may be executed again.
- `LogAccountsForShowings`: with one server, `Spec => []ShowingsAreLogged`.
  `ShowInv` counts the one showing that may be on its way to the log (`Owed`).
- `CutOffMovesAreReported`, `UninterruptedLeavesNoTrace`: with one server,
  `CutOffMoveIsReported` and `UninterruptedIsClean`. `CutInv` says that the tail
  of a torn chain is the operation that the vault misses; `CleanInv` that without
  an interruption every event of the chain has its state in the vault
  (`Landed`), but for the events of a server between its two writes, and every
  outbox file its event or a server about to sign it (`Accounted`).
- `ImplementsLifecycle`: with one server, `Spec => FollowsLifecycle`. A save of
  the chain signs one step of one document, a save of the vault takes it, and all
  else is a stutter of `DocumentLifecycle`; that the steps of the two writes fit
  each other is `EditInv`.
- `ClaimsStand` (`AuthorityProofs`): `Spec => []LiveClaimStands`. The invariant
  says who may have written a record (`PublishedBy`), that a caller between its
  link and its flush holds the name unless it expired, that an acknowledged
  record is also the one the disk is sure to hold (`WinnerIsDurable`), and that
  what a purge is about to remove is still the expired record it read
  (`DoomedIsExpired`).
- `ImplementsOneUse`: `Spec => KeepsPromise`, from the same invariant; each step
  of the store is mapped to a step of `OneUse` or a stutter.
- `ReadersSeeWholeRecords`, `RacesHaveAWinner` (`AuthorityProofs`):
  `RecordsAreWhole` and `SomeoneWins`, with any number of purges and with
  flushes that fail unnoticed. Only whole temporary files are linked
  (`WholeInv`); whoever is on disk, or was, settles the race for its id, and a
  caller that lost it lost it to someone (`RaceInv`).
- `AuthorizedOnce` (`ExecutionProofs`): without purges,
  `Spec => []OneUse`. What is inductive is `IInv`: a process past a claim finds
  its own execution in the record (`Claimed`), a grant leaves all three records
  behind for ever (`OnRecord`), two processes never work on one execution
  (`Exclusive`), and the journal and the guest are where the label says
  (`Progress`). Two grants that overlap would both be the owner of one record.
- `MemoryAuthorizesOnce`: `Spec => []OncePerLife`, with purges too. A grant of
  the present life is in the validator's memory, and past the check a call
  presents nothing that is (`MemoryInv`): only the process itself adds to it.
- `PolicyHolds`: `Spec => []PolicyIsObeyed`, with or without purges: what the
  check found stays true because signed objects never change (`RecordsStay`).
- `RecoveryIsHonest`: `Spec => []JournalIsHonest`. The lemmas `RecoverLine` and
  `RecoverTorn` say what recovery makes of a file with one more line, complete
  or torn, whatever its length.
- `GrantsAreJustified`, `AuthorizedOnce`, `RevocationIsFinal`
  (`AuthorizationProofs`). A grant remembers a decision; that decisions never
  change and say what the rules say of their own invocation is `Decided`, and
  `Remembered` says that every grant left its token, key and approval in the
  validator's memory, which only grows. `FieldsDecide` turns the comparisons
  field by field into equality of invocations.
- `LoadsAreAdmitted`, `RecordsAreBacked`, `AdmittedStaysLoadable`
  (`ArtifactProofs`). The invariant says where a process is in its admission
  and which files are written by then, or lost, or damaged (`Holder`), what a
  load has established so far (`Reader`), that every record, in its place or
  misplaced, is for a pair that was signed (`Records`), and that what was
  admitted has its three files (`AdmittedFiles`). No process removes a file, so
  written stays written.
- `PreparedInputIsDeclared`, `DeclaredIsShallow`, `PreparedGrantsAreExact`
  (`InvocationProofs`): `InputIsDeclared`, `DeclaredDepthSuffices` and
  `GrantsAreExact`, for trees of any shape and lists of any length. The state's
  invariant is short (`Admitted`: what is prepared was declared, parsed and
  accepted); the work is in the trees. `PairsProject`: the pairs of generation
  `n` are pairs of nodes of generation `n` of the two trees. `PairsFit`: in a
  pair that was accepted the kinds agree and everything below the value is
  declared. So every value is in a pair (`ValuesArePaired`), a value cannot go
  further down than its schema (`NothingDeeper`), and a path meets a pair at
  each of its tokens (`PathsArePaired`). For the grants, `Sorted` says what the
  loop has established after each rule: which are left, what is committed to,
  which rule was primary. All of these are by induction on a number. The
  library's induction theorems are out of reach of the provers, so that `Least`,
  every set of numbers has a least one, is derived from its facts on finite
  sets; `GenerationsExist`, `PlacesExist` and `TurnsExist` show with it that the
  three recursive functions have values, and the others look at the first
  generation, token or turn that would go wrong.
- `DisclosuresAreComplete`, `RedStaysLocal`, `GivingUpIsLast`,
  `IdentityStaysWhole` (`DirectoryProofs`). `GatewayInv` says that while a
  request is routed everyone shown is on the trail (`Named`) and that what the
  second pass left behind was hopeless (`SecondPass`); it is kept by every
  process of the directory. `IdentityInv` says that only a whole and flushed key
  is renamed over `device.json`, so that no prefix of the renames breaks it.
  `RedStaysLocal` is proved and not run: it says that confidential data never
  leaves the device and the trail charges only who was asked.
- `NextProcessOpens`, `ListedEntriesAreStored`, `EvidenceComesFirst`,
  `AcknowledgedEventsStay` (`DirectoryProofs`): `DirectoryOpens`,
  `ListedIsStored`, `EvidenceFirst` and `AcknowledgedStaysAlone`, all four of
  behaviours in which no two operations overlapped, as the properties say, with
  any number of kills, failed writes and power losses. A property of the files
  as they are is not inductive, because a power loss may go back to a first part
  of the unflushed renames of each directory. `DirectoryInv` is about all of
  them: every state a power loss might leave (`Survivors`) is `Good`; what was
  acknowledged is on the chain in each (`Durable`); and the bytes a process has
  prepared are `Fit`, which means that renaming them in leaves every survivor
  good, whatever of the other directory survives. What a process read and the
  order of its stages (`Knows`, `Prepared`, `Ordered`) say why they are.
  `SurvivorsOfRename` and `SurvivorsOfFlush` say how the survivors change: a
  rename adds states, a flush only takes some away.
- `GuestsAreGenuine`, `GatesAdmitOne`, `GuestsAreCutOff`, `StartsAreCounted`
  (`SandboxProofs`), from one invariant `SInv`: a record of the owner for this
  engine names the blob its component compiles to, wherever such a record lies
  or is held (`Files`, `Genuine`; a mixed file is no record); a call's stage
  fits its module, token and child (`Calls`); a guest that has epochs left paid
  at most four half ticks for each that is gone (`Clocks`: a wake takes the whole
  ticks that passed, at least one, and drops the remainder, which is less than
  another); and a call on its way to its guest has spent its use already
  (`Uses`). Steps that only turn one call from stage to stage are treated
  together by the lemmas on `SoundCall`.

Four assumptions are about how the code is used. They are stated where the
theorem needs them, and the modules let each be dropped by a constant
(`Server`, `Purger`, `SyncMayFail`, `Purging`):

- `SingleServer`: two `sovereign ui` processes on one data directory load,
  extend and replace the chain without a lock (`store.rs`, `append_events`) and
  would lose each other's events. Nothing in the code forbids a second one.
- `OneSweep`, at most one purge at a time: `purge_expired` reads a record and
  removes its name in a second step, and the slower of two purges would remove
  what was claimed under the name since.
- `~SyncMayFail`: `sync_directory` discards the error of the flush, so a claim
  could be acknowledged that a power loss forgets.
- `~Purging` of `AuthorizedOnce` (`ExecutionProofs`): see `purge_revives`; in
  addition a validator reads the clock once, before its claims, and could claim
  again a token that expires and is purged in between.

Constants are assumed only as the named ASSUMEs of their modules say. Those
about values, `NoneIsFresh`, `RecordIsNotNone` (`Workspace`), `NoneIsNoSchema`
(`InvocationInput`) and `BytesAreNotData` (`DataDirectory`), say that what stands
for nothing, or for bytes that do not parse, is not also data;
`KindsAreOperations` that each kind of operation has a program; `InputsAreTrees`
that the members of an object come one after the other and that each position
of an array has a token of its own. The others give bounds and lists their types.

Only model-checked, with the reason:

- `PendingIsDecided`, `EveryCallReturns`: liveness under fairness is out of the
  prover's reach.

## Plan

Done: the workspace and its refinement; the authority store and `OneUse`; the
verified execution; role trust, artifact store, policy, authorization and
invocation; gateway and data directory; capability V1 and sandbox; the theorems
above, which cover every safety property of the runs. Left:

1. The general workflow runner, with steps whose names differ from the
   checkpoint's.
2. Recovery over a directory in which one journal cannot be read: `recover`
   then fails for every execution.

## Not modelled

- The document composer and the export verifier: pure formatting and parsing
  without state.
- The browser frontend: static assets.
- HTTP routing, host checks and JSON of the server; the later acts of the demo,
  which call components modelled on their own and print.
- File permissions and platform calls of the private file helpers.
- Encoding limits of single fields and the canonical JSON form of a manifest.
- What Ed25519, the AEAD, Wasmtime and the file system do below what the code
  asks of them.

--------------------------- MODULE DataDirectory ---------------------------
(***************************************************************************)
(* The founder's data directory: the device identity, the encrypted vault  *)
(* and the signed ledger, each a handful of files, and the processes (the  *)
(* server, `init`, `demo`, `integrity`, `model-check`) that use it without *)
(* a lock.                                                                 *)
(*                                                                         *)
(* A file is replaced by write_atomic: create a sibling temporary file,    *)
(* write it, flush it, rename it over the target, flush the directory.     *)
(* The temporary name is the target's with another extension, so two       *)
(* writers of one file share it.  The device identity alone has temporary  *)
(* files that nobody shares.                                               *)
(***************************************************************************)
EXTENDS ModelGateway, SequencesExt

CONSTANTS
  Process,
  Device, VaultKey,          \* what generating a key may yield
  Broken, Empty,             \* bytes that do not parse, no bytes
  Kinds,                     \* the operations asked for
  DraftChain, CheckChain,    \* the providers of the drafter and of model-check
  MaxOperations, MaxFaults,
  MaxOverlapping,            \* no more operations, and no faults, once two overlap
  OverlapKinds               \* and only operations of these kinds

ASSUME BoundsAreNat == {MaxOperations, MaxFaults, MaxOverlapping} \subseteq Nat
ASSUME ListsAreOfProviders == DraftChain \in Seq(Provider) /\ CheckChain \in Seq(Provider)

VARIABLES
  file,           \* what each name holds
  kept,           \* what it held when its directory was last flushed
  pending,        \* each directory's renames since, in order
  unsynced,       \* the names whose temporary file was not flushed
  temp,           \* the bytes of each name's temporary file
  vaultDir,       \* the vault directory: absent, made, or made and flushed
  todo,           \* the rest of each process's operation
  op,             \* which operation it is
  job,            \* the replacement it is making
  mem,            \* what it has read
  acknowledged,   \* operations whose caller was told they are done
  overlapped,     \* whether two operations were ever under way at once
  operations, faults                    \* bounds

disk == <<file, kept, pending, unsynced, temp, vaultDir>>
control == <<todo, op, acknowledged>>
bounds == <<operations, faults, overlapped>>
vars == <<gateway, disk, control, job, mem, bounds>>

Entry == {"workspace", "venture_profile"}
VaultName == {"vault.key", "manifest.json"} \cup Entry
Name == {"device.json", "ledger.json"} \cup VaultName

Directory == {"root", "vault"}
DirectoryOf(n) == IF n \in VaultName THEN "vault" ELSE "root"

\* Readable: an AuditEvent sequence, an EncryptedBlob, a manifest or a key.
Whole(n) == file[n] \notin {None, Broken, Empty}

\* An AuditEvent is signed by a device and linked to the event before; an
\* EncryptedBlob opens under one key and holds what operations did.
Event == [by : Device, id : Nat, after : Nat]
Blob == [under : VaultKey, holds : SUBSET Nat]

Bytes == Device \cup VaultKey \cup Seq(Event) \cup Blob \cup (SUBSET Entry)

\* A replacement of a file under way.
Job ==
  [name : Name, bytes : Bytes,
   at : {"create", "write", "sync", "rename", "install", "flush"},
   open : {None, "temp", "target", "gone"}]

\* Bytes that do not parse are no event list, manifest, blob, key or identity.
ASSUME BytesAreNotData ==
  /\ None \notin {Broken, Empty}
  /\ \A bytes \in {None, Broken, Empty} :
       /\ bytes \notin Device \cup VaultKey
       /\ bytes \notin Seq(Event)
       /\ \A names \in SUBSET Entry : bytes # names
       /\ bytes \notin Blob
  /\ None \notin Job

(***************************************************************************)
(* Operations, as the stages the code goes through.  Store::load is key,   *)
(* manifest, get; Store::save is key, manifest, put, list.                 *)
(***************************************************************************)
Load == <<"key", "manifest", "get">>

Commit_StateFirst == <<"key", "manifest", "put", "list", "ledger", "append">>
Commit_ListFirst == <<"ledger", "append", "key", "manifest", "list", "put">>

Commit == <<"ledger", "append", "key", "manifest", "put", "list">>

Request == Load \o Commit
Draft == Load \o <<"ask">> \o Load \o Commit
Demo == <<"key", "manifest", "put", "list", "ledger", "append">>
Initialise == <<"key", "manifest", "create">>
Integrity == Load \o <<"ledger">>
ModelCheck == <<"ask">>

Program ==
  [request |-> Request, draft |-> Draft, demo |-> Demo, init |-> Initialise,
   integrity |-> Integrity, modelcheck |-> ModelCheck]

ASSUME KindsAreOperations == Kinds \subseteq DOMAIN Program

Signed == {"request", "draft", "demo"}      \* operations that append an event

EntryOf(kind) == IF kind = "demo" THEN "venture_profile" ELSE "workspace"

Blank == [device |-> None, key |-> None, listed |-> None, state |-> None, chain |-> None]

Init ==
  /\ GatewayInit
  /\ file = [n \in Name |-> None]
  /\ kept = file
  /\ pending = [d \in Directory |-> <<>>]
  /\ unsynced = {}
  /\ temp = file
  /\ vaultDir = "absent"
  /\ todo = [p \in Process |-> <<>>]
  /\ op = [p \in Process |-> None]
  /\ job = [p \in Process |-> None]
  /\ mem = [p \in Process |-> Blank]
  /\ acknowledged = {}
  /\ overlapped = FALSE
  /\ operations = 0
  /\ faults = 0

At(p, stage) == job[p] = None /\ todo[p] # <<>> /\ Head(todo[p]) = stage

\* What a process keeps between operations: the identity its Store opened.
Rest(m) == [Blank EXCEPT !.device = m.device]

\* The stage is over, and with the last one the operation.
Proceed(p, m) ==
  /\ todo' = [todo EXCEPT ![p] = Tail(@)]
  /\ IF Len(todo[p]) > 1
     THEN /\ mem' = [mem EXCEPT ![p] = m]
          /\ UNCHANGED <<op, acknowledged>>
     ELSE /\ mem' = [mem EXCEPT ![p] = Rest(m)]
          /\ op' = [op EXCEPT ![p] = None]
          /\ acknowledged' = IF op[p].kind \in Signed THEN acknowledged \cup {op[p].id}
                             ELSE acknowledged

\* An error ends it too, and nobody is told that it was done.  A Store that
\* could not open has no identity.
GiveUp(p) ==
  /\ todo' = [todo EXCEPT ![p] = <<>>]
  /\ op' = [op EXCEPT ![p] = None]
  /\ mem' = [mem EXCEPT ![p] = IF Head(todo[p]) = "device" THEN Blank ELSE Rest(@)]
  /\ UNCHANGED acknowledged

(***************************************************************************)
(* Replacing a file                                                        *)
(***************************************************************************)
\* The file a writer has open is its temporary file until that is renamed,
\* then the target, and once another is renamed over it, neither.
Start(p, n, bytes, m) ==
  /\ job' = [job EXCEPT ![p] = [name |-> n, bytes |-> bytes, at |-> "create", open |-> None]]
  /\ mem' = [mem EXCEPT ![p] = m]
  /\ UNCHANGED control

StartPrivate_Shared(p, n, bytes, m) == Start(p, n, bytes, m)

\* atomic_write_private's temporary file is made, written and flushed unseen.
StartPrivate(p, n, bytes, m) ==
  /\ job' = [job EXCEPT ![p] = [name |-> n, bytes |-> bytes, at |-> "install", open |-> None]]
  /\ mem' = [mem EXCEPT ![p] = m]
  /\ UNCHANGED control

Writing(p, step) == job[p] # None /\ job[p].at = step

Step(p, next) == job' = [job EXCEPT ![p].at = next]

CreateTemp(p) ==
  /\ Writing(p, "create")
  /\ temp' = [temp EXCEPT ![job[p].name] = Empty]
  /\ job' = [job EXCEPT ![p].at = "write", ![p].open = "temp"]
  /\ UNCHANGED <<gateway, file, kept, pending, unsynced, vaultDir, control, mem, bounds>>

\* Bytes written over another writer's: the longer of the two shows through.
Overwrites(old, bytes) == IF old \in {Empty, bytes} THEN {bytes} ELSE {bytes, Broken}

AfterWrite_NoSync == "rename"

AfterWrite == "sync"

WriteBytes(p) ==
  LET n == job[p].name
  IN  /\ Writing(p, "write")
      /\ \/ /\ job[p].open = "temp"
            /\ \E bytes \in Overwrites(temp[n], job[p].bytes) :
                 temp' = [temp EXCEPT ![n] = bytes]
            /\ UNCHANGED file
         \/ /\ job[p].open = "target"
            /\ \E bytes \in Overwrites(file[n], job[p].bytes) :
                 file' = [file EXCEPT ![n] = bytes]
            /\ UNCHANGED temp
         \/ job[p].open = "gone" /\ UNCHANGED <<file, temp>>
      /\ unsynced' = unsynced \cup {n}
      /\ Step(p, AfterWrite)
      /\ UNCHANGED <<gateway, kept, pending, vaultDir, control, mem, bounds>>

SyncBytes(p) ==
  /\ Writing(p, "sync")
  /\ unsynced' = unsynced \ {job[p].name}
  /\ Step(p, "rename")
  /\ UNCHANGED <<gateway, file, kept, pending, temp, vaultDir, control, mem, bounds>>

Renamed(n, bytes, synced) ==
  pending' = [pending EXCEPT ![DirectoryOf(n)] =
                Append(@, [name |-> n, bytes |-> bytes, synced |-> synced])]

\* Every writer that has the renamed file open goes along with it.
RenameTemp(p) ==
  LET n == job[p].name
      moved(q) == IF job[q] = None \/ job[q].name # n THEN job[q]
                  ELSE [job[q] EXCEPT !.open = CASE @ = "temp" -> "target"
                                                 [] @ = "target" -> "gone"
                                                 [] OTHER -> @]
  IN  /\ Writing(p, "rename")
      /\ temp[n] # None
      /\ file' = [file EXCEPT ![n] = temp[n]]
      /\ Renamed(n, temp[n], n \notin unsynced)
      /\ temp' = [temp EXCEPT ![n] = None]
      /\ job' = [q \in Process |-> IF q = p THEN [moved(p) EXCEPT !.at = "flush"] ELSE moved(q)]
      /\ unsynced' = unsynced \ {n}
      /\ UNCHANGED <<gateway, kept, vaultDir, control, mem, bounds>>

InstallPrivate(p) ==
  /\ Writing(p, "install")
  /\ file' = [file EXCEPT ![job[p].name] = job[p].bytes]
  /\ Renamed(job[p].name, job[p].bytes, TRUE)
  /\ Step(p, "flush")
  /\ UNCHANGED <<gateway, kept, unsynced, temp, vaultDir, control, mem, bounds>>

\* Flushing a directory flushes all its entries.
FlushedWith_Nothing(n) == {}

FlushedWith(n) == {DirectoryOf(n)}

FlushDirectory(p) ==
  LET flushed == FlushedWith(job[p].name)
  IN  /\ Writing(p, "flush")
      /\ kept' = [n \in Name |-> IF DirectoryOf(n) \in flushed THEN file[n] ELSE kept[n]]
      /\ pending' = [d \in Directory |-> IF d \in flushed THEN <<>> ELSE pending[d]]
      /\ vaultDir' = IF vaultDir = "made" /\ job[p].name \notin VaultName THEN "flushed"
                     ELSE vaultDir
      /\ job' = [job EXCEPT ![p] = None]
      /\ Proceed(p, mem[p])
      /\ UNCHANGED <<gateway, file, unsynced, temp, bounds>>

\* On an error the temporary file is removed by its name, whoever made it.
Abandon(p) ==
  /\ temp' = IF Writing(p, "install") THEN temp ELSE [temp EXCEPT ![job[p].name] = None]
  /\ job' = [job EXCEPT ![p] = None]
  /\ GiveUp(p)
  /\ UNCHANGED <<gateway, file, kept, pending, unsynced, vaultDir, operations, overlapped>>

RenameFails(p) ==
  /\ Writing(p, "rename")
  /\ temp[job[p].name] = None
  /\ Abandon(p)
  /\ UNCHANGED faults

Fault == ~overlapped /\ faults < MaxFaults /\ faults' = faults + 1

WriteFails(p) ==
  /\ job[p] # None
  /\ Fault
  /\ Abandon(p)

Replacing(p) ==
  \/ CreateTemp(p) \/ WriteBytes(p) \/ SyncBytes(p) \/ RenameTemp(p)
  \/ InstallPrivate(p) \/ FlushDirectory(p) \/ RenameFails(p)

(***************************************************************************)
(* The stages                                                              *)
(***************************************************************************)
NoWrite == UNCHANGED <<gateway, disk, job, bounds>>

\* A stage that reads a file: what it makes of the file's absence, whether it
\* takes what is there, and what it remembers of it.
Reads(p, stage, n, absent, takes(_), after(_)) ==
  /\ At(p, stage)
  /\ NoWrite
  /\ CASE file[n] = None -> Proceed(p, after(absent))
       [] Whole(n) /\ takes(file[n]) -> Proceed(p, after(file[n]))
       [] OTHER -> GiveUp(p)

\* A key or an identity that nobody has had.
Unused(set, n) ==
  {k \in set : /\ k \notin {file[n], kept[n]}
               /\ \A p \in Process : k \notin {mem[p].device, mem[p].key}
               /\ \A e \in Entry : Whole(e) => file[e].under # k}

\* Store::open, cmd_init, act_1_trust_root
OpenDevice(p) ==
  /\ At(p, "device")
  /\ CASE Whole("device.json") ->
            Proceed(p, [mem[p] EXCEPT !.device = file["device.json"]]) /\ UNCHANGED job
       [] file["device.json"] = None ->
            \E d \in Unused(Device, "device.json") :
              StartPrivate(p, "device.json", d, [mem[p] EXCEPT !.device = d])
       [] OTHER -> GiveUp(p) /\ UNCHANGED job
  /\ UNCHANGED <<gateway, disk, bounds>>

\* Vault::init, the key
InitKey(p) ==
  /\ At(p, "key")
  /\ vaultDir' = IF vaultDir = "absent" THEN "made" ELSE vaultDir
  /\ CASE Whole("vault.key") ->
            Proceed(p, [mem[p] EXCEPT !.key = file["vault.key"]]) /\ UNCHANGED job
       [] file["vault.key"] = None ->
            \E k \in Unused(VaultKey, "vault.key") :
              Start(p, "vault.key", k, [mem[p] EXCEPT !.key = k])
       [] OTHER -> GiveUp(p) /\ UNCHANGED job
  /\ UNCHANGED <<gateway, file, kept, pending, unsynced, temp, bounds>>

\* Vault::init, the manifest
ReadManifest(p) ==
  Reads(p, "manifest", "manifest.json", {}, LAMBDA names : TRUE,
        LAMBDA names : [mem[p] EXCEPT !.listed = names])

\* Store::load: a blob that does not open under the key is an error.
GetWorkspace(p) ==
  Reads(p, "get", "workspace", [holds |-> {}], LAMBDA blob : blob.under = mem[p].key,
        LAMBDA blob : [mem[p] EXCEPT !.state = blob.holds])

\* AuditLedger::verify_chain
LinksHold(events) ==
  \A i \in DOMAIN events :
    events[i].after = IF i = 1 THEN 0 ELSE events[i - 1].id

ChainVerifies(events, d) ==
  (\A i \in DOMAIN events : events[i].by = d) /\ LinksHold(events)

\* AuditLedger::load, from_events
LoadLedger(p) ==
  Reads(p, "ledger", "ledger.json", <<>>, LAMBDA events : ChainVerifies(events, mem[p].device),
        LAMBDA events : [mem[p] EXCEPT !.chain = events])

\* AuditLedger::append and save; `after' stands for the previous event's hash.
Extended(events, d, id) ==
  Append(events, [by |-> d, id |-> id, after |-> IF events = <<>> THEN 0 ELSE Last(events).id])

AppendEvent(p) ==
  LET events == Extended(mem[p].chain, mem[p].device, op[p].id)
  IN  /\ At(p, "append")
      /\ Start(p, "ledger.json", events, [mem[p] EXCEPT !.chain = events])
      /\ UNCHANGED <<gateway, disk, bounds>>

\* cmd_init saves an empty ledger where there is none.
CreateLedger(p) ==
  /\ At(p, "create")
  /\ IF file["ledger.json"] = None THEN Start(p, "ledger.json", <<>>, mem[p])
     ELSE Proceed(p, mem[p]) /\ UNCHANGED job
  /\ UNCHANGED <<gateway, disk, bounds>>

\* Vault::put, the blob: the workspace holds what was loaded and this operation.
PutBlob(p) ==
  LET e == EntryOf(op[p].kind)
      holds == IF e = "workspace" THEN mem[p].state \cup {op[p].id} ELSE {}
  IN  /\ At(p, "put")
      /\ Start(p, e, [under |-> mem[p].key, holds |-> holds], mem[p])
      /\ UNCHANGED <<gateway, disk, bounds>>

\* Vault::put, the manifest
ListEntry(p) ==
  LET names == mem[p].listed \cup {EntryOf(op[p].kind)}
  IN  /\ At(p, "list")
      /\ IF names = mem[p].listed THEN Proceed(p, mem[p]) /\ UNCHANGED job
         ELSE Start(p, "manifest.json", names, [mem[p] EXCEPT !.listed = names])
      /\ UNCHANGED <<gateway, disk, bounds>>

\* draft_assistant asks about Amber data, cmd_model_check about Red as well.
AskGateway(p) ==
  /\ At(p, "ask")
  /\ request = AtRest
  /\ IF op[p].kind = "draft" THEN Ask("amber", DraftChain)
     ELSE \E class \in {"amber", "red"} : Ask(class, CheckChain)
  /\ todo' = [todo EXCEPT ![p][1] = "answer"]
  /\ UNCHANGED <<disk, op, acknowledged, job, mem, bounds>>

TakeAnswer(p) ==
  /\ At(p, "answer")
  /\ result # None
  /\ IF Served THEN Proceed(p, mem[p]) ELSE GiveUp(p)
  /\ Release
  /\ UNCHANGED <<disk, job, bounds>>

Stage(p) ==
  \/ OpenDevice(p) \/ InitKey(p) \/ ReadManifest(p) \/ GetWorkspace(p) \/ LoadLedger(p)
  \/ AppendEvent(p) \/ CreateLedger(p) \/ PutBlob(p) \/ ListEntry(p)
  \/ AskGateway(p) \/ TakeAnswer(p)

(***************************************************************************)
(* Beginning, stopping and being stopped                                   *)
(***************************************************************************)
Busy == {q \in Process : todo[q] # <<>>}

Begin(p, kind) ==
  /\ todo[p] = <<>>
  /\ operations < MaxOperations
  /\ operations' = operations + 1
  /\ overlapped' = (overlapped \/ Busy \ {p} # {})
  /\ overlapped' => /\ faults = 0
                    /\ operations' <= MaxOverlapping
                    /\ {kind} \cup {op[q].kind : q \in Busy \ {p}} \subseteq OverlapKinds
  /\ op' = [op EXCEPT ![p] = [kind |-> kind, id |-> operations + 1]]
  /\ todo' = [todo EXCEPT ![p] =
       IF mem[p].device = None /\ kind # "modelcheck" THEN <<"device">> \o Program[kind]
       ELSE Program[kind]]
  /\ UNCHANGED <<gateway, disk, job, mem, acknowledged, faults>>

Close(p) ==
  /\ todo[p] = <<>>
  /\ mem[p] # Blank
  /\ mem' = [mem EXCEPT ![p] = Blank]
  /\ UNCHANGED <<gateway, disk, control, job, bounds>>

Kill(p) ==
  /\ Fault
  /\ todo[p] # <<>>
  /\ todo' = [todo EXCEPT ![p] = <<>>]
  /\ op' = [op EXCEPT ![p] = None]
  /\ job' = [job EXCEPT ![p] = None]
  /\ mem' = [mem EXCEPT ![p] = Blank]
  /\ IF At(p, "answer") THEN Release ELSE UNCHANGED gateway
  /\ UNCHANGED <<disk, acknowledged, operations, overlapped>>

\* Of a directory's renames since its last flush a first part survives; bytes
\* that were not flushed come back as anything.  A vault directory whose own
\* entry was never flushed may be gone with all it holds.
Surviving(n, upto) ==
  LET renames == pending[DirectoryOf(n)]
      count == upto[DirectoryOf(n)]
      latest == {i \in 1 .. count :
                   renames[i].name = n /\ \A j \in i + 1 .. count : renames[j].name # n}
  IN  IF latest = {} THEN kept[n]
      ELSE LET rename == renames[CHOOSE i \in latest : TRUE]
           IN  IF rename.synced THEN rename.bytes ELSE Broken

PowerLoss ==
  /\ Fault
  /\ \E root \in 0 .. Len(pending["root"]), vault \in 0 .. Len(pending["vault"]), noVault \in BOOLEAN :
       /\ noVault => vaultDir = "made"
       /\ file' = [n \in Name |->
            IF noVault /\ n \in VaultName THEN None
            ELSE Surviving(n, [d \in Directory |-> IF d = "root" THEN root ELSE vault])]
       /\ vaultDir' = IF noVault THEN "absent" ELSE vaultDir
  /\ kept' = file'
  /\ pending' = [d \in Directory |-> <<>>]
  /\ unsynced' = {}
  /\ temp' = [n \in Name |-> None]
  /\ todo' = [p \in Process |-> <<>>]
  /\ op' = [p \in Process |-> None]
  /\ job' = [p \in Process |-> None]
  /\ mem' = [p \in Process |-> Blank]
  /\ Release
  /\ UNCHANGED <<acknowledged, operations, overlapped>>

Answer == GatewayStep /\ UNCHANGED <<disk, control, job, mem, bounds>>

Next ==
  \/ \E p \in Process :
       \/ \E kind \in Kinds : Begin(p, kind)
       \/ Stage(p) \/ Replacing(p) \/ WriteFails(p) \/ Close(p) \/ Kill(p)
  \/ Answer
  \/ PowerLoss

Spec == Init /\ [][Next]_vars

(***************************************************************************)
(* Properties                                                              *)
(***************************************************************************)
Signatures == IF Whole("ledger.json") THEN {file["ledger.json"][i].id : i \in DOMAIN file["ledger.json"]}
              ELSE {}

\* After any kill, failed write or power loss the next process can open the
\* directory: every file parses, the ledger verifies under the identity on disk,
\* and every blob opens under the vault key on disk (Vault::init, put, get,
\* write_atomic, AuditLedger::save, DeviceIdentity::save).
DirectoryOpens ==
  ~overlapped =>
  /\ \A n \in Name : file[n] = None \/ Whole(n)
  /\ Whole("ledger.json") => ChainVerifies(file["ledger.json"], file["device.json"])
  /\ \A e \in Entry : Whole(e) => file[e].under = file["vault.key"]

\* The vault never lists an entry it does not hold: put writes the blob and
\* then the manifest, and a crash in between leaves an unlisted blob.
ListedIsStored == ~overlapped /\ Whole("manifest.json") => \A e \in file["manifest.json"] : Whole(e)

\* No state without its signed evidence, through power losses too: the chain
\* is flushed before the state that it vouches for is replaced (commit).
EvidenceFirst == ~overlapped /\ Whole("workspace") => file["workspace"].holds \subseteq Signatures

\* An operation whose caller was told it is done keeps its event on the chain:
\* the ledger is append-only (append_events, AuditLedger::save).
AcknowledgedStays == acknowledged \subseteq Signatures

\* The same while no two operations ever overlapped.
AcknowledgedStaysAlone == ~overlapped => AcknowledgedStays

\* The identity file is whole at every moment, even when two processes open a
\* fresh directory at once: nobody shares its temporary file
\* (create_temporary_file, atomic_write_private).
IdentityIsWhole == file["device.json"] \in Device \cup {None}
==============================================================================

-------------------------- MODULE DirectoryProofs --------------------------
(***************************************************************************)
(* DisclosureNamesWhoSaw, TrailIsTrue and GivesUpLast for any providers    *)
(* and any provider lists; IdentityIsWhole, for any number of processes    *)
(* that use the data directory at once; and, as long as no two of their    *)
(* operations overlap, DirectoryOpens, ListedIsStored, EvidenceFirst and   *)
(* AcknowledgedStaysAlone, for any number of kills, failed writes and      *)
(* power losses.                                                           *)
(*                                                                         *)
(* The last four rest on one invariant, DirectoryInv: every directory      *)
(* state that a power loss might leave now (a Survivor) is Good, and the   *)
(* bytes that an operation is about to put in place are Fit: they leave    *)
(* every such state Good, whatever becomes of the other directory.         *)
(***************************************************************************)
EXTENDS DataDirectory, TLAPS

----------------------------------------------------------------------------
(* What holds of the gateway.                                              *)

Trail == {p \in Provider : skipped[p] # None}

GatewayTypes ==
  /\ skipped \in [Provider -> SkipCause \cup {None}]
  /\ last \in [Provider -> {"red", "failed", "answered"} \cup Health \cup {None}]
  /\ shown \subseteq Provider
  /\ request # AtRest => request.providers \in Seq(Provider)

\* While the request is routed there is a provider to consider.
InPlace ==
  Asking => /\ place \in {1, 2} \X (1 .. Len(request.providers))

\* Whoever saw the prompt and did not serve it is on the trail.
Named ==
  /\ result # "output_too_large" => shown \subseteq Trail \cup {result}
  /\ Asking => shown \subseteq Trail

\* What makes a provider one that a second pass may leave behind.
Hopeless(p) == Confidential(p) \/ last[p] \in {"down", "failed"}

\* All that the second pass has considered are.
SecondPass ==
  Asking /\ place[1] = 2 =>
    \A i \in 1 .. place[2] - 1 : Hopeless(request.providers[i])

GatewayInv ==
  /\ GatewayTypes /\ InPlace /\ Named /\ SecondPass
  /\ TrailIsTrue /\ GivesUpLast

----------------------------------------------------------------------------
(* Routing a request.                                                      *)

LEMMA RouteKeeps ==
  ASSUME NEW req, NEW outcome, Route(req, outcome),
         req # AtRest => req.providers \in Seq(Provider),
         req # AtRest /\ outcome = None => req.providers # <<>>,
         outcome \notin {"output_too_large", "all_failed"}
  PROVE  GatewayInv'
<1>1. GatewayTypes'
  BY DEF Route, GatewayTypes, NobodyTried
<1>2. InPlace'
  <2> SUFFICES ASSUME Asking' PROVE place' \in {1, 2} \X (1 .. Len(request'.providers))
    BY DEF InPlace
  <2>1. req.providers \in Seq(Provider) /\ req.providers # <<>>
    BY DEF Route, Asking, AtRest
  <2> QED
    BY <2>1 DEF Route
<1>3. Named' /\ SecondPass' /\ GivesUpLast'
  BY DEF Route, Named, SecondPass, GivesUpLast, Asking
<1>4. TrailIsTrue'
  BY NoneIsNothing DEF Route, TrailIsTrue, NobodyTried, SkipCause
<1> QED
  BY <1>1, <1>2, <1>3, <1>4 DEF GatewayInv

LEMMA AskKeeps ==
  ASSUME NEW class, NEW providers \in Seq(Provider), Ask(class, providers)
  PROVE  GatewayInv'
<1> DEFINE req == [class |-> class, providers |-> providers]
           outcome == IF providers = <<>> THEN "no_providers" ELSE None
<1>1. Route(req, outcome)
  BY DEF Ask
<1>2. req.providers = providers
  OBVIOUS
<1>3. /\ outcome = None => providers # <<>>
      /\ outcome \notin {"output_too_large", "all_failed"}
  BY NoneIsNothing DEF Failure
<1> HIDE DEF req, outcome
<1> QED
  BY <1>1, <1>2, <1>3, RouteKeeps

LEMMA ReleaseKeeps ==
  ASSUME Release
  PROVE  GatewayInv'
BY RouteKeeps, NoneIsNothing DEF Release, Failure

----------------------------------------------------------------------------
(* A provider is considered.                                               *)

LEMMA ConsideredIsAProvider ==
  ASSUME GatewayInv, Asking
  PROVE  /\ Considered \in Provider
         /\ request.providers \in Seq(Provider)
         /\ place[1] \in {1, 2} /\ place[2] \in 1 .. Len(request.providers)
         /\ place = <<place[1], place[2]>>
BY DEF GatewayInv, GatewayTypes, InPlace, Asking, Considered

LEMMA AdvanceKeeps ==
  ASSUME GatewayInv, Asking, Advance, request' = request
  PROVE  /\ InPlace'
         /\ result' = IF LastPlace THEN "all_failed" ELSE None
<1>1. /\ request.providers \in Seq(Provider) /\ Len(request.providers) \in Nat
      /\ place[1] \in {1, 2} /\ place[2] \in 1 .. Len(request.providers)
      /\ place = <<place[1], place[2]>>
  BY ConsideredIsAProvider
<1>2. NextPlace \in {1, 2} \X (1 .. Len(request.providers))
  BY <1>1 DEF NextPlace, LastPlace
<1> QED
  BY <1>2 DEF Advance, InPlace

\* Passing over a provider, or failing at it, leaves the rest as it was.
LEMMA PassedOver ==
  ASSUME GatewayInv, Asking, Advance, request' = request,
         NEW cause \in SkipCause \cup {None}, NEW fate \in {"red", "failed"} \cup Health,
         skipped' = (IF cause = None THEN skipped ELSE RecordSkip(Considered, cause)),
         last' = [last EXCEPT ![Considered] = fate],
         \/ shown' = shown
         \/ shown' = shown \cup {Considered} /\ cause = "failed",
         cause = "failed" => Considered \in shown',
         request.class = "red" => shown' \subseteq Local,
         fate = "red" => Confidential(Considered),
         place[1] = 2 => fate \in {"red", "down", "failed"}
  PROVE  GatewayInv'
<1>1. /\ Considered \in Provider
      /\ request.providers \in Seq(Provider) /\ Len(request.providers) \in Nat
      /\ place[1] \in {1, 2} /\ place[2] \in 1 .. Len(request.providers)
      /\ place = <<place[1], place[2]>>
  BY ConsideredIsAProvider
<1>2. InPlace' /\ result' = IF LastPlace THEN "all_failed" ELSE None
  BY AdvanceKeeps
<1>3. GatewayTypes'
  BY <1>1 DEF GatewayInv, GatewayTypes, RecordSkip
<1>4. Trail \subseteq Trail' /\ (cause # None => Considered \in Trail')
  BY <1>1, NoneIsNothing DEF GatewayInv, GatewayTypes, RecordSkip, Trail
<1>5. Named'
  <2>1. shown \subseteq Trail
    BY DEF GatewayInv, Named
  <2> QED
    BY <1>4, <2>1, NoneIsNothing DEF Named, SkipCause
<1>6. TrailIsTrue'
  <2>1. ASSUME NEW p \in Provider, skipped'[p] = "failed"
        PROVE  p \in shown'
    <3>1. skipped[p] = "failed" \/ (p = Considered /\ cause = "failed")
      BY <1>1, <2>1, NoneIsNothing DEF GatewayInv, GatewayTypes, RecordSkip
    <3>2. skipped[p] = "failed" => p \in shown
      BY DEF GatewayInv, TrailIsTrue, Asking
    <3> QED
      BY <3>1, <3>2
  <2> QED
    BY <2>1 DEF TrailIsTrue
<1> DEFINE Hopeless2(p) == Confidential(p) \/ last'[p] \in {"down", "failed"}
<1>7. ASSUME NEW p \in Provider, Hopeless(p) \/ p = Considered, place[1] = 2
      PROVE  Hopeless2(p)
  <2>1. CASE p = Considered
    BY <1>1, <1>7, <2>1 DEF GatewayInv, GatewayTypes, Hopeless, Confidential
  <2>2. CASE p # Considered
    BY <1>1, <1>7, <2>2 DEF GatewayInv, GatewayTypes, Hopeless, Confidential
  <2> QED
    BY <2>1, <2>2
<1>8. ASSUME place[1] = 2, NEW i \in 1 .. place[2]
      PROVE  Hopeless2(request.providers[i])
  <2>1. request.providers[i] \in Provider
    BY <1>1
  <2>2. i = place[2] \/ i \in 1 .. place[2] - 1
    BY <1>1
  <2>3. Hopeless(request.providers[i]) \/ request.providers[i] = Considered
    BY <1>8, <2>2 DEF GatewayInv, SecondPass, Considered
  <2>4. \A p \in Provider : (Hopeless(p) \/ p = Considered) => Hopeless2(p)
    BY <1>7, <1>8
  <2> HIDE DEF Hopeless2
  <2> QED
    BY <2>1, <2>3, <2>4
<1>9. SecondPass'
  <2> SUFFICES ASSUME Asking', place'[1] = 2, NEW i \in 1 .. place'[2] - 1
               PROVE  Hopeless(request.providers[i])'
    BY DEF SecondPass
  <2>1. ~LastPlace
    BY <1>2, NoneIsNothing DEF Asking, Failure
  <2>2. CASE place[1] = 1
    BY <1>1, <2>1, <2>2 DEF Advance, NextPlace
  <2>3. CASE place[1] = 2
    <3>1. place'[2] = place[2] + 1
      BY <1>1, <2>1, <2>3 DEF Advance, NextPlace, LastPlace
    <3> QED
      BY <1>1, <1>8, <2>3, <3>1 DEF Hopeless, Confidential
  <2> QED
    BY <1>1, <2>2, <2>3
<1>10. GivesUpLast'
  <2> SUFFICES ASSUME result' = "all_failed", NEW i \in DOMAIN request.providers
               PROVE  Hopeless(request.providers[i])'
    BY DEF GivesUpLast, Hopeless
  <2>1. place[1] = 2 /\ place[2] = Len(request.providers)
    BY <1>1, <1>2, NoneIsNothing DEF LastPlace, Failure
  <2> QED
    BY <1>1, <1>8, <2>1 DEF Hopeless, Confidential
<1> QED
  BY <1>2, <1>3, <1>5, <1>6, <1>9, <1>10 DEF GatewayInv

LEMMA GatewayStepKeeps ==
  ASSUME GatewayInv, GatewayStep
  PROVE  GatewayInv'
<1>1. CASE SkipRed
  <2>1. /\ Asking /\ Confidential(Considered) /\ Advance /\ request' = request /\ shown' = shown
        /\ skipped' = RecordSkip(Considered, "red_data_confidentiality")
        /\ last' = [last EXCEPT ![Considered] = "red"]
    BY <1>1 DEF SkipRed
  <2>2. request.class = "red" => shown' \subseteq Local
    BY <2>1 DEF GatewayInv, TrailIsTrue, Asking
  <2>3. "red_data_confidentiality" \in SkipCause \cup {None}
        /\ "red_data_confidentiality" # None
    BY NoneIsNothing DEF SkipCause
  <2>4. "red" \in {"red", "failed"} \cup Health /\ "red" \in {"red", "down", "failed"}
    OBVIOUS
  <2>5. "red_data_confidentiality" # "failed"
    OBVIOUS
  <2>6. skipped' = IF "red_data_confidentiality" = None THEN skipped
                   ELSE RecordSkip(Considered, "red_data_confidentiality")
    BY <2>1, <2>3
  <2> QED
    BY <2>1, <2>2, <2>3, <2>4, <2>5, <2>6, PassedOver
<1>2. ASSUME NEW health \in Health, SkipUnhealthy(health) PROVE GatewayInv'
  <2>1. Asking
    BY <1>2 DEF SkipUnhealthy
  <2>2. place[1] \in {1, 2}
    BY <2>1, ConsideredIsAProvider
  <2>3. place[1] = 2 => health = "down"
    BY <1>2, <2>2 DEF SkipUnhealthy, TriedWhen, Health
  <2>4. request.class = "red" => shown \subseteq Local
    BY <2>1 DEF GatewayInv, TrailIsTrue, Asking
  <2> DEFINE cause == IF place[1] = 1 THEN "unhealthy" ELSE None
  <2>5. skipped' = IF cause = None THEN skipped ELSE RecordSkip(Considered, cause)
    BY <1>2, NoneIsNothing DEF SkipUnhealthy, SkipCause
  <2>6. cause \in SkipCause \cup {None} /\ cause # "failed"
    BY NoneIsNothing DEF SkipCause
  <2>7. /\ Advance /\ request' = request /\ shown' = shown
        /\ last' = [last EXCEPT ![Considered] = health]
    BY <1>2 DEF SkipUnhealthy
  <2> HIDE DEF cause
  <2>8. health # "red"
    BY DEF Health
  <2> QED
    BY <2>1, <2>3, <2>4, <2>5, <2>6, <2>7, <2>8, PassedOver
<1>3. ASSUME NEW health \in Health, Show(health)
      PROVE  /\ Asking /\ ~Confidential(Considered) /\ shown' = shown \cup {Considered}
             /\ Considered \in Provider
             /\ request.class = "red" => shown' \subseteq Local
  <2>1. Asking /\ ~Confidential(Considered) /\ shown' = shown \cup {Considered}
    BY <1>3 DEF Show
  <2>2. request.class = "red" => shown \subseteq Local
    BY <2>1 DEF GatewayInv, TrailIsTrue, Asking
  <2> QED
    BY <2>1, <2>2, ConsideredIsAProvider DEF Confidential
<1>4. ASSUME NEW health \in Health, ProviderFails(health) PROVE GatewayInv'
  <2>1. Show(health) /\ Advance /\ request' = request
        /\ skipped' = RecordSkip(Considered, "failed")
        /\ last' = [last EXCEPT ![Considered] = "failed"]
    BY <1>4 DEF ProviderFails
  <2>2. "failed" \in SkipCause /\ "failed" # None
    BY NoneIsNothing DEF SkipCause
  <2> QED
    BY <1>3, <2>1, <2>2, PassedOver
<1>5. ASSUME NEW health \in Health, NEW tooLarge \in BOOLEAN, ProviderAnswers(health, tooLarge)
      PROVE  GatewayInv'
  <2>1. /\ Asking /\ shown' = shown \cup {Considered} /\ Considered \in Provider
        /\ request.class = "red" => shown' \subseteq Local
    BY <1>3, <1>5 DEF ProviderAnswers
  <2>2. /\ result' = IF tooLarge THEN "output_too_large" ELSE Considered
        /\ last' = [last EXCEPT ![Considered] = "answered"]
        /\ UNCHANGED <<request, place, skipped>>
    BY <1>5 DEF ProviderAnswers
  <2>3. result' # None /\ result' # "all_failed"
    BY <2>1, <2>2, NoneIsNothing DEF Failure
  <2>4. shown \subseteq Trail /\ Trail' = Trail
    BY <2>1, <2>2 DEF GatewayInv, Named, Trail
  <2>5. Named' /\ InPlace' /\ SecondPass'
    BY <2>1, <2>2, <2>3, <2>4 DEF Named, InPlace, SecondPass, Asking
  <2>6. GatewayTypes' /\ TrailIsTrue'
    BY <2>1, <2>2 DEF GatewayInv, GatewayTypes, TrailIsTrue, Asking
  <2> QED
    BY <2>3, <2>5, <2>6 DEF GatewayInv, GivesUpLast
<1> QED
  BY <1>1, <1>2, <1>4, <1>5 DEF GatewayStep

LEMMA UnchangedKeeps ==
  ASSUME GatewayInv, UNCHANGED gateway
  PROVE  GatewayInv'
BY DEF GatewayInv, gateway, GatewayTypes, InPlace, Named, Trail, SecondPass, Hopeless,
       Confidential, TrailIsTrue, GivesUpLast, Asking

----------------------------------------------------------------------------
(* The processes of the data directory.                                    *)

LEMMA StageKeeps ==
  ASSUME GatewayInv, NEW p \in Process, Stage(p)
  PROVE  GatewayInv'
<1>1. CASE AskGateway(p)
  <2>1. CASE op[p].kind = "draft"
    BY <1>1, <2>1, AskKeeps, ListsAreOfProviders DEF AskGateway
  <2>2. CASE op[p].kind # "draft"
    BY <1>1, <2>2, AskKeeps, ListsAreOfProviders DEF AskGateway
  <2> QED
    BY <2>1, <2>2
<1>2. CASE TakeAnswer(p)
  BY <1>2, ReleaseKeeps DEF TakeAnswer
<1>3. CASE OpenDevice(p) \/ InitKey(p) \/ AppendEvent(p) \/ CreateLedger(p) \/ PutBlob(p) \/ ListEntry(p)
  BY <1>3, UnchangedKeeps
     DEF OpenDevice, InitKey, AppendEvent, CreateLedger, PutBlob, ListEntry
<1>4. CASE ReadManifest(p) \/ GetWorkspace(p) \/ LoadLedger(p)
  BY <1>4, UnchangedKeeps DEF ReadManifest, GetWorkspace, LoadLedger, Reads, NoWrite
<1> QED
  BY <1>1, <1>2, <1>3, <1>4 DEF Stage

LEMMA ReplacingKeeps ==
  ASSUME GatewayInv, NEW p \in Process, Replacing(p) \/ WriteFails(p)
  PROVE  GatewayInv'
<1>1. UNCHANGED gateway
  BY DEF Replacing, CreateTemp, WriteBytes, SyncBytes, RenameTemp, InstallPrivate,
         FlushDirectory, RenameFails, WriteFails, Abandon
<1> QED
  BY <1>1, UnchangedKeeps

LEMMA GatewayInitially == Init => GatewayInv
<1> SUFFICES ASSUME Init PROVE GatewayInv
  OBVIOUS
<1>1. GatewayInit
  BY DEF Init
<1>2. GatewayTypes
  BY <1>1 DEF GatewayInit, GatewayTypes, NobodyTried
<1>3. ~Asking /\ shown = {} /\ request = AtRest /\ result = None
  BY <1>1 DEF GatewayInit, Asking
<1> QED
  BY <1>2, <1>3, NoneIsNothing
     DEF GatewayInv, InPlace, Named, SecondPass, TrailIsTrue, GivesUpLast, Failure

LEMMA GatewayInductive == GatewayInv /\ [Next]_vars => GatewayInv'
<1> SUFFICES ASSUME GatewayInv, [Next]_vars PROVE GatewayInv'
  OBVIOUS
<1>1. ASSUME NEW p \in Process, NEW kind \in Kinds, Begin(p, kind) PROVE GatewayInv'
  BY <1>1, UnchangedKeeps DEF Begin
<1>2. ASSUME NEW p \in Process, Stage(p) \/ Replacing(p) \/ WriteFails(p) PROVE GatewayInv'
  BY <1>2, StageKeeps, ReplacingKeeps
<1>3. ASSUME NEW p \in Process, Close(p) PROVE GatewayInv'
  BY <1>3, UnchangedKeeps DEF Close
<1>4. ASSUME NEW p \in Process, Kill(p) PROVE GatewayInv'
  BY <1>4, UnchangedKeeps, ReleaseKeeps DEF Kill
<1>5. CASE Answer
  BY <1>5, GatewayStepKeeps DEF Answer
<1>6. CASE PowerLoss
  BY <1>6, ReleaseKeeps DEF PowerLoss
<1>7. CASE UNCHANGED vars
  BY <1>7, UnchangedKeeps DEF vars
<1> QED
  BY <1>1, <1>2, <1>3, <1>4, <1>5, <1>6, <1>7 DEF Next

----------------------------------------------------------------------------
(* What holds of the identity file: whoever replaces it has the whole      *)
(* identity in a temporary file of its own.                                *)

SoundRename(r) == r.name = "device.json" => r.synced /\ r.bytes \in Device

SoundRenames ==
  \E renames : /\ pending \in [Directory -> Seq(renames)]
                /\ \A r \in renames : SoundRename(r)

SoundJob(j) ==
  j # None =>
    /\ DOMAIN j = {"name", "bytes", "at", "open"}
    /\ j.name = "device.json" => j.at \in {"install", "flush"} /\ j.bytes \in Device
    /\ j.at = "install" => j.name = "device.json"

IdentityInv ==
  /\ DOMAIN file = Name /\ DOMAIN kept = Name /\ DOMAIN job = Process
  /\ IdentityIsWhole
  /\ kept["device.json"] \in Device \cup {None}
  /\ SoundRenames
  /\ \A p \in Process : SoundJob(job[p])

LEMMA IdentityInitially == Init => IdentityInv
<1> SUFFICES ASSUME Init PROVE IdentityInv
  OBVIOUS
<1>1. \A p \in Process : SoundJob(job[p])
  BY DEF Init, SoundJob
<1>2. SoundRenames
  <2>1. pending \in [Directory -> Seq({})]
    BY DEF Init
  <2> QED
    BY <2>1 DEF SoundRenames
<1> QED
  BY <1>1, <1>2 DEF Init, IdentityInv, IdentityIsWhole, Name

\* Steps that leave the files alone.
LEMMA FilesStay ==
  ASSUME IdentityInv, UNCHANGED <<file, kept, pending>>,
         DOMAIN job' = Process, \A p \in Process : SoundJob(job'[p])
  PROVE  IdentityInv'
BY DEF IdentityInv, IdentityIsWhole, SoundRenames, SoundJob

LEMMA JobStarts ==
  ASSUME IdentityInv, NEW p \in Process, NEW n, NEW bytes, NEW m,
         n # "device.json", Start(p, n, bytes, m)
  PROVE  DOMAIN job' = Process /\ \A q \in Process : SoundJob(job'[q])
BY DEF IdentityInv, Start, SoundJob

LEMMA PrivateJobStarts ==
  ASSUME IdentityInv, NEW p \in Process, NEW bytes \in Device, NEW m,
         StartPrivate(p, "device.json", bytes, m)
  PROVE  DOMAIN job' = Process /\ \A q \in Process : SoundJob(job'[q])
BY DEF IdentityInv, StartPrivate, SoundJob

LEMMA StageKeepsIdentity ==
  ASSUME IdentityInv, NEW p \in Process, Stage(p)
  PROVE  IdentityInv'
<1>1. CASE OpenDevice(p)
  <2>1. UNCHANGED disk
    BY <1>1 DEF OpenDevice
  <2>2. CASE UNCHANGED job
    BY <2>1, <2>2, FilesStay DEF IdentityInv, disk
  <2>3. ASSUME NEW d \in Unused(Device, "device.json"), NEW m, StartPrivate(p, "device.json", d, m)
        PROVE  IdentityInv'
    <3>1. d \in Device
      BY DEF Unused
    <3> QED
      BY <2>1, <2>3, <3>1, PrivateJobStarts, FilesStay DEF disk
  <2> QED
    BY <1>1, <2>2, <2>3 DEF OpenDevice
<1>2. CASE InitKey(p)
  <2>1. UNCHANGED <<file, kept, pending>>
    BY <1>2 DEF InitKey
  <2>2. CASE UNCHANGED job
    BY <2>1, <2>2, FilesStay DEF IdentityInv
  <2>3. ASSUME NEW k, NEW m, Start(p, "vault.key", k, m)
        PROVE  IdentityInv'
    BY <2>1, <2>3, JobStarts, FilesStay
  <2> QED
    BY <1>2, <2>2, <2>3 DEF InitKey
<1>3. CASE AppendEvent(p) \/ CreateLedger(p) \/ PutBlob(p) \/ ListEntry(p)
  <2>1. UNCHANGED disk
    BY <1>3 DEF AppendEvent, CreateLedger, PutBlob, ListEntry
  <2>2. \/ UNCHANGED job
        \/ \E n, bytes, m : n # "device.json" /\ Start(p, n, bytes, m)
    <3>1. CASE AppendEvent(p)
      BY <3>1 DEF AppendEvent
    <3>2. CASE CreateLedger(p)
      BY <3>2 DEF CreateLedger
    <3>3. CASE PutBlob(p)
      <4>1. EntryOf(op[p].kind) # "device.json"
        BY DEF EntryOf
      <4> QED
        BY <3>3, <4>1 DEF PutBlob
    <3>4. CASE ListEntry(p)
      BY <3>4 DEF ListEntry
    <3> QED
      BY <1>3, <3>1, <3>2, <3>3, <3>4
  <2>3. CASE UNCHANGED job
    BY <2>1, <2>3, FilesStay DEF IdentityInv, disk
  <2>4. ASSUME NEW n, NEW bytes, NEW m, n # "device.json", Start(p, n, bytes, m)
        PROVE  IdentityInv'
    BY <2>1, <2>4, JobStarts, FilesStay DEF disk
  <2> QED
    BY <2>2, <2>3, <2>4
<1>4. CASE ReadManifest(p) \/ GetWorkspace(p) \/ LoadLedger(p) \/ AskGateway(p) \/ TakeAnswer(p)
  <2>1. UNCHANGED <<disk, job>>
    BY <1>4 DEF ReadManifest, GetWorkspace, LoadLedger, Reads, NoWrite, AskGateway, TakeAnswer
  <2> QED
    BY <2>1, FilesStay DEF IdentityInv, disk
<1> QED
  BY <1>1, <1>2, <1>3, <1>4 DEF Stage

\* A rename that is sound leaves sound renames.
LEMMA RenamedIsSound ==
  ASSUME SoundRenames, NEW n, NEW bytes, NEW synced, Renamed(n, bytes, synced),
         n = "device.json" => synced /\ bytes \in Device
  PROVE  SoundRenames'
<1> DEFINE r == [name |-> n, bytes |-> bytes, synced |-> synced]
<1>1. PICK renames : /\ pending \in [Directory -> Seq(renames)]
                     /\ \A q \in renames : SoundRename(q)
  BY DEF SoundRenames
<1>2. SoundRename(r)
  BY DEF SoundRename
<1>3. pending' = [pending EXCEPT ![DirectoryOf(n)] = Append(@, r)]
  BY DEF Renamed
<1> HIDE DEF r
<1>4. pending' \in [Directory -> Seq(renames \cup {r})]
  <2>1. \A d \in Directory : pending[d] \in Seq(renames \cup {r})
    BY <1>1
  <2> QED
    BY <1>1, <1>3, <2>1 DEF DirectoryOf, Directory
<1> QED
  BY <1>1, <1>2, <1>4, ZenonT(30) DEF SoundRenames

LEMMA ReplacingKeepsIdentity ==
  ASSUME IdentityInv, NEW p \in Process, Replacing(p) \/ WriteFails(p)
  PROVE  IdentityInv'
<1>1. CASE CreateTemp(p) \/ SyncBytes(p)
  <2>1. UNCHANGED <<file, kept, pending>> /\ SoundJob(job[p])
        /\ job[p] # None /\ job[p].at \in {"create", "sync"}
    BY <1>1 DEF IdentityInv, CreateTemp, SyncBytes, Writing
  <2>2. DOMAIN job' = Process /\ \A q \in Process : SoundJob(job'[q])
    BY <1>1, <2>1 DEF IdentityInv, CreateTemp, SyncBytes, Step, SoundJob
  <2> QED
    BY <2>1, <2>2, FilesStay
<1>2. CASE WriteBytes(p)
  <2>1. job[p] # None /\ job[p].at = "write" /\ job[p].name # "device.json"
    BY <1>2 DEF IdentityInv, WriteBytes, Writing, SoundJob
  <2>2. DOMAIN file' = Name /\ file'["device.json"] = file["device.json"]
    <3>1. UNCHANGED file \/ \E bytes : file' = [file EXCEPT ![job[p].name] = bytes]
      BY <1>2 DEF WriteBytes
    <3> QED
      BY <2>1, <3>1 DEF IdentityInv, Name
  <2>3. DOMAIN job' = Process /\ \A q \in Process : SoundJob(job'[q])
    BY <1>2, <2>1 DEF IdentityInv, WriteBytes, Step, AfterWrite, SoundJob
  <2>4. UNCHANGED <<kept, pending>>
    BY <1>2 DEF WriteBytes
  <2> QED
    BY <2>2, <2>3, <2>4 DEF IdentityInv, IdentityIsWhole, SoundRenames
<1>3. CASE RenameTemp(p)
  <2> DEFINE n == job[p].name
  <2>1. n # "device.json"
    BY <1>3 DEF IdentityInv, RenameTemp, Writing, SoundJob
  <2>2. /\ DOMAIN file' = Name /\ file'["device.json"] = file["device.json"]
        /\ UNCHANGED kept
    BY <1>3, <2>1 DEF IdentityInv, RenameTemp
  <2>3. SoundRenames'
    BY <1>3, <2>1, RenamedIsSound DEF IdentityInv, RenameTemp
  <2>4. DOMAIN job' = Process /\ \A q \in Process : SoundJob(job'[q])
    BY <1>3, <2>1 DEF IdentityInv, RenameTemp, Writing, SoundJob
  <2> QED
    BY <2>2, <2>3, <2>4 DEF IdentityInv, IdentityIsWhole
<1>4. CASE InstallPrivate(p)
  <2>1. job[p] # None /\ job[p].name = "device.json" /\ job[p].bytes \in Device
    BY <1>4 DEF IdentityInv, InstallPrivate, Writing, SoundJob
  <2>2. DOMAIN file' = Name /\ file'["device.json"] \in Device /\ UNCHANGED kept
    BY <1>4, <2>1 DEF IdentityInv, InstallPrivate, Name
  <2>3. SoundRenames'
    BY <1>4, <2>1, RenamedIsSound DEF IdentityInv, InstallPrivate
  <2>4. DOMAIN job' = Process /\ \A q \in Process : SoundJob(job'[q])
    BY <1>4, <2>1 DEF IdentityInv, InstallPrivate, Step, SoundJob
  <2> QED
    BY <2>2, <2>3, <2>4 DEF IdentityInv, IdentityIsWhole
<1>5. CASE FlushDirectory(p)
  <2>1. UNCHANGED file /\ job' = [job EXCEPT ![p] = None]
    BY <1>5 DEF FlushDirectory
  <2>2. DOMAIN kept' = Name /\ kept'["device.json"] \in {file["device.json"], kept["device.json"]}
    BY <1>5 DEF FlushDirectory, Name
  <2>3. SoundRenames'
    <3>1. PICK renames : /\ pending \in [Directory -> Seq(renames)]
                         /\ \A q \in renames : SoundRename(q)
      BY DEF IdentityInv, SoundRenames
    <3>2. pending' \in [Directory -> Seq(renames)]
      BY <1>5, <3>1 DEF FlushDirectory
    <3> QED
      BY <3>1, <3>2 DEF SoundRenames
  <2>4. DOMAIN job' = Process /\ \A q \in Process : SoundJob(job'[q])
    BY <2>1 DEF IdentityInv, SoundJob
  <2> QED
    BY <2>1, <2>2, <2>3, <2>4 DEF IdentityInv, IdentityIsWhole
<1>6. CASE RenameFails(p) \/ WriteFails(p)
  <2>1. UNCHANGED <<file, kept, pending>> /\ job' = [job EXCEPT ![p] = None]
    BY <1>6 DEF RenameFails, WriteFails, Abandon
  <2>2. DOMAIN job' = Process /\ \A q \in Process : SoundJob(job'[q])
    BY <2>1 DEF IdentityInv, SoundJob
  <2> QED
    BY <2>1, <2>2, FilesStay
<1> QED
  BY <1>1, <1>2, <1>3, <1>4, <1>5, <1>6 DEF Replacing

\* Whatever of the renames survives a power loss, the identity is whole.
LEMMA PowerLossKeepsIdentity ==
  ASSUME IdentityInv, PowerLoss
  PROVE  IdentityInv'
<1>1. PICK root \in 0 .. Len(pending["root"]), vault \in 0 .. Len(pending["vault"]), noVault \in BOOLEAN :
         file' = [n \in Name |->
           IF noVault /\ n \in VaultName THEN None
           ELSE Surviving(n, [d \in Directory |-> IF d = "root" THEN root ELSE vault])]
  BY DEF PowerLoss
<1> DEFINE upto == [d \in Directory |-> IF d = "root" THEN root ELSE vault]
<1>2. "device.json" \in Name /\ "device.json" \notin VaultName /\ DirectoryOf("device.json") = "root"
  BY DEF Name, VaultName, Entry, DirectoryOf
<1>3. file'["device.json"] = Surviving("device.json", upto)
  BY <1>1, <1>2
<1>4. PICK renames : /\ pending \in [Directory -> Seq(renames)]
                     /\ \A q \in renames : SoundRename(q)
  BY DEF IdentityInv, SoundRenames
<1>5. upto["root"] = root /\ pending["root"] \in Seq(renames)
  BY <1>4 DEF Directory
<1>6. Surviving("device.json", upto) \in Device \cup {None}
  <2> DEFINE made == pending[DirectoryOf("device.json")]
             count == upto[DirectoryOf("device.json")]
             latest == {i \in 1 .. count :
                          made[i].name = "device.json" /\ \A j \in i + 1 .. count : made[j].name # "device.json"}
             rename == made[CHOOSE i \in latest : TRUE]
  <2>0. made = pending["root"] /\ count = root
    BY <1>2, <1>5
  <2> HIDE DEF upto
  <2>1. Surviving("device.json", upto) =
          IF latest = {} THEN kept["device.json"]
          ELSE IF rename.synced THEN rename.bytes ELSE Broken
    BY DEF Surviving
  <2>2. ASSUME latest # {}
        PROVE  rename.synced /\ rename.bytes \in Device
    <3>1. (CHOOSE i \in latest : TRUE) \in latest
      BY <2>2
    <3>2. PICK i \in latest : rename = made[i]
      BY <3>1
    <3> HIDE DEF rename, made, count
    <3>3. i \in 1 .. Len(pending["root"])
      BY <1>1, <1>5, <2>0
    <3>4. rename \in renames /\ rename.name = "device.json"
      BY <1>5, <2>0, <3>2, <3>3
    <3> QED
      BY <1>4, <3>4 DEF SoundRename
  <2> HIDE DEF latest, rename
  <2> QED
    BY <2>1, <2>2 DEF IdentityInv
<1>7. DOMAIN file' = Name /\ kept' = file'
  BY <1>1 DEF PowerLoss
<1>8. SoundRenames'
  <2>1. pending' \in [Directory -> Seq(renames)]
    BY DEF PowerLoss
  <2> QED
    BY <1>4, <2>1 DEF SoundRenames
<1>9. DOMAIN job' = Process /\ \A q \in Process : SoundJob(job'[q])
  BY DEF PowerLoss, SoundJob
<1> QED
  BY <1>3, <1>6, <1>7, <1>8, <1>9 DEF IdentityInv, IdentityIsWhole

LEMMA IdentityInductive == IdentityInv /\ [Next]_vars => IdentityInv'
<1> SUFFICES ASSUME IdentityInv, [Next]_vars PROVE IdentityInv'
  OBVIOUS
<1>1. ASSUME NEW p \in Process, NEW kind \in Kinds, Begin(p, kind) PROVE IdentityInv'
  BY <1>1, FilesStay DEF Begin, IdentityInv, disk
<1>2. ASSUME NEW p \in Process, Stage(p) \/ Replacing(p) \/ WriteFails(p) PROVE IdentityInv'
  BY <1>2, StageKeepsIdentity, ReplacingKeepsIdentity
<1>3. ASSUME NEW p \in Process, Close(p) PROVE IdentityInv'
  BY <1>3, FilesStay DEF Close, IdentityInv, disk
<1>4. ASSUME NEW p \in Process, Kill(p) PROVE IdentityInv'
  <2>1. UNCHANGED <<file, kept, pending>> /\ job' = [job EXCEPT ![p] = None]
    BY <1>4 DEF Kill, disk
  <2>2. DOMAIN job' = Process /\ \A q \in Process : SoundJob(job'[q])
    BY <2>1 DEF IdentityInv, SoundJob
  <2> QED
    BY <2>1, <2>2, FilesStay
<1>5. CASE Answer
  BY <1>5, FilesStay DEF Answer, IdentityInv, disk
<1>6. CASE PowerLoss
  BY <1>6, PowerLossKeepsIdentity
<1>7. CASE UNCHANGED vars
  BY <1>7, FilesStay DEF vars, IdentityInv, disk
<1> QED
  BY <1>1, <1>2, <1>3, <1>4, <1>5, <1>6, <1>7 DEF Next

----------------------------------------------------------------------------
(* One process at a time: the directory states a power loss may leave.      *)

\* What the first `count' renames of a directory make of a name.
Replayed(renames, count, n, before) ==
  LET latest == {i \in 1 .. count :
                   renames[i].name = n /\ \A j \in i + 1 .. count : renames[j].name # n}
  IN  IF latest = {} THEN before
      ELSE LET rename == renames[CHOOSE i \in latest : TRUE]
           IN  IF rename.synced THEN rename.bytes ELSE Broken

Outcome(upto) == [n \in Name |-> Surviving(n, upto)]

Upto == {upto \in [Directory -> Nat] : \A d \in Directory : upto[d] <= Len(pending[d])}

All == [d \in Directory |-> Len(pending[d])]

Survivors == {Outcome(upto) : upto \in Upto}

Renames == \E renames : pending \in [Directory -> Seq(renames)]

\* With no rename replayed a name holds what it held.
LEMMA ReplayOfNothing ==
  ASSUME NEW s, NEW n, NEW before
  PROVE  Replayed(s, 0, n, before) = before
<1>1. {i \in 1 .. 0 : s[i].name = n /\ \A j \in i + 1 .. 0 : s[j].name # n} = {}
  OBVIOUS
<1> QED
  BY <1>1 DEF Replayed

\* A rename more does not change what the renames before it make.
LEMMA ReplayOfBefore ==
  ASSUME NEW R, NEW s \in Seq(R), NEW r, NEW k \in 0 .. Len(s), NEW n, NEW before
  PROVE  Replayed(Append(s, r), k, n, before) = Replayed(s, k, n, before)
<1> DEFINE latest(z) == {i \in 1 .. k : z[i].name = n /\ \A j \in i + 1 .. k : z[j].name # n}
<1>1. \A i \in 1 .. k : Append(s, r)[i] = s[i]
  BY DEF Append
<1>2. latest(Append(s, r)) = latest(s)
  BY <1>1
<1>3. latest(s) # {} => (CHOOSE i \in latest(s) : TRUE) \in 1 .. k
  OBVIOUS
<1>4. \A z : Replayed(z, k, n, before) =
         IF latest(z) = {} THEN before
         ELSE IF z[CHOOSE i \in latest(z) : TRUE].synced
              THEN z[CHOOSE i \in latest(z) : TRUE].bytes ELSE Broken
  BY Zenon DEF Replayed
<1>5. PICK c : c = (CHOOSE i \in latest(s) : TRUE)
  OBVIOUS
<1> HIDE DEF latest
<1>6. Replayed(s, k, n, before) =
        IF latest(s) = {} THEN before ELSE IF s[c].synced THEN s[c].bytes ELSE Broken
  BY <1>4, <1>5
<1>7. Replayed(Append(s, r), k, n, before) =
        IF latest(s) = {} THEN before
        ELSE IF Append(s, r)[c].synced THEN Append(s, r)[c].bytes ELSE Broken
  BY <1>2, <1>4, <1>5
<1> QED
  BY <1>1, <1>3, <1>5, <1>6, <1>7

\* The last rename decides its own name and no other.
LEMMA ReplayOfLast ==
  ASSUME NEW R, NEW s \in Seq(R), NEW r, NEW k, NEW n, NEW before, k = Len(s) + 1
  PROVE  /\ r.name = n /\ r.synced => Replayed(Append(s, r), k, n, before) = r.bytes
         /\ r.name # n => Replayed(Append(s, r), k, n, before) = Replayed(s, Len(s), n, before)
<1> DEFINE latest(z, l) == {i \in 1 .. l : z[i].name = n /\ \A j \in i + 1 .. l : z[j].name # n}
           more == Append(s, r)
<1>1. (\A i \in 1 .. Len(s) : more[i] = s[i]) /\ more[k] = r /\ Len(s) \in Nat
  BY DEF Append
<1>4. \A z, l : Replayed(z, l, n, before) =
         IF latest(z, l) = {} THEN before
         ELSE IF z[CHOOSE i \in latest(z, l) : TRUE].synced
              THEN z[CHOOSE i \in latest(z, l) : TRUE].bytes ELSE Broken
  BY Zenon DEF Replayed
<1>2. CASE r.name = n
  <2>1. latest(more, k) = {k}
    <3>1. k \in latest(more, k)
      BY <1>1, <1>2
    <3>2. ASSUME NEW i \in latest(more, k) PROVE i = k
      <4>1. i \in 1 .. k /\ \A j \in i + 1 .. k : more[j].name # n
        OBVIOUS
      <4>2. i # k => k \in i + 1 .. k
        BY <4>1, <1>1
      <4> QED
        BY <4>1, <4>2, <1>1, <1>2
    <3> QED
      BY <3>1, <3>2
  <2>2. (CHOOSE i \in {k} : TRUE) = k
    OBVIOUS
  <2>3. PICK c : c = (CHOOSE i \in latest(more, k) : TRUE)
    OBVIOUS
  <2>4. c = k /\ latest(more, k) # {}
    BY <2>1, <2>2, <2>3
  <2> HIDE DEF latest, more
  <2>5. Replayed(more, k, n, before) = IF more[c].synced THEN more[c].bytes ELSE Broken
    BY <1>4, <2>3, <2>4
  <2> QED
    BY <1>1, <1>2, <2>4, <2>5 DEF more
<1>3. CASE r.name # n
  <2>1. latest(more, k) = latest(s, Len(s))
    <3>1. ASSUME NEW i \in latest(more, k) PROVE i \in latest(s, Len(s))
      <4>1. i \in 1 .. k /\ more[i].name = n /\ \A j \in i + 1 .. k : more[j].name # n
        OBVIOUS
      <4>2. i \in 1 .. Len(s)
        BY <4>1, <1>1, <1>3
      <4>3. \A j \in i + 1 .. Len(s) : j \in i + 1 .. k /\ j \in 1 .. Len(s)
        BY <4>2, <1>1
      <4>4. \A j \in i + 1 .. Len(s) : s[j].name # n
        BY <4>1, <4>3, <1>1
      <4> QED
        BY <4>1, <4>2, <4>4, <1>1
    <3>2. ASSUME NEW i \in latest(s, Len(s)) PROVE i \in latest(more, k)
      <4>1. i \in 1 .. Len(s) /\ s[i].name = n /\ \A j \in i + 1 .. Len(s) : s[j].name # n
        OBVIOUS
      <4>2. \A j \in i + 1 .. k : j = k \/ (j \in i + 1 .. Len(s) /\ j \in 1 .. Len(s))
        BY <4>1, <1>1
      <4>3. \A j \in i + 1 .. k : more[j].name # n
        BY <4>1, <4>2, <1>1, <1>3
      <4>4. i \in 1 .. k /\ more[i] = s[i]
        BY <4>1, <1>1
      <4> QED
        BY <4>1, <4>3, <4>4
    <3> QED
      BY <3>1, <3>2
  <2>2. latest(s, Len(s)) # {} => (CHOOSE i \in latest(s, Len(s)) : TRUE) \in 1 .. Len(s)
    OBVIOUS
  <2>3. PICK c : c = (CHOOSE i \in latest(s, Len(s)) : TRUE)
    OBVIOUS
  <2> HIDE DEF latest, more
  <2>4. Replayed(s, Len(s), n, before) =
          IF latest(s, Len(s)) = {} THEN before ELSE IF s[c].synced THEN s[c].bytes ELSE Broken
    BY <1>4, <2>3
  <2>5. Replayed(more, k, n, before) =
          IF latest(s, Len(s)) = {} THEN before
          ELSE IF more[c].synced THEN more[c].bytes ELSE Broken
    BY <1>4, <2>1, <2>3
  <2> QED
    BY <1>1, <1>3, <2>2, <2>3, <2>4, <2>5 DEF more
<1> QED
  BY <1>2, <1>3

\* A survivor has every name.
LEMMA NamesOfOutcomes ==
  ASSUME NEW f \in Survivors
  PROVE  DOMAIN f = Name
BY DEF Survivors, Outcome

\* What a power loss may leave depends on these three.
LEMMA SameSurvivors ==
  ASSUME UNCHANGED <<kept, pending>>
  PROVE  Survivors' = Survivors /\ Outcome(All)' = Outcome(All)
BY DEF Survivors, Outcome, Upto, All, Surviving

\* Two states that agree on the names of a directory.
Agree(f, g, d) == \A n \in Name : DirectoryOf(n) = d => f[n] = g[n]

\* The file is replaced; its directory is not flushed yet.
Replace(n, b) ==
  Renamed(n, b, TRUE) /\ kept' = kept /\ file' = [file EXCEPT ![n] = b]

\* The outcomes then: those from before, and those with all of n's directory.
Descend(n, b) ==
  \A g \in Survivors' :
    \/ g \in Survivors
    \/ \E f \in Survivors : Agree(f, file, DirectoryOf(n)) /\ g = [f EXCEPT ![n] = b]

\* A rename adds the outcomes in which its whole directory has survived.
LEMMA SurvivorsOfRename ==
  ASSUME NEW n \in Name, NEW b, Renames, file = Outcome(All), Replace(n, b)
  PROVE  Renames' /\ file' = Outcome(All)' /\ Descend(n, b)
<1>r. PICK r : r = [name |-> n, bytes |-> b, synced |-> TRUE]
  OBVIOUS
<1>d. PICK d : d = DirectoryOf(n)
  OBVIOUS
<1>1. PICK R : pending \in [Directory -> Seq(R)]
  BY DEF Renames
<1>2. d \in Directory /\ \A m \in Name : DirectoryOf(m) \in Directory
  BY <1>d DEF DirectoryOf, Directory
<1>3. pending' = [pending EXCEPT ![d] = Append(pending[d], r)]
  BY <1>r, <1>d DEF Replace, Renamed
<1>4. r.name = n /\ r.bytes = b /\ r.synced
  BY <1>r
<1>0. kept' = kept /\ file' = [file EXCEPT ![n] = b]
  BY DEF Replace
<1>5. Renames'
  <2>1. \A e \in Directory : pending[e] \in Seq(R \cup {r})
    BY <1>1
  <2>2. pending' \in [Directory -> Seq(R \cup {r})]
    BY <1>1, <1>2, <1>3, <2>1
  <2> QED
    BY <2>2 DEF Renames
<1>6. /\ pending'[d] = Append(pending[d], r) /\ pending[d] \in Seq(R)
      /\ \A e \in Directory : e # d => pending'[e] = pending[e]
      /\ Len(pending'[d]) = Len(pending[d]) + 1 /\ Len(pending[d]) \in Nat
      /\ \A e \in Directory : Len(pending[e]) \in Nat
  BY <1>1, <1>2, <1>3
\* Per name, with an index that the old renames reach ...
<1>7. ASSUME NEW m \in Name, NEW k, DirectoryOf(m) # d \/ k \in 0 .. Len(pending[d])
      PROVE  Replayed(pending'[DirectoryOf(m)], k, m, kept'[m]) =
               Replayed(pending[DirectoryOf(m)], k, m, kept[m])
  <2>1. CASE DirectoryOf(m) # d
    BY <1>0, <1>2, <1>6, <2>1
  <2>2. CASE DirectoryOf(m) = d
    <3>1. k \in 0 .. Len(pending[d]) /\ pending[d] \in Seq(R)
      BY <1>6, <1>7, <2>2
    <3>2. Replayed(Append(pending[d], r), k, m, kept[m]) = Replayed(pending[d], k, m, kept[m])
      BY <3>1, ReplayOfBefore
    <3> QED
      BY <1>0, <1>6, <2>2, <3>2
  <2> QED
    BY <2>1, <2>2
\* ... and with the index of the new one.
<1>8. ASSUME NEW m \in Name, NEW k, k = Len(pending[d]) + 1
      PROVE  Replayed(pending'[d], k, m, kept'[m]) =
               IF m = n THEN b ELSE Replayed(pending[d], Len(pending[d]), m, kept[m])
  <2>0. pending[d] \in Seq(R) /\ k = Len(pending[d]) + 1
    BY <1>6, <1>8
  <2>1. /\ r.name = m /\ r.synced => Replayed(Append(pending[d], r), k, m, kept[m]) = r.bytes
        /\ r.name # m => Replayed(Append(pending[d], r), k, m, kept[m]) =
                          Replayed(pending[d], Len(pending[d]), m, kept[m])
    <3>1. ASSUME NEW s \in Seq(R), k = Len(s) + 1, NEW before
          PROVE  /\ r.name = m /\ r.synced => Replayed(Append(s, r), k, m, before) = r.bytes
                 /\ r.name # m => Replayed(Append(s, r), k, m, before) = Replayed(s, Len(s), m, before)
      BY <3>1, ReplayOfLast
    <3> QED
      BY <3>1, <2>0
  <2> QED
    BY <1>0, <1>4, <1>6, <2>1
<1>9. \A u : Outcome(u)' = [m \in Name |-> Replayed(pending'[DirectoryOf(m)], u[DirectoryOf(m)], m, kept'[m])]
  BY Zenon DEF Outcome, Surviving, Replayed
<1>10. \A u : Outcome(u) = [m \in Name |-> Replayed(pending[DirectoryOf(m)], u[DirectoryOf(m)], m, kept[m])]
  BY Zenon DEF Outcome, Surviving, Replayed
<1>11. ASSUME NEW u \in Upto, u[d] \in 0 .. Len(pending[d])
       PROVE  Outcome(u)' = Outcome(u)
  BY <1>7, <1>9, <1>10, <1>11
<1>12. ASSUME NEW u \in [Directory -> Nat], u[d] = Len(pending[d]) + 1,
              NEW w, w = [u EXCEPT ![d] = Len(pending[d])]
       PROVE  Outcome(u)' = [Outcome(w) EXCEPT ![n] = b]
  <2>1. ASSUME NEW m \in Name
        PROVE  Replayed(pending'[DirectoryOf(m)], u[DirectoryOf(m)], m, kept'[m]) =
                 IF m = n THEN b
                 ELSE Replayed(pending[DirectoryOf(m)], w[DirectoryOf(m)], m, kept[m])
    <3>1. CASE DirectoryOf(m) = d
      BY <3>1, <1>8, <1>12, <1>2
    <3>2. CASE DirectoryOf(m) # d
      BY <3>2, <1>7, <1>12, <1>2, <1>d
    <3> QED
      BY <3>1, <3>2
  <2> QED
    BY <2>1, <1>9, <1>10
<1>13. file' = Outcome(All)'
  <2>1. PICK u : u = [e \in Directory |-> Len(pending'[e])]
    OBVIOUS
  <2>2. Outcome(All)' = Outcome(u)'
    BY <2>1, <1>9 DEF All
  <2>3. u \in [Directory -> Nat] /\ u[d] = Len(pending[d]) + 1
    <3>1. \A e \in Directory : Len(pending'[e]) \in Nat
      BY <1>6, <1>2
    <3> QED
      BY <2>1, <3>1, <1>2, <1>6
  <2>5. All = [u EXCEPT ![d] = Len(pending[d])]
    <3>1. \A e \in Directory : e # d => u[e] = Len(pending[e])
      BY <2>1, <1>6
    <3> QED
      BY <2>3, <3>1 DEF All
  <2>4. Outcome(u)' = [Outcome(All) EXCEPT ![n] = b]
    BY <2>3, <2>5, <1>12
  <2> QED
    BY <1>0, <2>2, <2>4
<1>14. ASSUME NEW g \in Survivors'
       PROVE  \/ g \in Survivors
              \/ \E f \in Survivors : Agree(f, file, d) /\ g = [f EXCEPT ![n] = b]
  <2>1. PICK u \in Upto' : g = Outcome(u)'
    BY DEF Survivors
  <2>2. u \in [Directory -> Nat] /\ \A e \in Directory : u[e] <= Len(pending'[e])
    BY <2>1 DEF Upto
  <2>3. CASE u[d] \in 0 .. Len(pending[d])
    <3>1. u \in Upto
      BY <2>2, <2>3, <1>6, <1>2 DEF Upto
    <3> QED
      BY <3>1, <2>1, <2>3, <1>11 DEF Survivors
  <2>4. CASE u[d] = Len(pending[d]) + 1
    <3>1. PICK w : w = [u EXCEPT ![d] = Len(pending[d])]
      OBVIOUS
    <3>2. w \in Upto /\ w[d] = Len(pending[d])
      <4>1. w[d] = Len(pending[d]) /\ w \in [Directory -> Nat]
        BY <3>1, <2>2, <1>2, <1>6
      <4>2. ASSUME NEW e \in Directory PROVE w[e] <= Len(pending[e])
        <5>1. CASE e = d
          BY <5>1, <4>1, <1>6
        <5>2. CASE e # d
          BY <5>2, <3>1, <2>2, <1>6
        <5> QED
          BY <5>1, <5>2
      <4> QED
        BY <4>1, <4>2 DEF Upto
    <3>3. g = [Outcome(w) EXCEPT ![n] = b]
      BY <3>1, <2>1, <2>2, <2>4, <1>12
    <3>4. \A m \in Name : DirectoryOf(m) = d => Outcome(w)[m] = file[m]
      BY <3>2, <1>10, <1>2 DEF All
    <3>5. Outcome(w) \in Survivors
      BY <3>2 DEF Survivors
    <3> QED
      BY <3>3, <3>4, <3>5 DEF Agree
  <2> QED
    BY <2>2, <2>3, <2>4, <1>2, <1>6
<1> QED
  BY <1>5, <1>13, <1>14, <1>d DEF Descend

\* Flushing a directory leaves the outcomes that have all of it.
LEMMA SurvivorsOfFlush ==
  ASSUME NEW d \in Directory, Renames, file = Outcome(All), UNCHANGED file,
         kept' = [n \in Name |-> IF DirectoryOf(n) \in {d} THEN file[n] ELSE kept[n]],
         pending' = [e \in Directory |-> IF e \in {d} THEN <<>> ELSE pending[e]]
  PROVE  /\ Renames'
         /\ file' = Outcome(All)'
         /\ \A g \in Survivors' : g \in Survivors /\ Agree(g, file, d)
<1>1. PICK R : pending \in [Directory -> Seq(R)]
  BY DEF Renames
<1>2. \A m \in Name : DirectoryOf(m) \in Directory
  BY DEF DirectoryOf, Directory
<1>3. Renames'
  <2>1. pending' \in [Directory -> Seq(R)]
    BY <1>1
  <2> QED
    BY <2>1 DEF Renames
<1>9. \A u : Outcome(u)' = [m \in Name |-> Replayed(pending'[DirectoryOf(m)], u[DirectoryOf(m)], m, kept'[m])]
  BY Zenon DEF Outcome, Surviving, Replayed
<1>10. \A u : Outcome(u) = [m \in Name |-> Replayed(pending[DirectoryOf(m)], u[DirectoryOf(m)], m, kept[m])]
  BY Zenon DEF Outcome, Surviving, Replayed
<1>11. ASSUME NEW u \in [Directory -> Nat], u[d] = 0,
              NEW w, w = [u EXCEPT ![d] = Len(pending[d])]
       PROVE  Outcome(u)' = Outcome(w)
  <2>1. ASSUME NEW m \in Name
        PROVE  Replayed(pending'[DirectoryOf(m)], u[DirectoryOf(m)], m, kept'[m]) =
                 Replayed(pending[DirectoryOf(m)], w[DirectoryOf(m)], m, kept[m])
    <3>1. CASE DirectoryOf(m) = d
      <4>1. kept'[m] = file[m] /\ u[DirectoryOf(m)] = 0
        BY <3>1, <1>11
      <4>2. file[m] = Replayed(pending[d], Len(pending[d]), m, kept[m])
        BY <3>1, <1>10 DEF All
      <4>3. Replayed(pending'[DirectoryOf(m)], 0, m, kept'[m]) = kept'[m]
        BY ReplayOfNothing
      <4> QED
        BY <3>1, <4>1, <4>2, <4>3, <1>11
    <3>2. CASE DirectoryOf(m) # d
      BY <3>2, <1>2, <1>11
    <3> QED
      BY <3>1, <3>2
  <2> QED
    BY <2>1, <1>9, <1>10
<1>12. /\ Len(pending'[d]) = 0
       /\ \A e \in Directory : e # d => pending'[e] = pending[e]
       /\ \A e \in Directory : Len(pending[e]) \in Nat
  BY <1>1
<1>13. file' = Outcome(All)'
  <2>1. PICK u : u = [e \in Directory |-> Len(pending'[e])]
    OBVIOUS
  <2>2. Outcome(All)' = Outcome(u)'
    BY <2>1, <1>9 DEF All
  <2>3. u \in [Directory -> Nat] /\ u[d] = 0 /\ All = [u EXCEPT ![d] = Len(pending[d])]
    BY <2>1, <1>12 DEF All
  <2> QED
    BY <2>2, <2>3, <1>11
<1>14. ASSUME NEW g \in Survivors'
       PROVE  g \in Survivors /\ Agree(g, file, d)
  <2>1. PICK u \in Upto' : g = Outcome(u)'
    BY DEF Survivors
  <2>2. u \in [Directory -> Nat] /\ \A e \in Directory : u[e] <= Len(pending'[e])
    BY <2>1 DEF Upto
  <2>3. u[d] = 0
    BY <2>2, <1>12
  <2>4. PICK w : w = [u EXCEPT ![d] = Len(pending[d])]
    OBVIOUS
  <2>5. w \in Upto /\ w[d] = Len(pending[d])
    BY <2>4, <2>2, <1>12 DEF Upto
  <2>6. g = Outcome(w)
    BY <2>1, <2>2, <2>3, <2>4, <1>11
  <2>7. \A m \in Name : DirectoryOf(m) = d => Outcome(w)[m] = file[m]
    BY <2>5, <1>10 DEF All
  <2> QED
    BY <2>5, <2>6, <2>7 DEF Survivors, Agree
<1> QED
  BY <1>3, <1>13, <1>14


\* All is flushed: nothing more is lost.
Flushed ==
  pending = [d \in Directory |-> <<>>] /\ kept = file /\ \E f : file = [n \in Name |-> f[n]]

Settled == Renames /\ file = Outcome(All) /\ \A g \in Survivors : g = file

\* Then the directory as it is is the only survivor.
LEMMA NothingIsLost == Flushed => Settled
<1> SUFFICES ASSUME Flushed PROVE Settled
  OBVIOUS
<1> PICK f : file = [n \in Name |-> f[n]]
  BY DEF Flushed
<1>1. Renames
  <2>1. pending \in [Directory -> Seq({})]
    BY DEF Flushed
  <2> QED
    BY <2>1 DEF Renames
<1>2. \A m \in Name : DirectoryOf(m) \in Directory
  BY DEF DirectoryOf, Directory
<1>3. \A u : Outcome(u) = [m \in Name |-> Replayed(pending[DirectoryOf(m)], u[DirectoryOf(m)], m, kept[m])]
  BY Zenon DEF Outcome, Surviving, Replayed
<1>4. ASSUME NEW u, \A d \in Directory : u[d] = 0
      PROVE  Outcome(u) = file
  <2>1. ASSUME NEW m \in Name
        PROVE  Replayed(pending[DirectoryOf(m)], u[DirectoryOf(m)], m, kept[m]) = file[m]
    BY <1>2, <1>4, ReplayOfNothing DEF Flushed
  <2> QED
    BY <2>1, <1>3
<1>5. \A d \in Directory : Len(pending[d]) = 0
  BY DEF Flushed
<1>6. Outcome(All) = file
  BY <1>4, <1>5 DEF All
<1>7. ASSUME NEW g \in Survivors PROVE g = file
  <2>1. PICK u \in Upto : g = Outcome(u)
    BY DEF Survivors
  <2>2. \A d \in Directory : u[d] = 0
    BY <2>1, <1>5 DEF Upto
  <2> QED
    BY <2>1, <2>2, <1>4
<1> QED
  BY <1>1, <1>6, <1>7 DEF Settled

\* The same after a step.
LEMMA NothingIsLostThen == Flushed' => Settled'
BY NothingIsLost, PTL

----------------------------------------------------------------------------
(* A directory state in which the next process finds all in order.          *)

DataOf(n) ==
  CASE n = "device.json" -> Device
    [] n = "ledger.json" -> Seq(Event)
    [] n = "vault.key" -> VaultKey
    [] n = "manifest.json" -> SUBSET Entry
    [] OTHER -> Blob

Ids(events) == IF events = None THEN {} ELSE {events[i].id : i \in DOMAIN events}

Good(f) ==
  /\ \A n \in Name : f[n] = None \/ f[n] \in DataOf(n)
  /\ f["ledger.json"] # None => ChainVerifies(f["ledger.json"], f["device.json"])
  /\ \A e \in Entry : f[e] # None => f[e].under = f["vault.key"]
  /\ f["manifest.json"] # None => \A e \in f["manifest.json"] : f[e] # None
  /\ f["workspace"] # None => f["workspace"].holds \subseteq Ids(f["ledger.json"])

\* An event that no power loss takes from the ledger.
Durable(id, S) == \A f \in S : id \in Ids(f["ledger.json"])

\* What may replace n now, whatever a power loss leaves of the other directory.
Fit(n, b, f, S) == \A g \in S : Agree(g, f, DirectoryOf(n)) => Good([g EXCEPT ![n] = b])

\* The names, their directories and their data, spelt out.
LEMMA FilesByName ==
  /\ Name = {"device.json", "ledger.json", "vault.key", "manifest.json", "workspace", "venture_profile"}
  /\ Entry = {"workspace", "venture_profile"}
  /\ DirectoryOf("device.json") = "root" /\ DirectoryOf("ledger.json") = "root"
  /\ DirectoryOf("vault.key") = "vault" /\ DirectoryOf("manifest.json") = "vault"
  /\ \A e \in Entry : DirectoryOf(e) = "vault"
  /\ DataOf("device.json") = Device /\ DataOf("ledger.json") = Seq(Event)
  /\ DataOf("vault.key") = VaultKey /\ DataOf("manifest.json") = SUBSET Entry
  /\ \A e \in Entry : DataOf(e) = Blob
  /\ \A n \in Name : DirectoryOf(n) \in Directory
BY DEF Name, VaultName, Entry, DirectoryOf, DataOf, Directory

\* No file that parses is missing, broken or empty.
LEMMA NothingIsNoData ==
  \A n \in Name : None \notin DataOf(n) /\ Broken \notin DataOf(n) /\ Empty \notin DataOf(n)
BY BytesAreNotData DEF DataOf

\* A first identity: there is no event that another would have signed.
LEMMA FitDevice ==
  ASSUME NEW f, NEW S, \A g \in S : DOMAIN g = Name /\ Good(g),
         f["device.json"] = None, NEW d \in Device
  PROVE  Fit("device.json", d, f, S)
<1> SUFFICES ASSUME NEW g \in S, Agree(g, f, "root"), NEW h, h = [g EXCEPT !["device.json"] = d]
             PROVE  Good(h)
  BY FilesByName DEF Fit
<1>1. g["device.json"] = None
  BY FilesByName DEF Agree
<1>2. h["device.json"] = d /\ \A n \in Name : n # "device.json" => h[n] = g[n]
  BY FilesByName
<1>3. Good(g)
  OBVIOUS
<1>4. \A n \in Name : h[n] = None \/ h[n] \in DataOf(n)
  BY <1>2, <1>3, FilesByName DEF Good
<1>5. ASSUME g["ledger.json"] # None PROVE ChainVerifies(g["ledger.json"], d)
  <2>1. g["ledger.json"] \in Seq(Event) /\ ChainVerifies(g["ledger.json"], None)
    BY <1>1, <1>3, <1>5, FilesByName DEF Good
  <2>2. None \notin Device
    BY BytesAreNotData
  <2>3. ASSUME NEW l \in Seq(Event), NEW i \in DOMAIN l PROVE l[i].by \in Device
    <3>1. l[i] \in Event
      OBVIOUS
    <3> QED
      BY <3>1 DEF Event
  <2> QED
    BY <2>1, <2>2, <2>3 DEF ChainVerifies
<1>6. \A n \in Name \ {"device.json"} : h[n] = g[n]
  BY <1>2
<1> QED
  BY <1>2, <1>3, <1>4, <1>5, FilesByName DEF Good

\* A first key: there is no blob under another.
LEMMA FitKey ==
  ASSUME NEW f, NEW S, \A g \in S : DOMAIN g = Name /\ Good(g),
         f["vault.key"] = None, NEW k \in VaultKey
  PROVE  Fit("vault.key", k, f, S)
<1> SUFFICES ASSUME NEW g \in S, Agree(g, f, "vault"), NEW h, h = [g EXCEPT !["vault.key"] = k]
             PROVE  Good(h)
  BY FilesByName DEF Fit
<1>1. g["vault.key"] = None
  BY FilesByName DEF Agree
<1>2. h["vault.key"] = k /\ \A n \in Name : n # "vault.key" => h[n] = g[n]
  BY FilesByName
<1>3. \A e \in Entry : g[e] = None
  <2> SUFFICES ASSUME NEW e \in Entry, g[e] # None PROVE FALSE
    OBVIOUS
  <2>1. g[e] \in Blob /\ g[e].under = None
    BY <1>1, FilesByName DEF Good
  <2> QED
    BY <2>1, BytesAreNotData DEF Blob
<1> QED
  BY <1>2, <1>3, FilesByName DEF Good

\* An event more, or the empty ledger where there was none.
LEMMA FitLedger ==
  ASSUME NEW f, NEW S, \A g \in S : DOMAIN g = Name /\ Good(g), NEW events \in Seq(Event),
         ChainVerifies(events, f["device.json"]), Ids(f["ledger.json"]) \subseteq Ids(events)
  PROVE  Fit("ledger.json", events, f, S)
<1> SUFFICES ASSUME NEW g \in S, Agree(g, f, "root"), NEW h, h = [g EXCEPT !["ledger.json"] = events]
             PROVE  Good(h)
  BY FilesByName DEF Fit
<1>1. g["ledger.json"] = f["ledger.json"] /\ g["device.json"] = f["device.json"]
  BY FilesByName DEF Agree
<1>2. h["ledger.json"] = events /\ \A n \in Name : n # "ledger.json" => h[n] = g[n]
  BY FilesByName
<1> QED
  BY <1>1, <1>2, FilesByName DEF Good

\* The workspace with one more operation, whose event is on the ledger for good.
LEMMA FitWorkspace ==
  ASSUME NEW f, NEW S, \A g \in S : DOMAIN g = Name /\ Good(g),
         NEW id \in Nat, Durable(id, S), f["vault.key"] \in VaultKey,
         NEW holds, holds = (IF f["workspace"] = None THEN {} ELSE f["workspace"].holds) \cup {id},
         holds \subseteq Nat
  PROVE  Fit("workspace", [under |-> f["vault.key"], holds |-> holds], f, S)
<1> DEFINE b == [under |-> f["vault.key"], holds |-> holds]
<1> SUFFICES ASSUME NEW g \in S, Agree(g, f, "vault"), NEW h, h = [g EXCEPT !["workspace"] = b]
             PROVE  Good(h)
  BY FilesByName DEF Fit
<1>1. g["workspace"] = f["workspace"] /\ g["vault.key"] = f["vault.key"]
  BY FilesByName DEF Agree
<1>2. b \in Blob /\ b.under = f["vault.key"] /\ b.holds = holds
  BY DEF Blob
<1> HIDE DEF b
<1>3. h["workspace"] = b /\ \A n \in Name : n # "workspace" => h[n] = g[n]
  BY FilesByName
<1>4. holds \subseteq Ids(g["ledger.json"])
  BY <1>1 DEF Good, Durable
<1> QED
  BY <1>1, <1>2, <1>3, <1>4, FilesByName, NothingIsNoData DEF Good

\* The demo's entry.
LEMMA FitProfile ==
  ASSUME NEW f, NEW S, \A g \in S : DOMAIN g = Name /\ Good(g), f["vault.key"] \in VaultKey
  PROVE  Fit("venture_profile", [under |-> f["vault.key"], holds |-> {}], f, S)
<1> DEFINE b == [under |-> f["vault.key"], holds |-> {}]
<1> SUFFICES ASSUME NEW g \in S, Agree(g, f, "vault"), NEW h, h = [g EXCEPT !["venture_profile"] = b]
             PROVE  Good(h)
  BY FilesByName DEF Fit
<1>1. g["vault.key"] = f["vault.key"]
  BY FilesByName DEF Agree
<1>2. b \in Blob /\ b.under = f["vault.key"]
  BY DEF Blob
<1> HIDE DEF b
<1>3. h["venture_profile"] = b /\ \A n \in Name : n # "venture_profile" => h[n] = g[n]
  BY FilesByName
<1> QED
  BY <1>1, <1>2, <1>3, FilesByName, NothingIsNoData DEF Good

\* The manifest with an entry that is stored.
LEMMA FitManifest ==
  ASSUME NEW f, NEW S, \A g \in S : DOMAIN g = Name /\ Good(g), f \in S,
         NEW e \in Entry, f[e] # None,
         NEW names, names = (IF f["manifest.json"] = None THEN {} ELSE f["manifest.json"]) \cup {e}
  PROVE  Fit("manifest.json", names, f, S) /\ names \in SUBSET Entry
<1>1. names \in SUBSET Entry
  BY FilesByName DEF Good
<1>2. ASSUME NEW g \in S, Agree(g, f, "vault"), NEW h, h = [g EXCEPT !["manifest.json"] = names]
      PROVE  Good(h)
  <2>1. g["manifest.json"] = f["manifest.json"] /\ g[e] = f[e]
    BY <1>2, FilesByName DEF Agree
  <2>2. h["manifest.json"] = names /\ \A n \in Name : n # "manifest.json" => h[n] = g[n]
    BY <1>2, FilesByName
  <2>3. \A x \in names : g[x] # None
    BY <2>1 DEF Good
  <2> QED
    BY <1>1, <2>1, <2>2, <2>3, FilesByName DEF Good
<1> QED
  BY <1>1, <1>2, FilesByName DEF Fit

----------------------------------------------------------------------------
(* What an operation relies on between its stages.                          *)

StageName ==
  {"device", "key", "manifest", "get", "put", "list", "ledger", "append", "create", "ask", "answer"}

Stages(s) == {s[i] : i \in DOMAIN s}

NoneAfter(s, x, ys) == \A i, j \in DOMAIN s : i < j /\ s[i] = x => s[j] \notin ys

\* What the rest of an operation may still hold, by what it begins with.
Ordered(s, kind) ==
  /\ \A j \in DOMAIN s : s[j] = "device" => j = 1
  /\ NoneAfter(s, "put", {"put", "key", "get"})
  /\ NoneAfter(s, "list", {"list", "manifest", "put"})
  /\ NoneAfter(s, "append", {"append", "ledger"})
  /\ NoneAfter(s, "create", {"append"})
  /\ EntryOf(kind) = "workspace" => NoneAfter(s, "put", {"append"})
  /\ "put" \in Stages(s) => kind \in Signed

\* What a process with these stages to come has of the files f.
Knows(to, m, o, f, S) ==
  /\ m.device # None /\ "device" \notin to => m.device = f["device.json"]
  /\ "append" \in to /\ "device" \notin to => m.device # None
  /\ "put" \in to /\ "key" \notin to => m.key = f["vault.key"] /\ m.key # None
  /\ "list" \in to /\ "put" \notin to => f[EntryOf(o.kind)] # None
  /\ o.kind \in Signed /\ "append" \notin to => Durable(o.id, S)

Read(n, f, absent) == IF f[n] = None THEN absent ELSE f[n]

\* What the stages not yet begun are to write.
Prepared(to, m, o, f) ==
  /\ "put" \in to /\ "get" \notin to /\ EntryOf(o.kind) = "workspace" =>
       m.state = Read("workspace", f, [holds |-> {}]).holds
  /\ "list" \in to /\ "manifest" \notin to => m.listed = Read("manifest.json", f, {})
  /\ "append" \in to /\ "ledger" \notin to => m.chain = Read("ledger.json", f, <<>>)

NameAt(stage, kind) ==
  CASE stage = "device" -> "device.json"
    [] stage = "key" -> "vault.key"
    [] stage = "put" -> EntryOf(kind)
    [] stage = "list" -> "manifest.json"
    [] OTHER -> "ledger.json"

StepsOf(stage) ==
  IF stage = "device" THEN {"install", "flush"} ELSE {"create", "write", "sync", "rename", "flush"}

\* A replacement under way: its bytes may take the place of the file's.
Making(j, stage, m, o, f, S, t, u, ack) ==
  /\ j \in Job
  /\ stage \in {"device", "key", "append", "create", "put", "list"}
  /\ j.name = NameAt(stage, o.kind)
  /\ j.at \in StepsOf(stage)
  /\ j.at = "flush" => f[j.name] = j.bytes
  /\ j.at # "flush" => /\ Fit(j.name, j.bytes, f, S)
                       /\ stage = "device" => f["device.json"] = None
                       /\ stage = "create" => f["ledger.json"] = None
                       /\ j.name = "ledger.json" => ack \subseteq Ids(j.bytes)
  /\ j.at = "write" => j.open = "temp" /\ t[j.name] = Empty
  /\ j.at \in {"sync", "rename"} => t[j.name] = j.bytes
  /\ j.at = "rename" => j.name \notin u
  /\ stage = "device" => j.bytes = m.device
  /\ stage = "key" => j.bytes = m.key
  /\ stage = "append" => o.id \in Ids(j.bytes)

NotBegun(s, j) == IF j = None THEN Stages(s) ELSE Stages(s) \ {s[1]}

Working(s, j, m, o, f, S, t, u, ack) ==
  /\ Ordered(s, o.kind) /\ o.kind \in Kinds /\ o.id \in Nat
  /\ DOMAIN m = DOMAIN Blank
  /\ Knows(Stages(s), m, o, f, S)
  /\ Prepared(NotBegun(s, j), m, o, f)
  /\ j # None => Making(j, s[1], m, o, f, S, t, u, ack)

Resting(j, m, f) ==
  /\ j = None
  /\ DOMAIN m = DOMAIN Blank
  /\ m.device # None => m.device = f["device.json"]

DiskInv ==
  /\ Renames
  /\ file = Outcome(All)
  /\ \A f \in Survivors : Good(f)
  /\ \A id \in acknowledged : Durable(id, Survivors)

ProcessInv(p) ==
  /\ todo[p] \in Seq(StageName)
  /\ todo[p] = <<>> => Resting(job[p], mem[p], file)
  /\ todo[p] # <<>> => Working(todo[p], job[p], mem[p], op[p], file, Survivors, temp, unsynced, acknowledged)

Alone ==
  /\ operations \in Nat
  /\ DOMAIN todo = Process /\ DOMAIN op = Process /\ DOMAIN job = Process /\ DOMAIN mem = Process
  /\ DOMAIN temp = Name
  /\ \A p, q \in Process : todo[p] # <<>> /\ todo[q] # <<>> => p = q
  /\ DiskInv
  /\ \A p \in Process : ProcessInv(p)

DirectoryInv == ~overlapped => Alone

----------------------------------------------------------------------------
(* The stages of an operation, one by one.                                  *)

\* What is to come after a stage.
Leaves(s, kind, stage, to) ==
  /\ \A x \in to : x \in Stages(s)
  /\ \A x \in Stages(s) : x = stage \/ x \in to
  /\ stage \in Stages(s) /\ "device" \notin to
  /\ stage = "put" => \A x \in to : x \notin {"put", "key", "get"}
  /\ stage = "list" => \A x \in to : x \notin {"list", "manifest", "put"}
  /\ stage = "append" => \A x \in to : x \notin {"append", "ledger"}
  /\ stage = "create" => "append" \notin to
  /\ stage = "put" /\ EntryOf(kind) = "workspace" => "append" \notin to

\* The first stage is over: the rest is in order too.
LEMMA TailStages ==
  ASSUME NEW s \in Seq(StageName), NEW kind, NEW t, NEW to,
         s # <<>>, Ordered(s, kind), t = Tail(s), to = Stages(t)
  PROVE  t \in Seq(StageName) /\ Ordered(t, kind) /\ Leaves(s, kind, s[1], to)
<1>1. /\ Len(s) \in Nat \ {0} /\ DOMAIN s = 1 .. Len(s)
      /\ t \in Seq(StageName) /\ DOMAIN t = 1 .. Len(s) - 1
      /\ \A i \in DOMAIN t : t[i] = s[i + 1]
  OBVIOUS
<1>2. \A i \in DOMAIN t : i + 1 \in DOMAIN s /\ 1 < i + 1
  BY <1>1
<1>3. \A x, ys : NoneAfter(s, x, ys) => NoneAfter(t, x, ys) /\ (s[1] = x => \A y \in ys : y \notin to)
  <2> SUFFICES ASSUME NEW x, NEW ys, NoneAfter(s, x, ys)
               PROVE  NoneAfter(t, x, ys) /\ (s[1] = x => \A y \in ys : y \notin to)
    OBVIOUS
  <2>1. ASSUME NEW i \in DOMAIN t, NEW j \in DOMAIN t, i < j, t[i] = x PROVE t[j] \notin ys
    <3>1. i + 1 \in DOMAIN s /\ j + 1 \in DOMAIN s /\ i + 1 < j + 1 /\ s[i + 1] = x
      BY <1>1, <1>2, <2>1
    <3> QED
      BY <3>1, <1>1, <2>1 DEF NoneAfter
  <2>2. ASSUME s[1] = x, NEW j \in DOMAIN t PROVE t[j] \notin ys
    <3>1. 1 \in DOMAIN s /\ j + 1 \in DOMAIN s /\ 1 < j + 1
      BY <1>1, <1>2
    <3> QED
      BY <3>1, <1>1, <2>2 DEF NoneAfter
  <2> QED
    BY <2>1, <2>2 DEF NoneAfter, Stages
<1>4. \A j \in DOMAIN t : t[j] # "device"
  <2> SUFFICES ASSUME NEW j \in DOMAIN t, t[j] = "device" PROVE FALSE
    OBVIOUS
  <2>1. j + 1 \in DOMAIN s /\ s[j + 1] = "device" /\ j + 1 # 1
    BY <1>1, <1>2
  <2> QED
    BY <2>1 DEF Ordered
<1>5. to \subseteq Stages(s) /\ "device" \notin to
  BY <1>1, <1>2, <1>4 DEF Stages
<1>6. Stages(s) \subseteq to \cup {s[1]} /\ s[1] \in Stages(s)
  <2>1. ASSUME NEW i \in DOMAIN s, i # 1 PROVE s[i] \in to
    <3>1. i - 1 \in DOMAIN t /\ t[i - 1] = s[i]
      BY <1>1, <2>1
    <3> QED
      BY <3>1 DEF Stages
  <2> QED
    BY <2>1, <1>1 DEF Stages
<1>7. Ordered(t, kind)
  BY <1>3, <1>4, <1>5 DEF Ordered
<1>8. /\ s[1] = "put" => \A y \in {"put", "key", "get"} : y \notin to
      /\ s[1] = "list" => \A y \in {"list", "manifest", "put"} : y \notin to
      /\ s[1] = "append" => \A y \in {"append", "ledger"} : y \notin to
      /\ s[1] = "create" => \A y \in {"append"} : y \notin to
      /\ s[1] = "put" /\ EntryOf(kind) = "workspace" => \A y \in {"append"} : y \notin to
  BY <1>3 DEF Ordered
<1> QED
  BY <1>1, <1>5, <1>6, <1>7, <1>8 DEF Leaves

\* An operation of two stages or more goes on.
LEMMA TailOfMore ==
  ASSUME NEW s \in Seq(StageName), Len(s) > 1
  PROVE  Tail(s) # <<>>
<1>1. PICK l \in Nat : l = Len(s)
  OBVIOUS
<1>2. Len(Tail(s)) = l - 1 /\ l - 1 # 0
  BY <1>1
<1>3. Len(<<>>) = 0
  OBVIOUS
<1> QED
  BY <1>2, <1>3

\* Every step is of one process; the others rest.
LEMMA OneActs ==
  ASSUME NEW p \in Process, Alone, todo[p] # <<>>,
         \A q \in Process : q # p => todo'[q] = todo[q] /\ job'[q] = job[q] /\ mem'[q] = mem[q],
         DOMAIN todo' = Process, DOMAIN op' = Process, DOMAIN job' = Process, DOMAIN mem' = Process,
         DOMAIN temp' = Name, operations' = operations,
         \/ file'["device.json"] = file["device.json"]
         \/ file["device.json"] = None,
         DiskInv', ProcessInv(p)'
  PROVE  Alone'
<1>1. \A q \in Process : q # p => todo[q] = <<>>
  BY DEF Alone
<1>2. ASSUME NEW q \in Process, q # p PROVE ProcessInv(q)'
  <2>1. todo'[q] = <<>> /\ todo[q] = <<>>
    BY <1>1, <1>2
  <2>2. Resting(job[q], mem[q], file)
    BY <2>1 DEF Alone, ProcessInv
  <2>3. Resting(job'[q], mem'[q], file')
    BY <1>2, <2>2 DEF Resting
  <2> QED
    BY <2>1, <2>3 DEF ProcessInv
<1>3. \A q \in Process : ProcessInv(q)'
  BY <1>2
<1>4. \A q, r \in Process : todo'[q] # <<>> /\ todo'[r] # <<>> => q = r
  BY <1>1
<1> QED
  BY <1>3, <1>4 DEF Alone

\* Nothing of the disk changes that the invariant is about.
LEMMA DiskStays ==
  ASSUME Alone, UNCHANGED <<file, kept, pending>>,
         \A id \in acknowledged' : id \in acknowledged \/ Durable(id, Survivors)
  PROVE  DiskInv' /\ Survivors' = Survivors
<1>1. Survivors' = Survivors /\ Outcome(All)' = Outcome(All)
  BY SameSurvivors
<1>2. Renames'
  BY DEF Alone, DiskInv, Renames
<1> QED
  BY <1>1, <1>2 DEF Alone, DiskInv

\* The stage is over.
LEMMA Passes ==
  ASSUME NEW p \in Process, NEW m, todo[p] # <<>>, ProcessInv(p), Proceed(p, m),
         DOMAIN todo = Process, DOMAIN op = Process, DOMAIN mem = Process,
         job'[p] = None, DOMAIN m = DOMAIN Blank,
         Knows(Stages(Tail(todo[p])), m, op[p], file', Survivors'),
         Prepared(Stages(Tail(todo[p])), m, op[p], file')
  PROVE  /\ ProcessInv(p)'
         /\ \A q \in Process : q # p => todo'[q] = todo[q] /\ mem'[q] = mem[q]
         /\ DOMAIN todo' = Process /\ DOMAIN op' = Process /\ DOMAIN mem' = Process
         /\ \A id \in acknowledged' : id \in acknowledged \/ Durable(id, Survivors')
<1> PICK s : s = todo[p]
  OBVIOUS
<1> PICK o : o = op[p]
  OBVIOUS
<1> PICK t : t = Tail(s)
  OBVIOUS
<1>1. s \in Seq(StageName) /\ s # <<>> /\ Ordered(s, o.kind) /\ o.kind \in Kinds /\ o.id \in Nat
  BY DEF ProcessInv, Working
<1>2. t \in Seq(StageName) /\ Ordered(t, o.kind) /\ "device" \notin Stages(t)
  BY <1>1, TailStages DEF Leaves
<1>3. todo' = [todo EXCEPT ![p] = t]
  BY DEF Proceed
<1>4. CASE Len(s) > 1
  <2>1. mem' = [mem EXCEPT ![p] = m] /\ UNCHANGED <<op, acknowledged>>
    BY <1>4 DEF Proceed
  <2>2. t # <<>>
    BY <1>1, <1>4, TailOfMore
  <2>3. NotBegun(t, None) = Stages(t)
    BY DEF NotBegun
  <2>4. \A u, v, w : Working(t, None, m, o, file', Survivors', u, v, w)
    BY <1>1, <1>2, <2>3 DEF Working
  <2>5. /\ todo'[p] = t /\ mem'[p] = m /\ op'[p] = o
        /\ \A q \in Process : q # p => todo'[q] = todo[q] /\ mem'[q] = mem[q]
        /\ DOMAIN todo' = Process /\ DOMAIN op' = Process /\ DOMAIN mem' = Process
    BY <1>3, <2>1
  <2> QED
    BY <1>2, <2>1, <2>2, <2>4, <2>5 DEF ProcessInv
<1>5. CASE ~(Len(s) > 1)
  <2>1. /\ mem' = [mem EXCEPT ![p] = Rest(m)] /\ op' = [op EXCEPT ![p] = None]
        /\ acknowledged' = IF o.kind \in Signed THEN acknowledged \cup {o.id} ELSE acknowledged
    BY <1>5 DEF Proceed
  <2>2. t = <<>> /\ Stages(t) = {}
    BY <1>1, <1>5 DEF Stages
  <2>3. /\ todo'[p] = t /\ mem'[p] = Rest(m)
        /\ \A q \in Process : q # p => todo'[q] = todo[q] /\ mem'[q] = mem[q]
        /\ DOMAIN todo' = Process /\ DOMAIN op' = Process /\ DOMAIN mem' = Process
    BY <1>3, <2>1
  <2>4. DOMAIN Rest(m) = DOMAIN Blank /\ Rest(m).device = m.device
    BY DEF Rest, Blank
  <2>5. Resting(None, Rest(m), file')
    BY <2>2, <2>4 DEF Resting, Knows
  <2>6. o.kind \in Signed => Durable(o.id, Survivors')
    BY <2>2 DEF Knows
  <2> QED
    BY <1>2, <2>1, <2>2, <2>3, <2>5, <2>6 DEF ProcessInv
<1> QED
  BY <1>4, <1>5

\* The operation fails at its stage.
LEMMA Fails ==
  ASSUME NEW p \in Process, todo[p] # <<>>, ProcessInv(p), GiveUp(p),
         DOMAIN todo = Process, DOMAIN op = Process, DOMAIN mem = Process,
         job'[p] = None, file' = file
  PROVE  /\ ProcessInv(p)'
         /\ \A q \in Process : q # p => todo'[q] = todo[q] /\ mem'[q] = mem[q]
         /\ DOMAIN todo' = Process /\ DOMAIN op' = Process /\ DOMAIN mem' = Process
         /\ acknowledged' = acknowledged
<1> PICK s : s = todo[p]
  OBVIOUS
<1>1. s \in Seq(StageName) /\ s # <<>> /\ Head(s) = s[1]
  BY DEF ProcessInv
<1>2. /\ Ordered(s, op[p].kind) /\ DOMAIN mem[p] = DOMAIN Blank
      /\ Knows(Stages(s), mem[p], op[p], file, Survivors)
  BY <1>1 DEF ProcessInv, Working
<1>3. s[1] # "device" => "device" \notin Stages(s)
  BY <1>1, <1>2 DEF Ordered, Stages
<1>4. /\ todo'[p] = <<>> /\ mem'[p] = IF s[1] = "device" THEN Blank ELSE Rest(mem[p])
      /\ \A q \in Process : q # p => todo'[q] = todo[q] /\ mem'[q] = mem[q]
      /\ DOMAIN todo' = Process /\ DOMAIN op' = Process /\ DOMAIN mem' = Process
      /\ acknowledged' = acknowledged
  BY <1>1 DEF GiveUp
<1>5. DOMAIN Rest(mem[p]) = DOMAIN Blank /\ Rest(mem[p]).device = mem[p].device /\ Blank.device = None
  BY DEF Rest, Blank
<1>6. Resting(None, mem'[p], file)
  BY <1>2, <1>3, <1>4, <1>5 DEF Resting, Knows
<1> QED
  BY <1>4, <1>6 DEF ProcessInv

----------------------------------------------------------------------------
(* Replacing a file.                                                        *)

\* No file is replaced by nothing.
LEMMA BytesAreSomething == None \notin Bytes
BY BytesAreNotData DEF Bytes

\* Who replaces a file is in an operation, and alone.
LEMMA Writer ==
  ASSUME NEW p \in Process, Alone, job[p] # None
  PROVE  /\ todo[p] # <<>> /\ todo[p] \in Seq(StageName) /\ ProcessInv(p)
         /\ Working(todo[p], job[p], mem[p], op[p], file, Survivors, temp, unsynced, acknowledged)
         /\ Making(job[p], todo[p][1], mem[p], op[p], file, Survivors, temp, unsynced, acknowledged)
         /\ \A q \in Process : q # p => job[q] = None
<1>1. ProcessInv(p) /\ todo[p] # <<>>
  BY DEF Alone, ProcessInv, Resting
<1>2. ASSUME NEW q \in Process, q # p PROVE job[q] = None
  <2>1. todo[q] = <<>>
    BY <1>1, <1>2 DEF Alone
  <2> QED
    BY <2>1 DEF Alone, ProcessInv, Resting
<1> QED
  BY <1>1, <1>2 DEF ProcessInv, Working

\* The directory as it is is a survivor, and all survivors are good.
LEMMA FilesAreWhole ==
  ASSUME DiskInv
  PROVE  /\ file \in Survivors /\ Good(file) /\ DOMAIN file = Name
         /\ \A g \in Survivors : DOMAIN g = Name /\ Good(g)
<1>1. All \in Upto
  <2>1. PICK R : pending \in [Directory -> Seq(R)]
    BY DEF DiskInv, Renames
  <2>2. \A d \in Directory : Len(pending[d]) \in Nat
    BY <2>1
  <2> QED
    BY <2>2 DEF All, Upto
<1>2. file \in Survivors
  BY <1>1 DEF DiskInv, Survivors
<1> QED
  BY <1>2, NamesOfOutcomes DEF DiskInv

\* Making, writing and flushing the temporary file.
LEMMA WritesOn ==
  ASSUME NEW p \in Process, NEW j, Alone, job[p] # None,
         UNCHANGED <<file, kept, pending, todo, op, acknowledged, mem, operations>>,
         DOMAIN temp' = Name, job' = [job EXCEPT ![p] = j],
         Making(j, todo[p][1], mem[p], op[p], file, Survivors, temp', unsynced', acknowledged)
  PROVE  Alone'
<1>1. /\ todo[p] # <<>> /\ todo[p] \in Seq(StageName)
      /\ Working(todo[p], job[p], mem[p], op[p], file, Survivors, temp, unsynced, acknowledged)
  BY Writer
<1>2. j # None
  BY BytesAreNotData DEF Making
<1>3. DiskInv' /\ Survivors' = Survivors
  BY DiskStays
<1>4. /\ job'[p] = j /\ DOMAIN job' = Process
      /\ \A q \in Process : q # p => job'[q] = job[q]
  BY DEF Alone
<1>5. Working(todo[p], j, mem[p], op[p], file, Survivors, temp', unsynced', acknowledged)
  BY <1>1, <1>2 DEF Working, NotBegun
<1>6. ProcessInv(p)'
  BY <1>1, <1>3, <1>4, <1>5 DEF ProcessInv
<1>7. DOMAIN todo' = Process /\ DOMAIN op' = Process /\ DOMAIN mem' = Process
  BY DEF Alone
<1> QED
  BY <1>1, <1>3, <1>4, <1>6, <1>7, OneActs

\* The new bytes take their place.
LEMMA Replaces ==
  ASSUME NEW p \in Process, NEW j, Alone, job[p] # None, job[p].at # "flush",
         Replace(job[p].name, job[p].bytes),
         UNCHANGED <<todo, op, acknowledged, mem, operations>>,
         DOMAIN temp' = Name, job' = [job EXCEPT ![p] = j],
         j \in Job, j.name = job[p].name, j.bytes = job[p].bytes, j.at = "flush"
  PROVE  Alone'
<1> PICK n : n = job[p].name
  OBVIOUS
<1> PICK b : b = job[p].bytes
  OBVIOUS
<1> PICK s : s = todo[p]
  OBVIOUS
<1> PICK m : m = mem[p]
  OBVIOUS
<1> PICK o : o = op[p]
  OBVIOUS
<1>1. /\ s # <<>> /\ s \in Seq(StageName)
      /\ Working(s, job[p], m, o, file, Survivors, temp, unsynced, acknowledged)
      /\ Making(job[p], s[1], m, o, file, Survivors, temp, unsynced, acknowledged)
  BY Writer
<1>2. /\ n \in Name /\ b \in Bytes /\ n = NameAt(s[1], o.kind)
      /\ s[1] \in {"device", "key", "append", "create", "put", "list"}
      /\ Fit(n, b, file, Survivors)
      /\ s[1] = "device" => file["device.json"] = None
      /\ s[1] = "create" => file["ledger.json"] = None
      /\ n = "ledger.json" => acknowledged \subseteq Ids(b)
      /\ s[1] = "append" => o.id \in Ids(b)
  BY <1>1 DEF Making, Job
<1>3. /\ DiskInv /\ file \in Survivors /\ DOMAIN file = Name
      /\ \A g \in Survivors : DOMAIN g = Name /\ Good(g)
  BY FilesAreWhole DEF Alone
<1>4. Renames' /\ file' = Outcome(All)' /\ Descend(n, b)
  <2>1. Replace(n, b) /\ Renames /\ file = Outcome(All)
    BY <1>3 DEF DiskInv
  <2> QED
    BY <1>2, <2>1, SurvivorsOfRename
<1>5. \A h \in Survivors' : Good(h)
  BY <1>2, <1>3, <1>4 DEF Fit, Descend
<1>6. ASSUME NEW id, Durable(id, Survivors), n = "ledger.json" => id \in Ids(b)
      PROVE  Durable(id, Survivors')
  <2> SUFFICES ASSUME NEW h \in Survivors' PROVE id \in Ids(h["ledger.json"])
    BY DEF Durable
  <2>1. CASE h \in Survivors
    BY <1>6, <2>1 DEF Durable
  <2>2. ASSUME NEW g \in Survivors, h = [g EXCEPT ![n] = b] PROVE id \in Ids(h["ledger.json"])
    <3>1. id \in Ids(g["ledger.json"]) /\ DOMAIN g = Name /\ "ledger.json" \in Name
      BY <1>3, <1>6, FilesByName DEF Durable
    <3>2. h["ledger.json"] = IF n = "ledger.json" THEN b ELSE g["ledger.json"]
      BY <2>2, <3>1
    <3> QED
      BY <1>6, <3>1, <3>2
  <2> QED
    BY <1>4, <2>1, <2>2 DEF Descend
<1>7. DiskInv'
  BY <1>2, <1>3, <1>4, <1>5, <1>6 DEF DiskInv
<1>8. file'[n] = b /\ b # None /\ \A x \in Name : x # n => file'[x] = file[x]
  BY <1>2, <1>3, BytesAreSomething DEF Replace
<1>9. /\ s[1] \in Stages(s)
      /\ s[1] = "create" => "append" \notin Stages(s) \ {s[1]}
  <2>1. Ordered(s, o.kind)
    BY <1>1 DEF Working
  <2>2. PICK t, to : t = Tail(s) /\ to = Stages(t)
    OBVIOUS
  <2>3. Leaves(s, o.kind, s[1], to)
    BY <1>1, <2>1, <2>2, TailStages
  <2> QED
    BY <2>3 DEF Leaves
<1>10. /\ n = "device.json" => s[1] = "device"
       /\ n = "vault.key" => s[1] = "key"
       /\ n = "ledger.json" => s[1] \in {"append", "create"}
       /\ n = "workspace" => s[1] = "put"
       /\ n = "manifest.json" => s[1] = "list"
  BY <1>2 DEF NameAt, EntryOf
<1>11. Knows(Stages(s), m, o, file', Survivors')
  <2>1. Knows(Stages(s), m, o, file, Survivors)
    BY <1>1 DEF Working
  <2>2. EntryOf(o.kind) \in Name
    BY FilesByName DEF EntryOf
  <2>3. ASSUME Durable(o.id, Survivors), "append" \notin Stages(s) PROVE Durable(o.id, Survivors')
    <3>1. n # "ledger.json"
      <4>1. CASE s[1] = "create"
        <5>1. o.id \in Ids(file["ledger.json"])
          BY <1>3, <2>3 DEF Durable
        <5> QED
          BY <5>1, <4>1, <1>2 DEF Ids
      <4> QED
        BY <4>1, <1>9, <1>10, <2>3
    <3> QED
      BY <3>1, <2>3, <1>6
  <2>4. /\ "device" \notin Stages(s) => file'["device.json"] = file["device.json"]
        /\ "key" \notin Stages(s) => file'["vault.key"] = file["vault.key"]
        /\ file[EntryOf(o.kind)] # None => file'[EntryOf(o.kind)] # None
    BY <1>8, <1>9, <1>10, <2>2, FilesByName
  <2> QED
    BY <2>1, <2>3, <2>4 DEF Knows
<1>12. Prepared(Stages(s) \ {s[1]}, m, o, file')
  <2>1. Prepared(Stages(s) \ {s[1]}, m, o, file)
    BY <1>1 DEF Working, NotBegun
  <2>2. /\ s[1] # "put" => file'["workspace"] = file["workspace"]
        /\ s[1] # "list" => file'["manifest.json"] = file["manifest.json"]
        /\ s[1] \notin {"append", "create"} => file'["ledger.json"] = file["ledger.json"]
    BY <1>8, <1>10, FilesByName
  <2> QED
    BY <2>1, <2>2, <1>9 DEF Prepared, Read
<1>13. \A t, u : Making(j, s[1], m, o, file', Survivors', t, u, acknowledged)
  <2>1. s[1] # "device" => "flush" \in StepsOf(s[1])
    BY DEF StepsOf
  <2> QED
    BY <1>1, <1>8, <2>1 DEF Making, StepsOf
<1>14. j # None
  BY BytesAreNotData
<1>15. Working(s, j, m, o, file', Survivors', temp', unsynced', acknowledged)
  BY <1>1, <1>11, <1>12, <1>13, <1>14 DEF Working, NotBegun
<1>16. /\ job'[p] = j /\ DOMAIN job' = Process
       /\ \A q \in Process : q # p => job'[q] = job[q]
  BY DEF Alone
<1>17. ProcessInv(p)'
  BY <1>1, <1>15, <1>16 DEF ProcessInv
<1>18. DOMAIN todo' = Process /\ DOMAIN op' = Process /\ DOMAIN mem' = Process
  BY DEF Alone
<1>19. file'["device.json"] = file["device.json"] \/ file["device.json"] = None
  BY <1>2, <1>8, <1>10, FilesByName
<1> QED
  BY <1>1, <1>7, <1>16, <1>17, <1>18, <1>19, OneActs

\* What was replaced is there for good, with all else in its directory.
LEMMA Flushes ==
  ASSUME NEW p \in Process, Alone, FlushDirectory(p)
  PROVE  Alone'
<1> PICK n : n = job[p].name
  OBVIOUS
<1> PICK b : b = job[p].bytes
  OBVIOUS
<1> PICK s : s = todo[p]
  OBVIOUS
<1> PICK m : m = mem[p]
  OBVIOUS
<1> PICK o : o = op[p]
  OBVIOUS
<1> PICK d : d = DirectoryOf(n)
  OBVIOUS
<1> PICK to : to = Stages(Tail(s))
  OBVIOUS
<1>1. /\ job[p] # None /\ job[p].at = "flush"
      /\ kept' = [x \in Name |-> IF DirectoryOf(x) \in {d} THEN file[x] ELSE kept[x]]
      /\ pending' = [x \in Directory |-> IF x \in {d} THEN <<>> ELSE pending[x]]
      /\ job' = [job EXCEPT ![p] = None] /\ Proceed(p, m)
      /\ UNCHANGED <<file, unsynced, temp, operations>>
  BY DEF FlushDirectory, FlushedWith, Writing, bounds
<1>2. /\ s # <<>> /\ s \in Seq(StageName) /\ ProcessInv(p)
      /\ Working(s, job[p], m, o, file, Survivors, temp, unsynced, acknowledged)
      /\ Making(job[p], s[1], m, o, file, Survivors, temp, unsynced, acknowledged)
  BY <1>1, Writer
<1>3. /\ n \in Name /\ b \in Bytes /\ n = NameAt(s[1], o.kind) /\ file[n] = b
      /\ s[1] \in {"device", "key", "append", "create", "put", "list"}
      /\ s[1] = "device" => b = m.device
      /\ s[1] = "key" => b = m.key
      /\ s[1] = "append" => o.id \in Ids(b)
  BY <1>1, <1>2 DEF Making, Job
<1>4. /\ DiskInv /\ file \in Survivors /\ DOMAIN file = Name
      /\ \A g \in Survivors : DOMAIN g = Name /\ Good(g)
  BY FilesAreWhole DEF Alone
<1>5. /\ Renames' /\ file' = Outcome(All)'
      /\ \A g \in Survivors' : g \in Survivors /\ Agree(g, file, d)
  <2>1. d \in Directory
    BY <1>3, FilesByName
  <2> QED
    BY <1>1, <1>4, <2>1, SurvivorsOfFlush DEF DiskInv
<1>6. /\ \A id : Durable(id, Survivors) => Durable(id, Survivors')
      /\ n = "ledger.json" => \A id \in Ids(b) : Durable(id, Survivors')
  <2>1. \A id : Durable(id, Survivors) => Durable(id, Survivors')
    BY <1>5 DEF Durable
  <2>2. ASSUME n = "ledger.json", NEW id \in Ids(b), NEW g \in Survivors'
        PROVE  id \in Ids(g["ledger.json"])
    <3>1. g["ledger.json"] = file["ledger.json"]
      BY <1>3, <1>5, <2>2 DEF Agree
    <3> QED
      BY <3>1, <1>3, <2>2
  <2> QED
    BY <2>1, <2>2 DEF Durable
<1>7. /\ Knows(Stages(s), m, o, file, Survivors) /\ Ordered(s, o.kind) /\ DOMAIN m = DOMAIN Blank
      /\ Prepared(Stages(s) \ {s[1]}, m, o, file)
  BY <1>1, <1>2 DEF Working, NotBegun
<1>8. Leaves(s, o.kind, s[1], to)
  <2> PICK t : t = Tail(s) /\ to = Stages(t)
    OBVIOUS
  <2> QED
    BY <1>2, <1>7, TailStages
<1>9. /\ s[1] = "device" => file["device.json"] = b
      /\ s[1] = "key" => file["vault.key"] = b
      /\ s[1] = "put" => file[EntryOf(o.kind)] = b
      /\ s[1] = "append" => n = "ledger.json"
      /\ b # None
  BY <1>3, BytesAreSomething DEF NameAt
<1>10. Knows(to, m, o, file, Survivors')
  <2>1. m.device # None => m.device = file["device.json"]
    BY <1>3, <1>7, <1>8, <1>9 DEF Knows, Leaves
  <2>2. "append" \in to => m.device # None
    BY <1>3, <1>7, <1>8, <1>9 DEF Knows, Leaves
  <2>3. "put" \in to /\ "key" \notin to => m.key = file["vault.key"] /\ m.key # None
    BY <1>3, <1>7, <1>8, <1>9 DEF Knows, Leaves
  <2>4. "list" \in to /\ "put" \notin to => file[EntryOf(o.kind)] # None
    BY <1>3, <1>7, <1>8, <1>9 DEF Knows, Leaves
  <2>5. o.kind \in Signed /\ "append" \notin to => Durable(o.id, Survivors')
    BY <1>3, <1>6, <1>7, <1>8, <1>9 DEF Knows, Leaves
  <2> QED
    BY <2>1, <2>2, <2>3, <2>4, <2>5 DEF Knows
<1>11. Prepared(to, m, o, file)
  BY <1>7, <1>8 DEF Prepared, Leaves
<1>12. job'[p] = None /\ DOMAIN job' = Process /\ \A q \in Process : q # p => job'[q] = job[q]
  BY <1>1 DEF Alone
<1>13. /\ ProcessInv(p)'
       /\ \A q \in Process : q # p => todo'[q] = todo[q] /\ mem'[q] = mem[q]
       /\ DOMAIN todo' = Process /\ DOMAIN op' = Process /\ DOMAIN mem' = Process
       /\ \A id \in acknowledged' : id \in acknowledged \/ Durable(id, Survivors')
  BY <1>1, <1>2, <1>7, <1>10, <1>11, <1>12, Passes DEF Alone
<1>14. DiskInv'
  BY <1>1, <1>4, <1>5, <1>6, <1>13 DEF DiskInv
<1>15. DOMAIN temp' = Name /\ file'["device.json"] = file["device.json"] /\ operations' = operations
  BY <1>1 DEF Alone
<1> QED
  BY <1>2, <1>12, <1>13, <1>14, <1>15, OneActs

\* A failed write, rename or flush: the file's stage fails.
LEMMA Abandons ==
  ASSUME NEW p \in Process, Alone, job[p] # None, Abandon(p)
  PROVE  Alone'
<1>1. todo[p] # <<>> /\ ProcessInv(p)
  BY Writer
<1>2. /\ job' = [job EXCEPT ![p] = None] /\ GiveUp(p)
      /\ UNCHANGED <<file, kept, pending, operations>>
  BY DEF Abandon
<1>3. job'[p] = None /\ DOMAIN job' = Process /\ \A q \in Process : q # p => job'[q] = job[q]
  BY <1>2 DEF Alone
<1>4. /\ ProcessInv(p)'
      /\ \A q \in Process : q # p => todo'[q] = todo[q] /\ mem'[q] = mem[q]
      /\ DOMAIN todo' = Process /\ DOMAIN op' = Process /\ DOMAIN mem' = Process
      /\ acknowledged' = acknowledged
  BY <1>1, <1>2, <1>3, Fails DEF Alone
<1>5. DiskInv'
  BY <1>2, <1>4, DiskStays
<1>6. DOMAIN temp' = Name
  BY DEF Abandon, Alone
<1> QED
  BY <1>1, <1>2, <1>3, <1>4, <1>5, <1>6, OneActs

\* All steps of write_atomic and atomic_write_private.
LEMMA ReplacingAlone ==
  ASSUME NEW p \in Process, Alone, Replacing(p) \/ WriteFails(p)
  PROVE  Alone'
<1> PICK j : j = job[p]
  OBVIOUS
<1> PICK stage : stage = todo[p][1]
  OBVIOUS
<1> DEFINE Making2(j2, t, u) == Making(j2, stage, mem[p], op[p], file, Survivors, t, u, acknowledged)
<1>1. ASSUME j # None
      PROVE  /\ Making2(j, temp, unsynced) /\ j \in Job /\ j.name \in Name /\ DOMAIN temp = Name
             /\ j.at # "install" => stage # "device" \/ j.at = "flush"
             /\ stage = "device" => j.at \in {"install", "flush"}
  <2>1. Making2(j, temp, unsynced)
    BY <1>1, Writer
  <2> QED
    BY <2>1 DEF Making, Job, StepsOf, Alone
<1>2. CASE CreateTemp(p)
  <2>1. /\ j # None /\ j.at = "create"
        /\ temp' = [temp EXCEPT ![j.name] = Empty]
        /\ job' = [job EXCEPT ![p] = [j EXCEPT !.at = "write", !.open = "temp"]]
        /\ UNCHANGED <<file, kept, pending, todo, op, acknowledged, mem, operations, unsynced>>
    BY <1>2 DEF CreateTemp, Writing, control, bounds
  <2> PICK j2 : j2 = [j EXCEPT !.at = "write", !.open = "temp"]
    OBVIOUS
  <2>2. j2 \in Job /\ j2.name = j.name /\ j2.bytes = j.bytes /\ j2.at = "write" /\ j2.open = "temp"
    BY <1>1, <2>1 DEF Job
  <2>3. DOMAIN temp' = Name /\ temp'[j.name] = Empty
    BY <1>1, <2>1
  <2>4. Making2(j2, temp', unsynced')
    BY <1>1, <2>1, <2>2, <2>3 DEF Making, StepsOf
  <2>5. job' = [job EXCEPT ![p] = j2]
    BY <2>1
  <2> QED
    BY <2>1, <2>3, <2>4, <2>5, WritesOn
<1>3. CASE WriteBytes(p)
  <2>1. /\ j # None /\ j.at = "write"
        /\ job' = [job EXCEPT ![p] = [j EXCEPT !.at = "sync"]]
        /\ UNCHANGED <<kept, pending, todo, op, acknowledged, mem, operations>>
    BY <1>3 DEF WriteBytes, Writing, Step, AfterWrite, control, bounds
  <2>2. j.open = "temp" /\ temp[j.name] = Empty
    BY <1>1, <2>1 DEF Making
  <2>3. temp' = [temp EXCEPT ![j.name] = j.bytes] /\ UNCHANGED file
    BY <1>3, <2>2 DEF WriteBytes, Overwrites
  <2> PICK j2 : j2 = [j EXCEPT !.at = "sync"]
    OBVIOUS
  <2>4. j2 \in Job /\ j2.name = j.name /\ j2.bytes = j.bytes /\ j2.at = "sync"
    BY <1>1, <2>1 DEF Job
  <2>5. DOMAIN temp' = Name /\ temp'[j.name] = j.bytes
    BY <1>1, <2>1, <2>3
  <2>6. Making2(j2, temp', unsynced')
    BY <1>1, <2>1, <2>4, <2>5 DEF Making, StepsOf
  <2>7. job' = [job EXCEPT ![p] = j2]
    BY <2>1
  <2> QED
    BY <2>1, <2>3, <2>5, <2>6, <2>7, WritesOn
<1>4. CASE SyncBytes(p)
  <2>1. /\ j # None /\ j.at = "sync"
        /\ job' = [job EXCEPT ![p] = [j EXCEPT !.at = "rename"]]
        /\ unsynced' = unsynced \ {j.name}
        /\ UNCHANGED <<file, kept, pending, todo, op, acknowledged, mem, operations, temp>>
    BY <1>4 DEF SyncBytes, Writing, Step, control, bounds
  <2> PICK j2 : j2 = [j EXCEPT !.at = "rename"]
    OBVIOUS
  <2>4. j2 \in Job /\ j2.name = j.name /\ j2.bytes = j.bytes /\ j2.at = "rename"
    BY <1>1, <2>1 DEF Job
  <2>6. Making2(j2, temp', unsynced')
    BY <1>1, <2>1, <2>4 DEF Making, StepsOf
  <2>7. job' = [job EXCEPT ![p] = j2] /\ DOMAIN temp' = Name
    BY <1>1, <2>1
  <2> QED
    BY <2>1, <2>6, <2>7, WritesOn
<1>5. CASE RenameTemp(p)
  <2>1. /\ j # None /\ j.at = "rename"
        /\ file' = [file EXCEPT ![j.name] = temp[j.name]]
        /\ Renamed(j.name, temp[j.name], j.name \notin unsynced)
        /\ temp' = [temp EXCEPT ![j.name] = None]
        /\ UNCHANGED <<kept, todo, op, acknowledged, mem, operations>>
    BY <1>5 DEF RenameTemp, Writing, control, bounds
  <2>2. temp[j.name] = j.bytes /\ j.name \notin unsynced
    BY <1>1, <2>1 DEF Making
  <2>3. Replace(j.name, j.bytes)
    BY <2>1, <2>2 DEF Replace, Renamed
  <2>4. PICK j2 : /\ job' = [job EXCEPT ![p] = j2] /\ j2 \in Job
                  /\ j2.name = j.name /\ j2.bytes = j.bytes /\ j2.at = "flush"
    <3>1. \A q \in Process : q # p => job[q] = None
      BY <2>1, Writer
    <3>2. PICK j2 : /\ j2 \in Job /\ j2.name = j.name /\ j2.bytes = j.bytes /\ j2.at = "flush"
                    /\ job' = [q \in Process |-> IF q = p THEN j2 ELSE job[q]]
      <4> DEFINE moved(q) == IF job[q] = None \/ job[q].name # j.name THEN job[q]
                             ELSE [job[q] EXCEPT !.open = CASE @ = "temp" -> "target"
                                                            [] @ = "target" -> "gone"
                                                            [] OTHER -> @]
      <4>1. job' = [q \in Process |-> IF q = p THEN [moved(p) EXCEPT !.at = "flush"] ELSE moved(q)]
        BY <1>5 DEF RenameTemp
      <4>2. \A q \in Process : q # p => moved(q) = job[q]
        BY <3>1
      <4>3. moved(p) \in Job /\ moved(p).name = j.name /\ moved(p).bytes = j.bytes
        BY <1>1, <2>1 DEF Job
      <4> HIDE DEF moved
      <4>4. PICK j2 : j2 = [moved(p) EXCEPT !.at = "flush"]
        OBVIOUS
      <4>5. j2 \in Job /\ j2.name = j.name /\ j2.bytes = j.bytes /\ j2.at = "flush"
        BY <4>3, <4>4 DEF Job
      <4> QED
        BY <4>1, <4>2, <4>4, <4>5, ZenonT(30)
    <3>3. DOMAIN job = Process /\ job' = [job EXCEPT ![p] = j2]
      BY <3>2 DEF Alone
    <3> QED
      BY <3>2, <3>3
  <2>5. DOMAIN temp' = Name
    BY <1>1, <2>1
  <2> QED
    BY <2>1, <2>3, <2>4, <2>5, Replaces
<1>6. CASE InstallPrivate(p)
  <2>1. /\ j # None /\ j.at = "install"
        /\ Replace(j.name, j.bytes)
        /\ job' = [job EXCEPT ![p] = [j EXCEPT !.at = "flush"]]
        /\ UNCHANGED <<kept, todo, op, acknowledged, mem, operations, temp>>
    BY <1>6 DEF InstallPrivate, Writing, Step, Replace, control, bounds
  <2> PICK j2 : j2 = [j EXCEPT !.at = "flush"]
    OBVIOUS
  <2>2. j2 \in Job /\ j2.name = j.name /\ j2.bytes = j.bytes /\ j2.at = "flush"
    BY <1>1, <2>1 DEF Job
  <2>3. job' = [job EXCEPT ![p] = j2] /\ DOMAIN temp' = Name
    BY <1>1, <2>1
  <2>4. job[p] # None /\ job[p].at # "flush" /\ Replace(job[p].name, job[p].bytes)
        /\ UNCHANGED <<todo, op, acknowledged, mem, operations>>
    BY <2>1
  <2>5. j2.name = job[p].name /\ j2.bytes = job[p].bytes
    BY <2>2
  <2> QED
    BY <2>2, <2>3, <2>4, <2>5, Replaces
<1>7. CASE FlushDirectory(p)
  BY <1>7, Flushes
<1>8. CASE RenameFails(p) \/ WriteFails(p)
  BY <1>8, Abandons DEF RenameFails, WriteFails, Writing
<1> QED
  BY <1>2, <1>3, <1>4, <1>5, <1>6, <1>7, <1>8 DEF Replacing

----------------------------------------------------------------------------
(* The stages.                                                              *)

\* What a process that reached a stage knows.
LEMMA Reached ==
  ASSUME NEW p \in Process, NEW stage, NEW t, NEW to, Alone, At(p, stage),
         t = Tail(todo[p]), to = Stages(t)
  PROVE  /\ job[p] = None /\ todo[p] # <<>> /\ todo[p][1] = stage /\ todo[p] \in Seq(StageName)
         /\ ProcessInv(p) /\ Ordered(todo[p], op[p].kind)
         /\ op[p].kind \in Kinds /\ op[p].id \in Nat /\ DOMAIN mem[p] = DOMAIN Blank
         /\ Knows(Stages(todo[p]), mem[p], op[p], file, Survivors)
         /\ Prepared(Stages(todo[p]), mem[p], op[p], file)
         /\ Leaves(todo[p], op[p].kind, stage, to)
<1>1. job[p] = None /\ todo[p] # <<>> /\ ProcessInv(p) /\ todo[p] \in Seq(StageName)
  BY DEF At, Alone, ProcessInv
<1>2. todo[p][1] = stage
  BY <1>1 DEF At
<1>3. Working(todo[p], job[p], mem[p], op[p], file, Survivors, temp, unsynced, acknowledged)
  BY <1>1 DEF ProcessInv
<1>4. /\ Ordered(todo[p], op[p].kind)
      /\ op[p].kind \in Kinds /\ op[p].id \in Nat /\ DOMAIN mem[p] = DOMAIN Blank
      /\ Knows(Stages(todo[p]), mem[p], op[p], file, Survivors)
      /\ Prepared(Stages(todo[p]), mem[p], op[p], file)
  BY <1>1, <1>3 DEF Working, NotBegun
<1>5. PICK s, kind : s = todo[p] /\ kind = op[p].kind
  OBVIOUS
<1>6. s \in Seq(StageName) /\ s # <<>> /\ Ordered(s, kind) /\ t = Tail(s) /\ s[1] = stage
  BY <1>1, <1>2, <1>4, <1>5
<1>7. Leaves(s, kind, stage, to)
  BY <1>6, TailStages
<1> QED
  BY <1>1, <1>2, <1>4, <1>5, <1>6, <1>7

\* A stage that writes begins with its replacement.
LEMMA Starts ==
  ASSUME NEW p \in Process, NEW j, NEW m, Alone, todo[p] # <<>>, job[p] = None,
         job' = [job EXCEPT ![p] = j], mem' = [mem EXCEPT ![p] = m],
         UNCHANGED <<file, kept, pending, todo, op, acknowledged, operations, temp, unsynced>>,
         DOMAIN m = DOMAIN Blank,
         Knows(Stages(todo[p]), m, op[p], file, Survivors),
         Prepared(Stages(todo[p]) \ {todo[p][1]}, m, op[p], file),
         Making(j, todo[p][1], m, op[p], file, Survivors, temp, unsynced, acknowledged)
  PROVE  Alone'
<1>1. /\ todo[p] \in Seq(StageName)
      /\ Working(todo[p], job[p], mem[p], op[p], file, Survivors, temp, unsynced, acknowledged)
  BY DEF Alone, ProcessInv
<1>2. j # None
  BY BytesAreNotData DEF Making
<1>3. DiskInv' /\ Survivors' = Survivors
  BY DiskStays
<1>4. /\ job'[p] = j /\ DOMAIN job' = Process
      /\ mem'[p] = m /\ DOMAIN mem' = Process
      /\ \A q \in Process : q # p => job'[q] = job[q] /\ mem'[q] = mem[q]
  BY DEF Alone
<1>5. Working(todo[p], j, m, op[p], file, Survivors, temp, unsynced, acknowledged)
  BY <1>1, <1>2 DEF Working, NotBegun
<1>6. ProcessInv(p)'
  BY <1>1, <1>3, <1>4, <1>5 DEF ProcessInv
<1>7. DOMAIN todo' = Process /\ DOMAIN op' = Process /\ DOMAIN temp' = Name
  BY DEF Alone
<1> QED
  BY <1>3, <1>4, <1>6, <1>7, OneActs

\* A stage that writes nothing is over.
LEMMA PassesAlone ==
  ASSUME NEW p \in Process, NEW m, Alone, todo[p] # <<>>, job[p] = None, Proceed(p, m),
         UNCHANGED <<file, kept, pending, job, operations, temp>>,
         DOMAIN m = DOMAIN Blank,
         Knows(Stages(Tail(todo[p])), m, op[p], file, Survivors),
         Prepared(Stages(Tail(todo[p])), m, op[p], file)
  PROVE  Alone'
<1>1. ProcessInv(p) /\ DOMAIN todo = Process /\ DOMAIN op = Process /\ DOMAIN mem = Process
      /\ DOMAIN job' = Process /\ DOMAIN temp' = Name
  BY DEF Alone
<1>2. Survivors' = Survivors
  BY SameSurvivors
<1>3. /\ Knows(Stages(Tail(todo[p])), m, op[p], file', Survivors')
      /\ Prepared(Stages(Tail(todo[p])), m, op[p], file')
      /\ job'[p] = None
  BY <1>2
<1>4. /\ ProcessInv(p)'
      /\ \A q \in Process : q # p => todo'[q] = todo[q] /\ mem'[q] = mem[q]
      /\ DOMAIN todo' = Process /\ DOMAIN op' = Process /\ DOMAIN mem' = Process
      /\ \A id \in acknowledged' : id \in acknowledged \/ Durable(id, Survivors')
  BY <1>1, <1>3, Passes
<1>5. DiskInv'
  BY <1>2, <1>4, DiskStays
<1> QED
  BY <1>1, <1>4, <1>5, OneActs

\* A stage fails.
LEMMA FailsAlone ==
  ASSUME NEW p \in Process, Alone, todo[p] # <<>>, job[p] = None, GiveUp(p),
         UNCHANGED <<file, kept, pending, job, operations, temp>>
  PROVE  Alone'
<1>1. ProcessInv(p) /\ DOMAIN todo = Process /\ DOMAIN op = Process /\ DOMAIN mem = Process
      /\ DOMAIN job' = Process /\ DOMAIN temp' = Name /\ job'[p] = None
  BY DEF Alone
<1>2. /\ ProcessInv(p)'
      /\ \A q \in Process : q # p => todo'[q] = todo[q] /\ mem'[q] = mem[q]
      /\ DOMAIN todo' = Process /\ DOMAIN op' = Process /\ DOMAIN mem' = Process
      /\ acknowledged' = acknowledged
  BY <1>1, Fails
<1>3. DiskInv'
  BY <1>2, DiskStays
<1> QED
  BY <1>1, <1>2, <1>3, OneActs

\* A stage that neither opens, signs nor stores: what is known stays known.
LEMMA Onward ==
  ASSUME NEW p \in Process, NEW stage, NEW m, NEW t, NEW to, Alone, At(p, stage),
         t = Tail(todo[p]), to = Stages(t), stage \notin {"device", "key", "put", "append"},
         m.device = mem[p].device, m.key = mem[p].key
  PROVE  Knows(to, m, op[p], file, Survivors)
<1>1. /\ Knows(Stages(todo[p]), mem[p], op[p], file, Survivors)
      /\ Leaves(todo[p], op[p].kind, stage, to)
  BY Reached
<1>2. \A x \in {"device", "key", "put", "append", "list"} : x \in to => x \in Stages(todo[p])
  BY <1>1 DEF Leaves
<1>3. \A x \in {"device", "key", "put", "append"} : x \in Stages(todo[p]) => x \in to
  BY <1>1 DEF Leaves
<1> QED
  BY <1>1, <1>2, <1>3 DEF Knows

\* Vault::init, the manifest.
LEMMA ManifestIsRead ==
  ASSUME NEW p \in Process, Alone, ReadManifest(p)
  PROVE  Alone'
<1> PICK m : m = [mem[p] EXCEPT !.listed = Read("manifest.json", file, {})]
  OBVIOUS
<1> PICK t, to : t = Tail(todo[p]) /\ to = Stages(t)
  OBVIOUS
<1>1. /\ At(p, "manifest") /\ UNCHANGED <<file, kept, pending, job, operations, temp>>
      /\ GiveUp(p) \/ Proceed(p, m)
  BY DEF ReadManifest, Reads, NoWrite, disk, bounds, Read, Whole
<1>2. /\ job[p] = None /\ todo[p] # <<>> /\ DOMAIN mem[p] = DOMAIN Blank
      /\ Prepared(Stages(todo[p]), mem[p], op[p], file)
      /\ Leaves(todo[p], op[p].kind, "manifest", to)
  BY <1>1, Reached
<1>3. /\ DOMAIN m = DOMAIN Blank /\ m.listed = Read("manifest.json", file, {})
      /\ m.device = mem[p].device /\ m.key = mem[p].key
      /\ m.state = mem[p].state /\ m.chain = mem[p].chain
  BY <1>2 DEF Blank
<1>4. Knows(to, m, op[p], file, Survivors)
  BY <1>1, <1>3, Onward
<1>5. Prepared(to, m, op[p], file)
  BY <1>2, <1>3 DEF Prepared, Leaves
<1> QED
  BY <1>1, <1>2, <1>3, <1>4, <1>5, PassesAlone, FailsAlone

\* Store::load.
LEMMA WorkspaceIsRead ==
  ASSUME NEW p \in Process, Alone, GetWorkspace(p)
  PROVE  Alone'
<1> PICK m : m = [mem[p] EXCEPT !.state = Read("workspace", file, [holds |-> {}]).holds]
  OBVIOUS
<1> PICK t, to : t = Tail(todo[p]) /\ to = Stages(t)
  OBVIOUS
<1>1. /\ At(p, "get") /\ UNCHANGED <<file, kept, pending, job, operations, temp>>
      /\ GiveUp(p) \/ Proceed(p, m)
  BY DEF GetWorkspace, Reads, NoWrite, disk, bounds, Read, Whole
<1>2. /\ job[p] = None /\ todo[p] # <<>> /\ DOMAIN mem[p] = DOMAIN Blank
      /\ Prepared(Stages(todo[p]), mem[p], op[p], file)
      /\ Leaves(todo[p], op[p].kind, "get", to)
  BY <1>1, Reached
<1>3. /\ DOMAIN m = DOMAIN Blank /\ m.state = Read("workspace", file, [holds |-> {}]).holds
      /\ m.device = mem[p].device /\ m.key = mem[p].key
      /\ m.listed = mem[p].listed /\ m.chain = mem[p].chain
  BY <1>2 DEF Blank
<1>4. Knows(to, m, op[p], file, Survivors)
  BY <1>1, <1>3, Onward
<1>5. Prepared(to, m, op[p], file)
  BY <1>2, <1>3 DEF Prepared, Leaves
<1> QED
  BY <1>1, <1>2, <1>3, <1>4, <1>5, PassesAlone, FailsAlone

\* AuditLedger::load.
LEMMA LedgerIsRead ==
  ASSUME NEW p \in Process, Alone, LoadLedger(p)
  PROVE  Alone'
<1> PICK m : m = [mem[p] EXCEPT !.chain = Read("ledger.json", file, <<>>)]
  OBVIOUS
<1> PICK t, to : t = Tail(todo[p]) /\ to = Stages(t)
  OBVIOUS
<1>1. /\ At(p, "ledger") /\ UNCHANGED <<file, kept, pending, job, operations, temp>>
      /\ GiveUp(p) \/ Proceed(p, m)
  BY DEF LoadLedger, Reads, NoWrite, disk, bounds, Read, Whole
<1>2. /\ job[p] = None /\ todo[p] # <<>> /\ DOMAIN mem[p] = DOMAIN Blank
      /\ Prepared(Stages(todo[p]), mem[p], op[p], file)
      /\ Leaves(todo[p], op[p].kind, "ledger", to)
  BY <1>1, Reached
<1>3. /\ DOMAIN m = DOMAIN Blank /\ m.chain = Read("ledger.json", file, <<>>)
      /\ m.device = mem[p].device /\ m.key = mem[p].key
      /\ m.listed = mem[p].listed /\ m.state = mem[p].state
  BY <1>2 DEF Blank
<1>4. Knows(to, m, op[p], file, Survivors)
  BY <1>1, <1>3, Onward
<1>5. Prepared(to, m, op[p], file)
  BY <1>2, <1>3 DEF Prepared, Leaves
<1> QED
  BY <1>1, <1>2, <1>3, <1>4, <1>5, PassesAlone, FailsAlone

\* Nothing is read, written or remembered: the end of an answered request.
LEMMA AnswerIsTaken ==
  ASSUME NEW p \in Process, Alone, TakeAnswer(p)
  PROVE  Alone'
<1> PICK t, to : t = Tail(todo[p]) /\ to = Stages(t)
  OBVIOUS
<1>1. /\ At(p, "answer") /\ UNCHANGED <<file, kept, pending, job, operations, temp>>
      /\ GiveUp(p) \/ Proceed(p, mem[p])
  BY DEF TakeAnswer, disk, bounds
<1>2. /\ job[p] = None /\ todo[p] # <<>> /\ DOMAIN mem[p] = DOMAIN Blank
      /\ Prepared(Stages(todo[p]), mem[p], op[p], file)
      /\ Leaves(todo[p], op[p].kind, "answer", to)
  BY <1>1, Reached
<1>4. Knows(to, mem[p], op[p], file, Survivors)
  BY <1>1, Onward
<1>5. Prepared(to, mem[p], op[p], file)
  BY <1>2 DEF Prepared, Leaves
<1> QED
  BY <1>1, <1>2, <1>4, <1>5, PassesAlone, FailsAlone

\* Another first stage.
LEMMA FirstReplaced ==
  ASSUME NEW S, NEW s \in Seq(S), NEW e \in S, s # <<>>
  PROVE  [s EXCEPT ![1] = e] \in Seq(S) /\ DOMAIN [s EXCEPT ![1] = e] = DOMAIN s
<1>1. 1 \in 1 .. Len(s)
  OBVIOUS
<1>2. ASSUME NEW i \in 1 .. Len(s) PROVE [s EXCEPT ![i] = e] \in Seq(S)
  OBVIOUS
<1> QED
  BY <1>1, <1>2

\* The request is with the gateway.
LEMMA GatewayIsAsked ==
  ASSUME NEW p \in Process, Alone, AskGateway(p)
  PROVE  Alone'
<1> PICK s : s = todo[p]
  OBVIOUS
<1> PICK r : r = [s EXCEPT ![1] = "answer"]
  OBVIOUS
<1>1. /\ At(p, "ask") /\ todo' = [todo EXCEPT ![p] = r]
      /\ UNCHANGED <<file, kept, pending, unsynced, temp, op, acknowledged, job, mem, operations>>
  BY DEF AskGateway, disk, bounds
<1>2. /\ job[p] = None /\ s # <<>> /\ s[1] = "ask" /\ s \in Seq(StageName)
      /\ Ordered(s, op[p].kind) /\ op[p].kind \in Kinds /\ op[p].id \in Nat
      /\ DOMAIN mem[p] = DOMAIN Blank
      /\ Knows(Stages(s), mem[p], op[p], file, Survivors)
      /\ Prepared(Stages(s), mem[p], op[p], file)
  <2>1. PICK t, to : t = Tail(s) /\ to = Stages(t)
    OBVIOUS
  <2> QED
    BY <1>1, <2>1, Reached
<1>3. /\ Len(s) \in Nat \ {0} /\ DOMAIN s = 1 .. Len(s) /\ 1 \in DOMAIN s
      /\ r \in Seq(StageName) /\ DOMAIN r = DOMAIN s /\ r[1] = "answer"
      /\ \A i \in DOMAIN s : i # 1 => r[i] = s[i]
  <2>1. Len(s) \in Nat /\ Len(s) # 0 /\ DOMAIN s = 1 .. Len(s)
    BY <1>2
  <2>2. 1 \in DOMAIN s
    BY <2>1
  <2>3. r \in Seq(StageName) /\ DOMAIN r = DOMAIN s
    <3>0. "answer" \in StageName
      BY DEF StageName
    <3>1. PICK e : e = "answer" /\ e \in StageName
      BY <3>0
    <3>2. r = [s EXCEPT ![1] = e]
      BY <3>1
    <3> QED
      BY <1>2, <3>1, <3>2, FirstReplaced
  <2>4. r[1] = "answer" /\ \A i \in DOMAIN s : i # 1 => r[i] = s[i]
    BY <2>2
  <2> QED
    BY <2>1, <2>2, <2>3, <2>4
<1>4. \A x : x \notin {"ask", "answer"} => (x \in Stages(s) <=> x \in Stages(r))
  BY <1>2, <1>3 DEF Stages
<1>5. \A x, ys : x # "answer" /\ "answer" \notin ys /\ NoneAfter(s, x, ys) => NoneAfter(r, x, ys)
  <2> SUFFICES ASSUME NEW x, NEW ys, x # "answer", "answer" \notin ys, NoneAfter(s, x, ys),
                      NEW i \in DOMAIN r, NEW j \in DOMAIN r, i < j, r[i] = x
               PROVE  r[j] \notin ys
    BY DEF NoneAfter
  <2>1. i # 1 /\ j # 1
    BY <1>3
  <2> QED
    BY <1>3, <2>1 DEF NoneAfter
<1>6. Ordered(r, op[p].kind)
  <2>1. \A j \in DOMAIN r : r[j] = "device" => j = 1
    BY <1>2, <1>3 DEF Ordered
  <2> QED
    BY <1>2, <1>4, <1>5, <2>1 DEF Ordered
<1>7. /\ Knows(Stages(r), mem[p], op[p], file, Survivors)
      /\ Prepared(Stages(r), mem[p], op[p], file)
  BY <1>2, <1>4 DEF Knows, Prepared
<1>8. DiskInv' /\ Survivors' = Survivors
  BY <1>1, DiskStays
<1>9. Working(r, None, mem[p], op[p], file, Survivors, temp, unsynced, acknowledged)
  BY <1>2, <1>6, <1>7 DEF Working, NotBegun
<1>10. /\ todo'[p] = r /\ DOMAIN todo' = Process /\ r # <<>>
       /\ \A q \in Process : q # p => todo'[q] = todo[q]
  BY <1>1, <1>3 DEF Alone
<1>11. ProcessInv(p)'
  BY <1>1, <1>2, <1>3, <1>8, <1>9, <1>10 DEF ProcessInv
<1>12. DOMAIN op' = Process /\ DOMAIN job' = Process /\ DOMAIN mem' = Process /\ DOMAIN temp' = Name
  BY <1>1 DEF Alone
<1> QED
  BY <1>1, <1>2, <1>8, <1>10, <1>11, <1>12, OneActs

\* A replacement that nothing was done for.
Fresh(n, b, at) == [name |-> n, bytes |-> b, at |-> at, open |-> None]

\* It is a replacement.
LEMMA FreshIsAJob ==
  ASSUME NEW n \in Name, NEW b \in Bytes, NEW at \in {"create", "install"}
  PROVE  /\ Fresh(n, b, at) \in Job
         /\ Fresh(n, b, at).name = n /\ Fresh(n, b, at).bytes = b /\ Fresh(n, b, at).at = at
BY DEF Fresh, Job

\* A replacement starts with bytes that fit.
LEMMA FreshIsMade ==
  ASSUME NEW n \in Name, NEW b \in Bytes, NEW at, NEW j, NEW stage,
         NEW m, NEW o, NEW f, NEW S, NEW t, NEW u, NEW ack,
         j = Fresh(n, b, at), at = IF stage = "device" THEN "install" ELSE "create",
         stage \in {"device", "key", "append", "create", "put", "list"}, n = NameAt(stage, o.kind),
         Fit(n, b, f, S),
         stage = "device" => f["device.json"] = None /\ b = m.device,
         stage = "key" => b = m.key,
         stage = "create" => f["ledger.json"] = None,
         stage = "append" => o.id \in Ids(b),
         n = "ledger.json" => ack \subseteq Ids(b)
  PROVE  Making(j, stage, m, o, f, S, t, u, ack)
<1>1. at \in {"create", "install"} /\ at \in StepsOf(stage)
  BY DEF StepsOf
<1>2. j \in Job /\ j.name = n /\ j.bytes = b /\ j.at = at
  BY <1>1, FreshIsAJob
<1> QED
  BY <1>1, <1>2 DEF Making

\* Store::open.
LEMMA IdentityIsOpened ==
  ASSUME NEW p \in Process, Alone, OpenDevice(p)
  PROVE  Alone'
<1> PICK t, to : t = Tail(todo[p]) /\ to = Stages(t)
  OBVIOUS
<1> PICK s, o : s = todo[p] /\ o = op[p]
  OBVIOUS
<1>1. /\ At(p, "device") /\ UNCHANGED <<file, kept, pending, unsynced, temp, operations>>
  BY DEF OpenDevice, disk, bounds
<1>2. /\ job[p] = None /\ s # <<>> /\ s[1] = "device" /\ DOMAIN mem[p] = DOMAIN Blank
      /\ Knows(Stages(s), mem[p], o, file, Survivors)
      /\ Prepared(Stages(s), mem[p], o, file)
      /\ Leaves(s, o.kind, "device", to)
  BY <1>1, Reached
<1>3. /\ file \in Survivors /\ Good(file)
      /\ \A g \in Survivors : DOMAIN g = Name /\ Good(g)
  BY FilesAreWhole DEF Alone
<1>4. ASSUME NEW m, m = [mem[p] EXCEPT !.device = file["device.json"]], Whole("device.json"),
             Proceed(p, m), UNCHANGED job
      PROVE  Alone'
  <2>1. /\ DOMAIN m = DOMAIN Blank /\ m.device = file["device.json"] /\ m.device # None
        /\ m.key = mem[p].key /\ m.listed = mem[p].listed
        /\ m.state = mem[p].state /\ m.chain = mem[p].chain
    BY <1>2, <1>4 DEF Blank, Whole
  <2>2. Knows(to, m, o, file, Survivors)
    BY <1>2, <2>1 DEF Knows, Leaves
  <2>3. Prepared(to, m, o, file)
    BY <1>2, <2>1 DEF Prepared, Leaves
  <2> QED
    BY <1>1, <1>2, <1>4, <2>1, <2>2, <2>3, PassesAlone
<1>5. ASSUME NEW d \in Device, NEW m, m = [mem[p] EXCEPT !.device = d], file["device.json"] = None,
             StartPrivate(p, "device.json", d, m)
      PROVE  Alone'
  <2>1. /\ DOMAIN m = DOMAIN Blank /\ m.device = d
        /\ m.key = mem[p].key /\ m.listed = mem[p].listed
        /\ m.state = mem[p].state /\ m.chain = mem[p].chain
    BY <1>2, <1>5 DEF Blank
  <2>2. Knows(Stages(s), m, o, file, Survivors)
    BY <1>2, <2>1 DEF Knows, Leaves
  <2>3. Prepared(Stages(s) \ {s[1]}, m, o, file)
    BY <1>2, <2>1 DEF Prepared
  <2>4. Fit("device.json", d, file, Survivors)
    BY <1>3, <1>5, FitDevice
  <2> PICK j : j = Fresh("device.json", d, "install")
    OBVIOUS
  <2>5. Making(j, s[1], m, o, file, Survivors, temp, unsynced, acknowledged)
    <3>1. d \in Bytes /\ "device.json" \in Name /\ "device.json" = NameAt("device", o.kind)
      BY FilesByName DEF Bytes, NameAt
    <3> QED
      BY <1>2, <1>5, <2>1, <2>4, <3>1, FreshIsMade
  <2>6. job' = [job EXCEPT ![p] = j] /\ mem' = [mem EXCEPT ![p] = m] /\ UNCHANGED <<todo, op, acknowledged>>
    BY <1>5 DEF StartPrivate, Fresh, control
  <2> QED
    BY <1>1, <1>2, <2>1, <2>2, <2>3, <2>5, <2>6, Starts
<1>6. ASSUME GiveUp(p), UNCHANGED job PROVE Alone'
  BY <1>1, <1>2, <1>6, FailsAlone
<1> QED
  BY <1>4, <1>5, <1>6 DEF OpenDevice, Unused

\* Vault::init, the key.
LEMMA KeyIsRead ==
  ASSUME NEW p \in Process, Alone, InitKey(p)
  PROVE  Alone'
<1> PICK t, to : t = Tail(todo[p]) /\ to = Stages(t)
  OBVIOUS
<1> PICK s, o : s = todo[p] /\ o = op[p]
  OBVIOUS
<1>1. /\ At(p, "key") /\ UNCHANGED <<file, kept, pending, unsynced, temp, operations>>
  BY DEF InitKey, bounds
<1>2. /\ job[p] = None /\ s # <<>> /\ s[1] = "key" /\ DOMAIN mem[p] = DOMAIN Blank
      /\ Knows(Stages(s), mem[p], o, file, Survivors)
      /\ Prepared(Stages(s), mem[p], o, file)
      /\ Leaves(s, o.kind, "key", to)
  BY <1>1, Reached
<1>3. /\ file \in Survivors /\ Good(file)
      /\ \A g \in Survivors : DOMAIN g = Name /\ Good(g)
  BY FilesAreWhole DEF Alone
<1>4. ASSUME NEW m, m = [mem[p] EXCEPT !.key = file["vault.key"]], Whole("vault.key"),
             Proceed(p, m), UNCHANGED job
      PROVE  Alone'
  <2>1. /\ DOMAIN m = DOMAIN Blank /\ m.key = file["vault.key"] /\ m.key # None
        /\ m.device = mem[p].device /\ m.listed = mem[p].listed
        /\ m.state = mem[p].state /\ m.chain = mem[p].chain
    BY <1>2, <1>4 DEF Blank, Whole
  <2>2. Knows(to, m, o, file, Survivors)
    BY <1>2, <2>1 DEF Knows, Leaves
  <2>3. Prepared(to, m, o, file)
    BY <1>2, <2>1 DEF Prepared, Leaves
  <2> QED
    BY <1>1, <1>2, <1>4, <2>1, <2>2, <2>3, PassesAlone
<1>5. ASSUME NEW k \in VaultKey, NEW m, m = [mem[p] EXCEPT !.key = k], file["vault.key"] = None,
             Start(p, "vault.key", k, m)
      PROVE  Alone'
  <2>1. /\ DOMAIN m = DOMAIN Blank /\ m.key = k
        /\ m.device = mem[p].device /\ m.listed = mem[p].listed
        /\ m.state = mem[p].state /\ m.chain = mem[p].chain
    BY <1>2, <1>5 DEF Blank
  <2>2. Knows(Stages(s), m, o, file, Survivors)
    BY <1>2, <2>1 DEF Knows, Leaves
  <2>3. Prepared(Stages(s) \ {s[1]}, m, o, file)
    BY <1>2, <2>1 DEF Prepared
  <2>4. Fit("vault.key", k, file, Survivors)
    BY <1>3, <1>5, FitKey
  <2> PICK j : j = Fresh("vault.key", k, "create")
    OBVIOUS
  <2>5. Making(j, s[1], m, o, file, Survivors, temp, unsynced, acknowledged)
    <3>1. k \in Bytes /\ "vault.key" \in Name /\ "vault.key" = NameAt("key", o.kind)
      BY FilesByName DEF Bytes, NameAt
    <3> QED
      BY <1>2, <1>5, <2>1, <2>4, <3>1, FreshIsMade
  <2>6. job' = [job EXCEPT ![p] = j] /\ mem' = [mem EXCEPT ![p] = m] /\ UNCHANGED <<todo, op, acknowledged>>
    BY <1>5 DEF Start, Fresh, control
  <2> QED
    BY <1>1, <1>2, <2>1, <2>2, <2>3, <2>5, <2>6, Starts
<1>6. ASSUME GiveUp(p), UNCHANGED job PROVE Alone'
  BY <1>1, <1>2, <1>6, FailsAlone
<1> QED
  BY <1>4, <1>5, <1>6 DEF InitKey, Unused

\* An event more on a chain that verifies.
LEMMA ExtendedVerifies ==
  ASSUME NEW events \in Seq(Event), NEW d \in Device, NEW id \in Nat, NEW more,
         ChainVerifies(events, d), more = Extended(events, d, id)
  PROVE  /\ more \in Seq(Event) /\ ChainVerifies(more, d)
         /\ Ids(events) \subseteq Ids(more) /\ id \in Ids(more)
<1> PICK l \in Nat : l = Len(events) /\ DOMAIN events = 1 .. l
  OBVIOUS
<1>1. \A i \in 1 .. l : events[i] \in Event
  OBVIOUS
<1> PICK e : e = [by |-> d, id |-> id, after |-> IF events = <<>> THEN 0 ELSE Last(events).id]
  OBVIOUS
<1>2. events = <<>> <=> l = 0
  OBVIOUS
<1>3. l # 0 => Last(events) = events[l] /\ l \in 1 .. l
  BY DEF Last
<1>4. e \in Event /\ e.by = d /\ e.id = id /\ e.after = IF l = 0 THEN 0 ELSE events[l].id
  <2>1. l # 0 => events[l].id \in Nat
    BY <1>1, <1>3 DEF Event
  <2> QED
    BY <1>2, <1>3, <2>1 DEF Event
<1>5. /\ more \in Seq(Event) /\ DOMAIN more = 1 .. l + 1 /\ more[l + 1] = e
      /\ \A i \in 1 .. l : more[i] = events[i]
  <2>1. more = Append(events, e)
    BY DEF Extended
  <2> QED
    BY <1>4, <2>1
<1>6. \A i \in 1 .. l + 1 : more[i].by = d
  BY <1>4, <1>5 DEF ChainVerifies
<1>7. LinksHold(more)
  <2> SUFFICES ASSUME NEW i \in 1 .. l + 1
               PROVE  more[i].after = IF i = 1 THEN 0 ELSE more[i - 1].id
    BY <1>5 DEF LinksHold
  <2>1. CASE i = l + 1
    <3>1. i # 1 => i - 1 = l /\ l \in 1 .. l /\ l # 0
      BY <2>1
    <3>2. i = 1 => l = 0
      BY <2>1
    <3> QED
      BY <2>1, <3>1, <3>2, <1>4, <1>5
  <2>2. CASE i # l + 1
    <3>1. i \in 1 .. l /\ (i # 1 => i - 1 \in 1 .. l)
      BY <2>2
    <3>2. events[i].after = IF i = 1 THEN 0 ELSE events[i - 1].id
      BY <3>1 DEF ChainVerifies, LinksHold
    <3> QED
      BY <3>1, <3>2, <1>5
  <2> QED
    BY <2>1, <2>2
<1>8. Ids(events) = {events[i].id : i \in 1 .. l} /\ Ids(more) = {more[i].id : i \in 1 .. l + 1}
  BY <1>5, BytesAreNotData DEF Ids
<1>9. \A i \in 1 .. l : i \in 1 .. l + 1
  OBVIOUS
<1>10. l + 1 \in 1 .. l + 1
  OBVIOUS
<1> QED
  BY <1>4, <1>5, <1>6, <1>7, <1>8, <1>9, <1>10 DEF ChainVerifies

\* The empty ledger verifies under every identity.
LEMMA ChainOfNothing ==
  ASSUME NEW d
  PROVE  <<>> \in Seq(Event) /\ ChainVerifies(<<>>, d) /\ Ids(<<>>) = {}
<1>1. <<>> \in Seq(Event) /\ DOMAIN <<>> = {}
  OBVIOUS
<1> QED
  BY <1>1 DEF ChainVerifies, LinksHold, Ids

\* No acknowledged event is on a ledger that is not there.
LEMMA AcknowledgedOnLedger ==
  ASSUME Alone
  PROVE  acknowledged \subseteq Ids(file["ledger.json"])
BY FilesAreWhole DEF Alone, DiskInv, Durable

\* cmd_init.
LEMMA LedgerIsCreated ==
  ASSUME NEW p \in Process, Alone, CreateLedger(p)
  PROVE  Alone'
<1> PICK t, to : t = Tail(todo[p]) /\ to = Stages(t)
  OBVIOUS
<1> PICK s, o, m : s = todo[p] /\ o = op[p] /\ m = mem[p]
  OBVIOUS
<1>1. /\ At(p, "create") /\ UNCHANGED <<file, kept, pending, unsynced, temp, operations>>
      /\ \/ file["ledger.json"] = None /\ Start(p, "ledger.json", <<>>, m)
         \/ Proceed(p, m) /\ UNCHANGED job
  BY DEF CreateLedger, disk, bounds
<1>2. /\ job[p] = None /\ s # <<>> /\ s[1] = "create" /\ DOMAIN m = DOMAIN Blank
      /\ Knows(Stages(s), m, o, file, Survivors)
      /\ Prepared(Stages(s), m, o, file)
      /\ Leaves(s, o.kind, "create", to)
  BY <1>1, Reached
<1>3. /\ Good(file) /\ \A g \in Survivors : DOMAIN g = Name /\ Good(g)
  BY FilesAreWhole DEF Alone
<1>4. CASE file["ledger.json"] = None /\ Start(p, "ledger.json", <<>>, m)
  <2> PICK events : events = <<>>
    OBVIOUS
  <2>1. events \in Seq(Event) /\ ChainVerifies(events, file["device.json"]) /\ Ids(events) = {}
    BY ChainOfNothing
  <2>2. Ids(file["ledger.json"]) = {}
    BY <1>4 DEF Ids
  <2>3. Fit("ledger.json", events, file, Survivors)
    BY <1>3, <2>1, <2>2, FitLedger
  <2>4. Prepared(Stages(s) \ {s[1]}, m, o, file)
    BY <1>2 DEF Prepared
  <2> PICK j : j = Fresh("ledger.json", events, "create")
    OBVIOUS
  <2>5. Making(j, s[1], m, o, file, Survivors, temp, unsynced, acknowledged)
    <3>1. events \in Bytes /\ "ledger.json" \in Name /\ "ledger.json" = NameAt("create", o.kind)
      BY <2>1, FilesByName DEF Bytes, NameAt
    <3>2. acknowledged \subseteq Ids(events)
      BY <2>2, AcknowledgedOnLedger
    <3> QED
      BY <1>2, <1>4, <2>3, <3>1, <3>2, FreshIsMade
  <2>6. job' = [job EXCEPT ![p] = j] /\ mem' = [mem EXCEPT ![p] = m] /\ UNCHANGED <<todo, op, acknowledged>>
    BY <1>4 DEF Start, Fresh, control
  <2> QED
    BY <1>1, <1>2, <2>4, <2>5, <2>6, Starts
<1>5. CASE Proceed(p, m) /\ UNCHANGED job
  <2>1. Knows(to, m, o, file, Survivors)
    BY <1>1, Onward
  <2>2. Prepared(to, m, o, file)
    BY <1>2 DEF Prepared, Leaves
  <2> QED
    BY <1>1, <1>2, <1>5, <2>1, <2>2, PassesAlone
<1> QED
  BY <1>1, <1>4, <1>5

\* AuditLedger::append and save.
LEMMA EventIsAppended ==
  ASSUME NEW p \in Process, Alone, AppendEvent(p)
  PROVE  Alone'
<1> PICK t, to : t = Tail(todo[p]) /\ to = Stages(t)
  OBVIOUS
<1> PICK s, o : s = todo[p] /\ o = op[p]
  OBVIOUS
<1> PICK events : events = Extended(mem[p].chain, mem[p].device, o.id)
  OBVIOUS
<1> PICK m : m = [mem[p] EXCEPT !.chain = events]
  OBVIOUS
<1>1. /\ At(p, "append") /\ UNCHANGED <<file, kept, pending, unsynced, temp, operations>>
      /\ Start(p, "ledger.json", events, m)
  BY DEF AppendEvent, disk, bounds
<1>2. /\ job[p] = None /\ s # <<>> /\ s[1] = "append" /\ DOMAIN mem[p] = DOMAIN Blank
      /\ Knows(Stages(s), mem[p], o, file, Survivors)
      /\ Prepared(Stages(s), mem[p], o, file)
      /\ Leaves(s, o.kind, "append", to) /\ o.id \in Nat
  BY <1>1, Reached
<1>3. /\ Good(file) /\ \A g \in Survivors : DOMAIN g = Name /\ Good(g)
  BY FilesAreWhole DEF Alone
<1>4. /\ DOMAIN m = DOMAIN Blank /\ m.device = mem[p].device
      /\ m.key = mem[p].key /\ m.listed = mem[p].listed
      /\ m.state = mem[p].state
  BY <1>2 DEF Blank
<1>5. Knows(Stages(s), m, o, file, Survivors)
  BY <1>2, <1>4 DEF Knows
<1>6. Prepared(Stages(s) \ {s[1]}, m, o, file)
  BY <1>2, <1>4 DEF Prepared
<1>7. /\ mem[p].device = file["device.json"] /\ mem[p].device \in Device
      /\ mem[p].chain = Read("ledger.json", file, <<>>)
  <2>1. "append" \in Stages(s) /\ "device" \notin Stages(s) /\ "ledger" \notin Stages(s)
    BY <1>2 DEF Leaves
  <2>2. mem[p].device # None /\ mem[p].device = file["device.json"]
    BY <1>2, <2>1 DEF Knows
  <2>3. mem[p].device \in Device
    BY <1>3, <2>2, FilesByName DEF Good
  <2> QED
    BY <1>2, <2>1, <2>2, <2>3 DEF Prepared
<1>8. /\ mem[p].chain \in Seq(Event) /\ ChainVerifies(mem[p].chain, mem[p].device)
      /\ Ids(file["ledger.json"]) \subseteq Ids(mem[p].chain)
  <2>1. CASE file["ledger.json"] = None
    BY <1>7, <2>1, ChainOfNothing DEF Read, Ids
  <2>2. CASE file["ledger.json"] # None
    BY <1>3, <1>7, <2>2, FilesByName DEF Good, Read
  <2> QED
    BY <2>1, <2>2
<1>9. /\ events \in Seq(Event) /\ ChainVerifies(events, file["device.json"])
      /\ Ids(file["ledger.json"]) \subseteq Ids(events) /\ o.id \in Ids(events)
  <2>1. /\ events \in Seq(Event) /\ ChainVerifies(events, mem[p].device)
        /\ Ids(mem[p].chain) \subseteq Ids(events) /\ o.id \in Ids(events)
    BY <1>2, <1>7, <1>8, ExtendedVerifies
  <2> QED
    BY <1>7, <1>8, <2>1
<1>10. Fit("ledger.json", events, file, Survivors)
  BY <1>3, <1>9, FitLedger
<1> PICK j : j = Fresh("ledger.json", events, "create")
  OBVIOUS
<1>11. Making(j, s[1], m, o, file, Survivors, temp, unsynced, acknowledged)
  <2>1. events \in Bytes /\ "ledger.json" \in Name /\ "ledger.json" = NameAt("append", o.kind)
    BY <1>9, FilesByName DEF Bytes, NameAt
  <2>2. acknowledged \subseteq Ids(events)
    BY <1>9, AcknowledgedOnLedger
  <2> QED
    BY <1>2, <1>9, <1>10, <2>1, <2>2, FreshIsMade
<1>12. job' = [job EXCEPT ![p] = j] /\ mem' = [mem EXCEPT ![p] = m] /\ UNCHANGED <<todo, op, acknowledged>>
  BY <1>1 DEF Start, Fresh, control
<1> QED
  BY <1>1, <1>2, <1>4, <1>5, <1>6, <1>11, <1>12, Starts

\* Vault::put, the blob.
LEMMA BlobIsPut ==
  ASSUME NEW p \in Process, Alone, PutBlob(p)
  PROVE  Alone'
<1> PICK t, to : t = Tail(todo[p]) /\ to = Stages(t)
  OBVIOUS
<1> PICK s, o, m : s = todo[p] /\ o = op[p] /\ m = mem[p]
  OBVIOUS
<1> PICK e : e = EntryOf(o.kind)
  OBVIOUS
<1> PICK holds : holds = IF e = "workspace" THEN m.state \cup {o.id} ELSE {}
  OBVIOUS
<1> PICK b : b = [under |-> m.key, holds |-> holds]
  OBVIOUS
<1>1. /\ At(p, "put") /\ UNCHANGED <<file, kept, pending, unsynced, temp, operations>>
      /\ Start(p, e, b, m)
  BY DEF PutBlob, disk, bounds
<1>2. /\ job[p] = None /\ s # <<>> /\ s[1] = "put" /\ DOMAIN m = DOMAIN Blank
      /\ Knows(Stages(s), m, o, file, Survivors)
      /\ Prepared(Stages(s), m, o, file)
      /\ Leaves(s, o.kind, "put", to) /\ o.id \in Nat /\ Ordered(s, o.kind)
  BY <1>1, Reached
<1>3. /\ Good(file) /\ \A g \in Survivors : DOMAIN g = Name /\ Good(g)
  BY FilesAreWhole DEF Alone
<1>6. Prepared(Stages(s) \ {s[1]}, m, o, file)
  BY <1>2 DEF Prepared
<1>7. m.key = file["vault.key"] /\ m.key \in VaultKey
  <2>1. "put" \in Stages(s) /\ "key" \notin Stages(s)
    BY <1>2 DEF Leaves
  <2>2. m.key # None /\ m.key = file["vault.key"]
    BY <1>2, <2>1 DEF Knows
  <2> QED
    BY <1>3, <2>2, FilesByName DEF Good
<1>8. Fit(e, b, file, Survivors) /\ b \in Blob /\ e \in Entry
  <2>1. CASE e = "workspace"
    <3>1. "put" \in Stages(s) /\ "append" \notin Stages(s) /\ "get" \notin Stages(s)
      BY <1>2, <2>1 DEF Leaves
    <3>2. o.kind \in Signed /\ Durable(o.id, Survivors)
      BY <1>2, <3>1 DEF Ordered, Knows
    <3>3. m.state = Read("workspace", file, [holds |-> {}]).holds
      BY <1>2, <2>1, <3>1 DEF Prepared
    <3>4. m.state = IF file["workspace"] = None THEN {} ELSE file["workspace"].holds
      BY <3>3 DEF Read
    <3>5. m.state \subseteq Nat
      <4>1. CASE file["workspace"] = None
        BY <3>4, <4>1
      <4>2. CASE file["workspace"] # None
        <5>1. file["workspace"] \in Blob
          BY <1>3, <4>2, FilesByName DEF Good
        <5> QED
          BY <3>4, <4>2, <5>1 DEF Blob
      <4> QED
        BY <4>1, <4>2
    <3>6. /\ holds = (IF file["workspace"] = None THEN {} ELSE file["workspace"].holds) \cup {o.id}
          /\ holds \subseteq Nat /\ b = [under |-> file["vault.key"], holds |-> holds]
      BY <1>2, <1>7, <2>1, <3>4, <3>5
    <3>7. Fit("workspace", b, file, Survivors)
      BY <1>2, <1>3, <1>7, <3>2, <3>6, FitWorkspace
    <3> QED
      BY <2>1, <3>6, <3>7, <1>7, FilesByName DEF Blob
  <2>2. CASE e # "workspace"
    <3>1. e = "venture_profile" /\ b = [under |-> file["vault.key"], holds |-> {}]
      BY <1>7, <2>2 DEF EntryOf
    <3>2. Fit("venture_profile", b, file, Survivors)
      BY <1>3, <1>7, <3>1, FitProfile
    <3> QED
      BY <3>1, <3>2, <1>7, FilesByName DEF Blob
  <2> QED
    BY <2>1, <2>2
<1> PICK j : j = Fresh(e, b, "create")
  OBVIOUS
<1>9. Making(j, s[1], m, o, file, Survivors, temp, unsynced, acknowledged)
  <2>1. b \in Bytes /\ e \in Name /\ e = NameAt("put", o.kind) /\ e # "ledger.json"
    BY <1>8, FilesByName DEF Bytes, NameAt
  <2> QED
    BY <1>2, <1>8, <2>1, FreshIsMade, ZenonT(30)
<1>10. job' = [job EXCEPT ![p] = j] /\ mem' = [mem EXCEPT ![p] = m] /\ UNCHANGED <<todo, op, acknowledged>>
  BY <1>1 DEF Start, Fresh, control
<1> QED
  BY <1>1, <1>2, <1>6, <1>9, <1>10, Starts

\* Vault::put, the manifest.
LEMMA EntryIsListed ==
  ASSUME NEW p \in Process, Alone, ListEntry(p)
  PROVE  Alone'
<1> PICK t, to : t = Tail(todo[p]) /\ to = Stages(t)
  OBVIOUS
<1> PICK s, o : s = todo[p] /\ o = op[p]
  OBVIOUS
<1> PICK e : e = EntryOf(o.kind)
  OBVIOUS
<1> PICK names : names = mem[p].listed \cup {e}
  OBVIOUS
<1> PICK m : m = [mem[p] EXCEPT !.listed = names]
  OBVIOUS
<1>1. /\ At(p, "list") /\ UNCHANGED <<file, kept, pending, unsynced, temp, operations>>
      /\ \/ Proceed(p, mem[p]) /\ UNCHANGED job
         \/ Start(p, "manifest.json", names, m)
  BY DEF ListEntry, disk, bounds
<1>2. /\ job[p] = None /\ s # <<>> /\ s[1] = "list" /\ DOMAIN mem[p] = DOMAIN Blank
      /\ Knows(Stages(s), mem[p], o, file, Survivors)
      /\ Prepared(Stages(s), mem[p], o, file)
      /\ Leaves(s, o.kind, "list", to)
  BY <1>1, Reached
<1>3. /\ file \in Survivors /\ Good(file) /\ \A g \in Survivors : DOMAIN g = Name /\ Good(g)
  BY FilesAreWhole DEF Alone
<1>4. CASE Proceed(p, mem[p]) /\ UNCHANGED job
  <2>1. Knows(to, mem[p], o, file, Survivors)
    BY <1>1, Onward
  <2>2. Prepared(to, mem[p], o, file)
    BY <1>2 DEF Prepared, Leaves
  <2> QED
    BY <1>1, <1>2, <1>4, <2>1, <2>2, PassesAlone
<1>5. CASE Start(p, "manifest.json", names, m)
  <2>1. /\ DOMAIN m = DOMAIN Blank /\ m.device = mem[p].device
        /\ m.key = mem[p].key /\ m.chain = mem[p].chain
        /\ m.state = mem[p].state
    BY <1>2 DEF Blank
  <2>2. Knows(Stages(s), m, o, file, Survivors)
    BY <1>2, <2>1 DEF Knows
  <2>3. Prepared(Stages(s) \ {s[1]}, m, o, file)
    BY <1>2, <2>1 DEF Prepared
  <2>4. "list" \in Stages(s) /\ "manifest" \notin Stages(s) /\ "put" \notin Stages(s)
    BY <1>2 DEF Leaves
  <2>5. /\ names = (IF file["manifest.json"] = None THEN {} ELSE file["manifest.json"]) \cup {e}
        /\ file[e] # None /\ e \in Entry
    BY <1>2, <2>4, FilesByName DEF Prepared, Knows, Read, EntryOf
  <2>6. Fit("manifest.json", names, file, Survivors) /\ names \in SUBSET Entry
    BY <1>3, <2>5, FitManifest, ZenonT(30)
  <2> PICK j : j = Fresh("manifest.json", names, "create")
    OBVIOUS
  <2>7. Making(j, s[1], m, o, file, Survivors, temp, unsynced, acknowledged)
    <3>1. names \in Bytes /\ "manifest.json" \in Name /\ "manifest.json" = NameAt("list", o.kind)
      BY <2>6, FilesByName DEF Bytes, NameAt
    <3> QED
      BY <1>2, <2>6, <3>1, FreshIsMade
  <2>8. job' = [job EXCEPT ![p] = j] /\ mem' = [mem EXCEPT ![p] = m] /\ UNCHANGED <<todo, op, acknowledged>>
    BY <1>5 DEF Start, Fresh, control
  <2> QED
    BY <1>1, <1>2, <2>1, <2>2, <2>3, <2>7, <2>8, Starts
<1> QED
  BY <1>1, <1>4, <1>5

\* All stages.
LEMMA StageAlone ==
  ASSUME NEW p \in Process, Alone, Stage(p)
  PROVE  Alone'
BY IdentityIsOpened, KeyIsRead, ManifestIsRead, WorkspaceIsRead, LedgerIsRead, EventIsAppended,
   LedgerIsCreated, BlobIsPut, EntryIsListed, GatewayIsAsked, AnswerIsTaken DEF Stage

----------------------------------------------------------------------------
(* The programs.                                                            *)

\* The stages of two programs, one after the other.
LEMMA StagesOfConcatenation ==
  ASSUME NEW s \in Seq(StageName), NEW t \in Seq(StageName), NEW r, r = s \o t
  PROVE  /\ r \in Seq(StageName)
         /\ \A x : x \in Stages(r) <=> x \in Stages(s) \/ x \in Stages(t)
         /\ \A x, ys : x \notin Stages(s) /\ NoneAfter(t, x, ys) => NoneAfter(r, x, ys)
<1> PICK k \in Nat : k = Len(s) /\ DOMAIN s = 1 .. k
  OBVIOUS
<1> PICK l \in Nat : l = Len(t) /\ DOMAIN t = 1 .. l
  OBVIOUS
<1>1. r \in Seq(StageName) /\ DOMAIN r = 1 .. k + l
  OBVIOUS
<1>2. \A i \in 1 .. k + l : r[i] = IF i <= k THEN s[i] ELSE t[i - k]
  OBVIOUS
<1>3. ASSUME NEW x PROVE x \in Stages(r) <=> x \in Stages(s) \/ x \in Stages(t)
  <2>1. ASSUME NEW i \in 1 .. k + l, r[i] = x PROVE x \in Stages(s) \/ x \in Stages(t)
    <3>1. i <= k => i \in 1 .. k
      OBVIOUS
    <3>2. ~(i <= k) => i - k \in 1 .. l
      OBVIOUS
    <3> QED
      BY <1>2, <2>1, <3>1, <3>2 DEF Stages
  <2>2. ASSUME NEW i \in 1 .. k, s[i] = x PROVE x \in Stages(r)
    <3>1. i \in 1 .. k + l /\ i <= k
      OBVIOUS
    <3> QED
      BY <1>1, <1>2, <2>2, <3>1 DEF Stages
  <2>3. ASSUME NEW i \in 1 .. l, t[i] = x PROVE x \in Stages(r)
    <3>1. i + k \in 1 .. k + l /\ ~(i + k <= k) /\ i + k - k = i
      OBVIOUS
    <3>2. r[i + k] = x
      BY <1>2, <2>3, <3>1
    <3> QED
      BY <1>1, <3>1, <3>2 DEF Stages
  <2> QED
    BY <1>1, <2>1, <2>2, <2>3 DEF Stages
<1>4. ASSUME NEW x, NEW ys, x \notin Stages(s), NoneAfter(t, x, ys),
             NEW i \in 1 .. k + l, NEW j \in 1 .. k + l, i < j, r[i] = x
      PROVE  r[j] \notin ys
  <2>1. ~(i <= k)
    <3>1. i <= k => i \in 1 .. k
      OBVIOUS
    <3> QED
      BY <1>2, <1>4, <3>1 DEF Stages
  <2>2. i - k \in 1 .. l /\ j - k \in 1 .. l /\ i - k < j - k /\ ~(j <= k)
    BY <1>4, <2>1
  <2>3. t[i - k] = x /\ r[j] = t[j - k]
    BY <1>2, <1>4, <2>1, <2>2
  <2> QED
    BY <1>4, <2>2, <2>3 DEF NoneAfter
<1> QED
  BY <1>1, <1>3, <1>4, ZenonT(30) DEF NoneAfter

\* Stages that need no others before or after them.
Loading == {"key", "manifest", "get", "ask"}

\* Reading first leaves the order of the rest alone.
LEMMA LoadingFirst ==
  ASSUME NEW s \in Seq(StageName), NEW t \in Seq(StageName), NEW kind, NEW r, r = s \o t,
         \A x \in Stages(s) : x \in Loading,
         Ordered(t, kind), "device" \notin Stages(t)
  PROVE  /\ r \in Seq(StageName) /\ Ordered(r, kind)
         /\ \A x : x \in Stages(r) <=> x \in Stages(s) \/ x \in Stages(t)
         /\ "device" \notin Stages(r)
<1>1. /\ r \in Seq(StageName)
      /\ \A x : x \in Stages(r) <=> x \in Stages(s) \/ x \in Stages(t)
      /\ \A x, ys : x \notin Stages(s) /\ NoneAfter(t, x, ys) => NoneAfter(r, x, ys)
  BY StagesOfConcatenation
<1>2. \A x \in {"device", "put", "list", "append", "create"} : x \notin Stages(s)
  BY DEF Loading
<1>3. "device" \notin Stages(r)
  BY <1>1, <1>2
<1>4. \A j \in DOMAIN r : r[j] # "device"
  BY <1>3 DEF Stages
<1> QED
  BY <1>1, <1>2, <1>3, <1>4 DEF Ordered

\* So does opening the identity.
LEMMA DeviceFirst ==
  ASSUME NEW t \in Seq(StageName), NEW kind, NEW r, r = <<"device">> \o t,
         Ordered(t, kind), "device" \notin Stages(t)
  PROVE  /\ r \in Seq(StageName) /\ r # <<>> /\ Ordered(r, kind)
         /\ \A x : x \in Stages(r) <=> x = "device" \/ x \in Stages(t)
<1> PICK s : s = <<"device">>
  OBVIOUS
<1>1. s \in Seq(StageName)
  <2>1. "device" \in StageName
    BY DEF StageName
  <2> QED
    BY <2>1
<1>2. DOMAIN s = {1} /\ s[1] = "device"
  OBVIOUS
<1>3. Stages(s) = {"device"}
  BY <1>2 DEF Stages
<1>4. /\ r \in Seq(StageName)
      /\ \A x : x \in Stages(r) <=> x \in Stages(s) \/ x \in Stages(t)
      /\ \A x, ys : x \notin Stages(s) /\ NoneAfter(t, x, ys) => NoneAfter(r, x, ys)
  BY <1>1, StagesOfConcatenation
<1>5. ASSUME NEW j \in DOMAIN r, r[j] = "device" PROVE j = 1
  <2>1. PICK l \in Nat : DOMAIN t = 1 .. l /\ DOMAIN r = 1 .. 1 + l
                         /\ \A i \in 1 .. 1 + l : i # 1 => r[i] = t[i - 1]
    OBVIOUS
  <2>2. j # 1 => j - 1 \in 1 .. l
    BY <2>1
  <2> QED
    BY <1>5, <2>1, <2>2 DEF Stages
<1>6. r # <<>>
  OBVIOUS
<1> QED
  BY <1>3, <1>4, <1>5, <1>6 DEF Ordered

\* What an operation begins with.
Begun(s, kind) ==
  /\ s \in Seq(StageName) /\ s # <<>> /\ Ordered(s, kind) /\ "device" \notin Stages(s)
  /\ "put" \in Stages(s) => "key" \in Stages(s)
  /\ "put" \in Stages(s) /\ EntryOf(kind) = "workspace" => "get" \in Stages(s)
  /\ "list" \in Stages(s) => {"manifest", "put"} \subseteq Stages(s)
  /\ "append" \in Stages(s) => "ledger" \in Stages(s)
  /\ kind \in Signed => "append" \in Stages(s)
  /\ kind = "modelcheck" => {"append", "put", "list"} \cap Stages(s) = {}

\* The parts that programs are made of, spelt out.
LEMMA StagesOfPrograms ==
  /\ Load \in Seq(StageName) /\ Stages(Load) = {"key", "manifest", "get"}
  /\ Commit \in Seq(StageName) /\ Stages(Commit) = {"ledger", "append", "key", "manifest", "put", "list"}
  /\ Demo \in Seq(StageName) /\ Stages(Demo) = {"ledger", "append", "key", "manifest", "put", "list"}
  /\ Initialise \in Seq(StageName) /\ Stages(Initialise) = {"key", "manifest", "create"}
  /\ <<"ask">> \in Seq(StageName) /\ Stages(<<"ask">>) = {"ask"}
  /\ <<"ledger">> \in Seq(StageName) /\ Stages(<<"ledger">>) = {"ledger"}
<1>1. \A x \in {"device", "key", "manifest", "get", "put", "list", "ledger", "append", "create", "ask"} : x \in StageName
  BY DEF StageName
<1>2. Load \in Seq(StageName) /\ Stages(Load) = {"key", "manifest", "get"}
  BY <1>1 DEF Load, Stages
<1>3. Commit \in Seq(StageName) /\ Stages(Commit) = {"ledger", "append", "key", "manifest", "put", "list"}
  BY <1>1 DEF Commit, Stages
<1>4. Demo \in Seq(StageName) /\ Stages(Demo) = {"ledger", "append", "key", "manifest", "put", "list"}
  BY <1>1 DEF Demo, Stages
<1>5. Initialise \in Seq(StageName) /\ Stages(Initialise) = {"key", "manifest", "create"}
  BY <1>1 DEF Initialise, Stages
<1>6. <<"ask">> \in Seq(StageName) /\ Stages(<<"ask">>) = {"ask"}
  BY <1>1 DEF Stages
<1>7. <<"ledger">> \in Seq(StageName) /\ Stages(<<"ledger">>) = {"ledger"}
  BY <1>1 DEF Stages
<1> QED
  BY <1>2, <1>3, <1>4, <1>5, <1>6, <1>7

\* commit signs, then stores, then lists.
LEMMA CommitIsOrdered ==
  ASSUME NEW kind \in {"request", "draft"}
  PROVE  Ordered(Commit, kind)
<1>1. /\ DOMAIN Commit = 1 .. 6
      /\ Commit[1] = "ledger" /\ Commit[2] = "append" /\ Commit[3] = "key"
      /\ Commit[4] = "manifest" /\ Commit[5] = "put" /\ Commit[6] = "list"
  BY DEF Commit
<1>2. \A i \in 1 .. 6 : i \in {1, 2, 3, 4, 5, 6}
  OBVIOUS
<1>3. /\ \A i \in 1 .. 6 : Commit[i] = "append" => i = 2
      /\ \A i \in 1 .. 6 : Commit[i] = "put" => i = 5
      /\ \A i \in 1 .. 6 : Commit[i] = "list" => i = 6
      /\ \A i \in 1 .. 6 : Commit[i] # "create" /\ Commit[i] # "device"
  BY <1>1, <1>2
<1>4. NoneAfter(Commit, "append", {"append", "ledger"})
  BY <1>1, <1>2, <1>3 DEF NoneAfter
<1>5. NoneAfter(Commit, "put", {"put", "key", "get"}) /\ NoneAfter(Commit, "put", {"append"})
  BY <1>1, <1>2, <1>3 DEF NoneAfter
<1>6. NoneAfter(Commit, "list", {"list", "manifest", "put"}) /\ NoneAfter(Commit, "create", {"append"})
  BY <1>1, <1>2, <1>3 DEF NoneAfter
<1> QED
  BY <1>1, <1>3, <1>4, <1>5, <1>6 DEF Ordered, Signed

\* demo stores a profile, lists it and then signs.
LEMMA DemoIsOrdered == Ordered(Demo, "demo")
<1>1. /\ DOMAIN Demo = 1 .. 6
      /\ Demo[1] = "key" /\ Demo[2] = "manifest" /\ Demo[3] = "put"
      /\ Demo[4] = "list" /\ Demo[5] = "ledger" /\ Demo[6] = "append"
  BY DEF Demo
<1>2. \A i \in 1 .. 6 : i \in {1, 2, 3, 4, 5, 6}
  OBVIOUS
<1>3. /\ \A i \in 1 .. 6 : Demo[i] = "append" => i = 6
      /\ \A i \in 1 .. 6 : Demo[i] = "put" => i = 3
      /\ \A i \in 1 .. 6 : Demo[i] = "list" => i = 4
      /\ \A i \in 1 .. 6 : Demo[i] # "create" /\ Demo[i] # "device"
  BY <1>1, <1>2
<1>4. NoneAfter(Demo, "append", {"append", "ledger"})
  BY <1>1, <1>2, <1>3 DEF NoneAfter
<1>5. NoneAfter(Demo, "put", {"put", "key", "get"})
  BY <1>1, <1>2, <1>3 DEF NoneAfter
<1>6. NoneAfter(Demo, "list", {"list", "manifest", "put"}) /\ NoneAfter(Demo, "create", {"append"})
  BY <1>1, <1>2, <1>3 DEF NoneAfter
<1> QED
  BY <1>1, <1>3, <1>4, <1>5, <1>6 DEF Ordered, Signed, EntryOf

\* Nothing is appended, put or listed.
LEMMA ReadingIsOrdered ==
  ASSUME NEW s \in Seq(StageName), NEW kind, \A x \in Stages(s) : x \notin {"device", "append", "put", "list"}
  PROVE  Ordered(s, kind)
BY DEF Ordered, NoneAfter, Stages

\* Every operation begins in order and with all it needs to come.
LEMMA ProgramsBegin ==
  ASSUME NEW kind \in Kinds
  PROVE  Begun(Program[kind], kind)
<1>1. kind \in {"request", "draft", "demo", "init", "integrity", "modelcheck"}
  BY KindsAreOperations DEF Program
<1>2. CASE kind = "request"
  <2> PICK s : s = Load \o Commit
    OBVIOUS
  <2>1. \A x \in Stages(Load) : x \in Loading
    BY StagesOfPrograms DEF Loading
  <2>2. /\ s \in Seq(StageName) /\ Ordered(s, kind)
        /\ \A x : x \in Stages(s) <=> x \in Stages(Load) \/ x \in Stages(Commit)
        /\ "device" \notin Stages(s)
    <3>1. Load \in Seq(StageName) /\ Commit \in Seq(StageName) /\ "device" \notin Stages(Commit)
      BY StagesOfPrograms
    <3>2. Ordered(Commit, kind)
      BY <1>2, CommitIsOrdered
    <3> QED
      BY <2>1, <3>1, <3>2, LoadingFirst
  <2>3. \A x \in {"key", "get", "manifest", "put", "ledger", "append"} : x \in Stages(s)
    BY <2>2, StagesOfPrograms
  <2>4. s # <<>>
    BY <2>3 DEF Stages
  <2>5. Program[kind] = s
    BY <1>2 DEF Program, Request
  <2> QED
    BY <1>2, <2>2, <2>3, <2>4, <2>5 DEF Begun
<1>3. CASE kind = "draft"
  <2> PICK one : one = <<"ask">>
    OBVIOUS
  <2> PICK a : a = Load \o one
    OBVIOUS
  <2>1. a \in Seq(StageName) /\ \A x : x \in Stages(a) <=> x \in Stages(Load) \/ x \in {"ask"}
    <3>1. Load \in Seq(StageName) /\ one \in Seq(StageName) /\ Stages(one) = {"ask"}
      BY StagesOfPrograms
    <3>2. \A x : x \in Stages(a) <=> x \in Stages(Load) \/ x \in Stages(one)
      BY <3>1, StagesOfConcatenation
    <3>3. a \in Seq(StageName)
      BY <3>1, StagesOfConcatenation
    <3> QED
      BY <3>1, <3>2, <3>3
  <2> PICK b : b = a \o Load
    OBVIOUS
  <2>2. b \in Seq(StageName) /\ \A x : x \in Stages(b) <=> x \in Stages(a) \/ x \in Stages(Load)
    <3>1. Load \in Seq(StageName)
      BY StagesOfPrograms
    <3> QED
      BY <2>1, <3>1, StagesOfConcatenation
  <2> PICK s : s = b \o Commit
    OBVIOUS
  <2>3. \A x \in Stages(b) : x \in Loading
    BY <2>1, <2>2, StagesOfPrograms DEF Loading
  <2>4. /\ s \in Seq(StageName) /\ Ordered(s, kind)
        /\ \A x : x \in Stages(s) <=> x \in Stages(b) \/ x \in Stages(Commit)
        /\ "device" \notin Stages(s)
    <3>1. Commit \in Seq(StageName) /\ "device" \notin Stages(Commit)
      BY StagesOfPrograms
    <3>2. Ordered(Commit, kind)
      BY <1>3, CommitIsOrdered
    <3> QED
      BY <2>2, <2>3, <3>1, <3>2, LoadingFirst, ZenonT(30)
  <2>5. \A x \in {"key", "get", "manifest", "put", "ledger", "append"} : x \in Stages(s)
    BY <2>2, <2>4, StagesOfPrograms
  <2>6. s # <<>>
    BY <2>5 DEF Stages
  <2>7. Program[kind] = s
    BY <1>3 DEF Program, Draft
  <2> QED
    BY <1>3, <2>4, <2>5, <2>6, <2>7 DEF Begun
<1>4. CASE kind = "demo"
  <2>1. Program[kind] = Demo
    BY <1>4 DEF Program
  <2>2. Demo # <<>>
    BY DEF Demo
  <2> QED
    BY <1>4, <2>1, <2>2, StagesOfPrograms, DemoIsOrdered DEF Begun, EntryOf
<1>5. CASE kind = "init"
  <2>1. Program[kind] = Initialise
    BY <1>5 DEF Program
  <2>2. Initialise # <<>>
    BY DEF Initialise
  <2>3. \A x \in Stages(Initialise) : x \notin {"device", "append", "put", "list", "ledger"}
    BY StagesOfPrograms
  <2>4. Ordered(Initialise, kind)
    BY <2>3, StagesOfPrograms, ReadingIsOrdered
  <2> QED
    BY <1>5, <2>1, <2>2, <2>3, <2>4, StagesOfPrograms DEF Begun, Signed
<1>6. CASE kind = "integrity"
  <2> PICK one : one = <<"ledger">>
    OBVIOUS
  <2> PICK s : s = Load \o one
    OBVIOUS
  <2>1. s \in Seq(StageName) /\ \A x : x \in Stages(s) <=> x \in Stages(Load) \/ x \in {"ledger"}
    <3>1. Load \in Seq(StageName) /\ one \in Seq(StageName) /\ Stages(one) = {"ledger"}
      BY StagesOfPrograms
    <3>2. \A x : x \in Stages(s) <=> x \in Stages(Load) \/ x \in Stages(one)
      BY <3>1, StagesOfConcatenation
    <3>3. s \in Seq(StageName)
      BY <3>1, StagesOfConcatenation
    <3> QED
      BY <3>1, <3>2, <3>3
  <2>2. \A x \in Stages(s) : x \notin {"device", "append", "put", "list"}
    BY <2>1, StagesOfPrograms
  <2>3. Ordered(s, kind)
    BY <2>1, <2>2, ReadingIsOrdered
  <2>4. s # <<>>
    BY <2>1 DEF Stages
  <2>5. Program[kind] = s
    BY <1>6 DEF Program, Integrity
  <2> QED
    BY <1>6, <2>1, <2>2, <2>3, <2>4, <2>5 DEF Begun, Signed
<1>7. CASE kind = "modelcheck"
  <2>1. Program[kind] = <<"ask">>
    BY <1>7 DEF Program, ModelCheck
  <2>2. <<"ask">> # <<>>
    OBVIOUS
  <2>3. \A x \in Stages(<<"ask">>) : x \notin {"device", "append", "put", "list", "ledger"}
    BY StagesOfPrograms
  <2>4. Ordered(<<"ask">>, kind)
    BY <2>3, StagesOfPrograms, ReadingIsOrdered
  <2> QED
    BY <1>7, <2>1, <2>2, <2>3, <2>4, StagesOfPrograms DEF Begun, Signed
<1> QED
  BY <1>1, <1>2, <1>3, <1>4, <1>5, <1>6, <1>7

----------------------------------------------------------------------------
(* Beginning, stopping and being stopped.                                   *)

\* A step that changes nothing of this.
LEMMA AllStays ==
  ASSUME Alone,
         UNCHANGED <<file, kept, pending, unsynced, temp, todo, op, acknowledged, job, mem, operations>>
  PROVE  Alone'
<1>1. DiskInv' /\ Survivors' = Survivors
  BY DiskStays
<1>2. \A p \in Process : ProcessInv(p)'
  <2> SUFFICES ASSUME NEW p \in Process PROVE ProcessInv(p)'
    OBVIOUS
  <2>1. ProcessInv(p)
    BY DEF Alone
  <2> QED
    BY <1>1, <2>1 DEF ProcessInv
<1> QED
  BY <1>1, <1>2 DEF Alone

\* An operation begins while no other is under way.
LEMMA BeginsAlone ==
  ASSUME NEW p \in Process, NEW kind \in Kinds, Alone, Begin(p, kind), ~overlapped'
  PROVE  Alone'
<1> PICK o : o = [kind |-> kind, id |-> operations + 1]
  OBVIOUS
<1> PICK s : s = IF mem[p].device = None /\ kind # "modelcheck" THEN <<"device">> \o Program[kind]
                 ELSE Program[kind]
  OBVIOUS
<1>1. /\ todo[p] = <<>> /\ Busy \ {p} = {}
      /\ op' = [op EXCEPT ![p] = o] /\ todo' = [todo EXCEPT ![p] = s]
      /\ operations' = operations + 1
      /\ UNCHANGED <<file, kept, pending, unsynced, temp, job, mem, acknowledged>>
  BY DEF Begin, disk
<1>2. /\ o.kind = kind /\ o.id = operations + 1 /\ o.id \in Nat
  BY DEF Alone
<1>3. /\ Resting(job[p], mem[p], file)
  BY <1>1 DEF Alone, ProcessInv
<1>4. Begun(Program[kind], kind)
  BY ProgramsBegin
<1>5. /\ s \in Seq(StageName) /\ s # <<>> /\ Ordered(s, kind)
      /\ \A x : x \in Stages(Program[kind]) => x \in Stages(s)
      /\ \A x : x \in Stages(s) => x = "device" \/ x \in Stages(Program[kind])
      /\ mem[p].device = None /\ kind # "modelcheck" => "device" \in Stages(s)
  <2>1. CASE mem[p].device = None /\ kind # "modelcheck"
    <3> PICK t : t = Program[kind]
      OBVIOUS
    <3>1. t \in Seq(StageName) /\ Ordered(t, kind) /\ "device" \notin Stages(t) /\ s = <<"device">> \o t
      BY <1>4, <2>1 DEF Begun
    <3> QED
      BY <3>1, DeviceFirst
  <2>2. CASE ~(mem[p].device = None /\ kind # "modelcheck")
    BY <1>4, <2>2 DEF Begun
  <2> QED
    BY <2>1, <2>2
<1>6. /\ "put" \in Stages(s) => "key" \in Stages(s)
      /\ "put" \in Stages(s) /\ EntryOf(kind) = "workspace" => "get" \in Stages(s)
      /\ "list" \in Stages(s) => "manifest" \in Stages(s) /\ "put" \in Stages(s)
      /\ "append" \in Stages(s) => "ledger" \in Stages(s) /\ kind # "modelcheck"
      /\ kind \in Signed => "append" \in Stages(s)
  BY <1>4, <1>5 DEF Begun
<1>7. Knows(Stages(s), mem[p], o, file, Survivors)
  BY <1>2, <1>3, <1>5, <1>6 DEF Knows, Resting
<1>8. Prepared(Stages(s), mem[p], o, file)
  BY <1>2, <1>6 DEF Prepared
<1>9. Working(s, None, mem[p], o, file, Survivors, temp, unsynced, acknowledged)
  BY <1>2, <1>3, <1>5, <1>7, <1>8 DEF Working, Resting, NotBegun
<1>10. DiskInv' /\ Survivors' = Survivors
  BY <1>1, DiskStays
<1>11. /\ todo'[p] = s /\ op'[p] = o
       /\ \A q \in Process : q # p => todo'[q] = todo[q] /\ op'[q] = op[q]
       /\ DOMAIN todo' = Process /\ DOMAIN op' = Process
  BY <1>1 DEF Alone
<1>12. \A q \in Process : q # p => todo[q] = <<>>
  BY <1>1 DEF Busy
<1>13. \A q \in Process : ProcessInv(q)'
  <2>1. ProcessInv(p)'
    BY <1>1, <1>3, <1>5, <1>9, <1>10, <1>11 DEF ProcessInv, Resting
  <2>2. ASSUME NEW q \in Process, q # p PROVE ProcessInv(q)'
    <3>1. todo[q] = <<>> /\ todo'[q] = <<>>
      BY <1>11, <1>12, <2>2
    <3>2. ProcessInv(q)
      BY DEF Alone
    <3> QED
      BY <1>1, <3>1, <3>2 DEF ProcessInv
  <2> QED
    BY <2>1, <2>2
<1>14. \A q, r \in Process : todo'[q] # <<>> /\ todo'[r] # <<>> => q = r
  BY <1>11, <1>12
<1>15. /\ operations' \in Nat /\ DOMAIN job' = Process /\ DOMAIN mem' = Process /\ DOMAIN temp' = Name
  BY <1>1 DEF Alone
<1> QED
  BY <1>10, <1>11, <1>13, <1>14, <1>15 DEF Alone

\* A process that stops or is killed forgets all.
LEMMA StopsAlone ==
  ASSUME NEW p \in Process, Alone,
         todo'[p] = <<>>, job'[p] = None, mem'[p] = Blank,
         \A q \in Process : q # p => todo'[q] = todo[q] /\ job'[q] = job[q] /\ mem'[q] = mem[q] /\ op'[q] = op[q],
         DOMAIN todo' = Process, DOMAIN op' = Process, DOMAIN job' = Process, DOMAIN mem' = Process,
         UNCHANGED <<file, kept, pending, unsynced, temp, acknowledged, operations>>
  PROVE  Alone'
<1>1. DiskInv' /\ Survivors' = Survivors
  BY DiskStays
<1>2. Resting(None, Blank, file')
  BY DEF Resting, Blank
<1>3. <<>> \in Seq(StageName)
  OBVIOUS
<1>4. ASSUME NEW q \in Process PROVE ProcessInv(q)'
  <2>1. CASE q = p
    BY <1>2, <1>3, <2>1 DEF ProcessInv
  <2>2. CASE q # p
    <3>1. ProcessInv(q)
      BY DEF Alone
    <3> QED
      BY <1>1, <2>2, <3>1 DEF ProcessInv
  <2> QED
    BY <2>1, <2>2
<1>5. \A q, r \in Process : todo'[q] # <<>> /\ todo'[r] # <<>> => q = r
  BY DEF Alone
<1>6. operations' \in Nat /\ DOMAIN temp' = Name
  BY DEF Alone
<1> QED
  BY <1>1, <1>4, <1>5, <1>6 DEF Alone

\* What a power loss leaves is one of the survivors, or one without a vault.
LEMMA LossAlone ==
  ASSUME Alone, PowerLoss
  PROVE  Alone'
<1>1. PICK root \in 0 .. Len(pending["root"]), vault \in 0 .. Len(pending["vault"]), noVault \in BOOLEAN :
        file' = [n \in Name |->
            IF noVault /\ n \in VaultName THEN None
            ELSE Surviving(n, [d \in Directory |-> IF d = "root" THEN root ELSE vault])]
  BY DEF PowerLoss
<1> PICK upto : upto = [d \in Directory |-> IF d = "root" THEN root ELSE vault]
  OBVIOUS
<1> PICK g : g = Outcome(upto)
  OBVIOUS
<1>2. g \in Survivors /\ Good(g) /\ DOMAIN g = Name
  <2>1. upto \in Upto
    <3>1. Renames
      BY DEF Alone, DiskInv
    <3>2. Len(pending["root"]) \in Nat /\ Len(pending["vault"]) \in Nat
      BY <3>1 DEF Renames, Directory
    <3>3. root \in Nat /\ vault \in Nat /\ root <= Len(pending["root"]) /\ vault <= Len(pending["vault"])
      BY <1>1, <3>2
    <3> QED
      BY <3>3 DEF Upto, Directory
  <2>2. g \in Survivors
    BY <2>1 DEF Survivors
  <2> QED
    BY <2>2, FilesAreWhole DEF Alone
<1>3. file' = [n \in Name |-> IF noVault /\ n \in VaultName THEN None ELSE g[n]]
  BY <1>1 DEF Outcome
<1>4. /\ file'["ledger.json"] = g["ledger.json"] /\ file'["device.json"] = g["device.json"]
      /\ \A n \in Name : file'[n] = g[n] \/ file'[n] = None
      /\ \/ \A n \in Name : file'[n] = g[n]
         \/ \A n \in VaultName : file'[n] = None
  BY <1>3 DEF Name, VaultName, Entry
<1>5. Good(file')
  <2>1. CASE \A n \in Name : file'[n] = g[n]
    BY <1>2, <1>4, <2>1, FilesByName DEF Good
  <2>2. CASE \A n \in VaultName : file'[n] = None
    <3>1. /\ file'["workspace"] = None /\ file'["manifest.json"] = None
          /\ \A e \in Entry : file'[e] = None
      BY <2>2 DEF VaultName, Entry
    <3>2. \A n \in Name : file'[n] = None \/ file'[n] \in DataOf(n)
      BY <1>2, <1>4 DEF Good
    <3> QED
      BY <1>2, <1>4, <3>1, <3>2 DEF Good
  <2> QED
    BY <1>4, <2>1, <2>2
<1>6. Settled'
  <2>1. Flushed'
    <3>1. pending' = [d \in Directory |-> <<>>] /\ kept' = file'
      BY DEF PowerLoss
    <3>2. PICK f : f = [n \in Name |-> IF noVault /\ n \in VaultName THEN None ELSE g[n]]
      OBVIOUS
    <3>3. file' = [n \in Name |-> f[n]]
      BY <1>3, <3>2
    <3> QED
      BY <3>1, <3>3 DEF Flushed
  <2> QED
    BY <2>1, NothingIsLostThen
<1>7. DiskInv'
  <2>1. acknowledged' = acknowledged
    BY DEF PowerLoss
  <2>2. \A id \in acknowledged : id \in Ids(g["ledger.json"])
    BY <1>2 DEF Alone, DiskInv, Durable
  <2>3. \A h \in Survivors' : h = file'
    BY <1>6 DEF Settled
  <2>4. \A h \in Survivors' : Good(h)
    BY <1>5, <2>3
  <2>5. \A id \in acknowledged' : Durable(id, Survivors')
    BY <1>4, <2>1, <2>2, <2>3 DEF Durable
  <2> QED
    BY <1>6, <2>4, <2>5 DEF DiskInv, Settled
<1>8. /\ todo' = [p \in Process |-> <<>>] /\ op' = [p \in Process |-> None]
      /\ job' = [p \in Process |-> None] /\ mem' = [p \in Process |-> Blank]
      /\ temp' = [n \in Name |-> None] /\ operations' = operations
  BY DEF PowerLoss
<1>9. \A p \in Process : ProcessInv(p)'
  <2>1. Resting(None, Blank, file')
    BY DEF Resting, Blank
  <2>2. <<>> \in Seq(StageName)
    OBVIOUS
  <2> QED
    BY <1>8, <2>1, <2>2 DEF ProcessInv
<1> QED
  BY <1>7, <1>8, <1>9 DEF Alone

\* An empty directory is in order.
LEMMA DirectoryInitially == Init => DirectoryInv
<1> SUFFICES ASSUME Init PROVE Alone
  BY DEF DirectoryInv
<1>1. Settled
  BY NothingIsLost DEF Flushed, Init
<1>2. \A n \in Name : file[n] = None
  BY DEF Init
<1>3. Good(file)
  BY <1>2, FilesByName DEF Good
<1>4. DiskInv
  BY <1>1, <1>3 DEF DiskInv, Settled, Init
<1>5. \A p \in Process : ProcessInv(p)
  <2>1. Resting(None, Blank, file)
    BY DEF Resting, Blank
  <2>2. <<>> \in Seq(StageName)
    OBVIOUS
  <2> QED
    BY <2>1, <2>2 DEF ProcessInv, Init
<1> QED
  BY <1>4, <1>5 DEF Alone, Init

\* And it stays in order while operations do not overlap.
LEMMA DirectoryInductive == DirectoryInv /\ [Next]_vars => DirectoryInv'
<1> SUFFICES ASSUME DirectoryInv, [Next]_vars, ~overlapped' PROVE Alone'
  BY DEF DirectoryInv
<1>1. ASSUME NEW p \in Process, Stage(p) PROVE Alone'
  <2>1. UNCHANGED overlapped
    BY <1>1 DEF Stage, OpenDevice, InitKey, ReadManifest, GetWorkspace, LoadLedger, AppendEvent,
                CreateLedger, PutBlob, ListEntry, AskGateway, TakeAnswer, Reads, NoWrite, bounds
  <2> QED
    BY <1>1, <2>1, StageAlone DEF DirectoryInv
<1>2. ASSUME NEW p \in Process, Replacing(p) \/ WriteFails(p) PROVE Alone'
  <2>1. UNCHANGED overlapped
    BY <1>2 DEF Replacing, CreateTemp, WriteBytes, SyncBytes, RenameTemp, InstallPrivate,
                FlushDirectory, RenameFails, WriteFails, Abandon, bounds
  <2> QED
    BY <1>2, <2>1, ReplacingAlone DEF DirectoryInv
<1>3. ASSUME NEW p \in Process, NEW kind \in Kinds, Begin(p, kind) PROVE Alone'
  <2>1. ~overlapped
    BY <1>3 DEF Begin
  <2> QED
    BY <1>3, <2>1, BeginsAlone DEF DirectoryInv
<1>4. ASSUME NEW p \in Process, Close(p) PROVE Alone'
  <2>1. /\ UNCHANGED overlapped /\ todo[p] = <<>> /\ mem' = [mem EXCEPT ![p] = Blank]
        /\ UNCHANGED <<file, kept, pending, unsynced, temp, todo, op, acknowledged, job, operations>>
    BY <1>4 DEF Close, disk, control, bounds
  <2>2. Alone
    BY <2>1 DEF DirectoryInv
  <2>3. job[p] = None /\ DOMAIN todo = Process /\ DOMAIN op = Process /\ DOMAIN job = Process /\ DOMAIN mem = Process
    BY <2>1, <2>2 DEF Alone, ProcessInv, Resting
  <2>4. mem'[p] = Blank /\ DOMAIN mem' = Process /\ \A q \in Process : q # p => mem'[q] = mem[q]
    BY <2>1, <2>3
  <2> QED
    BY <2>1, <2>2, <2>3, <2>4, StopsAlone
<1>5. ASSUME NEW p \in Process, Kill(p) PROVE Alone'
  <2>1. /\ UNCHANGED overlapped
        /\ todo' = [todo EXCEPT ![p] = <<>>] /\ op' = [op EXCEPT ![p] = None]
        /\ job' = [job EXCEPT ![p] = None] /\ mem' = [mem EXCEPT ![p] = Blank]
        /\ UNCHANGED <<file, kept, pending, unsynced, temp, acknowledged, operations>>
    BY <1>5 DEF Kill, disk
  <2>2. Alone
    BY <2>1 DEF DirectoryInv
  <2>3. DOMAIN todo = Process /\ DOMAIN op = Process /\ DOMAIN job = Process /\ DOMAIN mem = Process
    BY <2>2 DEF Alone
  <2>4. /\ todo'[p] = <<>> /\ job'[p] = None /\ mem'[p] = Blank
        /\ \A q \in Process : q # p => todo'[q] = todo[q] /\ job'[q] = job[q] /\ mem'[q] = mem[q] /\ op'[q] = op[q]
        /\ DOMAIN todo' = Process /\ DOMAIN op' = Process /\ DOMAIN job' = Process /\ DOMAIN mem' = Process
    BY <2>1, <2>3
  <2> QED
    BY <2>1, <2>2, <2>4, StopsAlone
<1>6. CASE PowerLoss
  BY <1>6, LossAlone DEF PowerLoss, DirectoryInv
<1>7. CASE Answer
  BY <1>7, AllStays DEF Answer, disk, control, bounds, DirectoryInv
<1>8. CASE UNCHANGED vars
  BY <1>8, AllStays DEF vars, disk, control, bounds, DirectoryInv
<1> QED
  BY <1>1, <1>2, <1>3, <1>4, <1>5, <1>6, <1>7, <1>8 DEF Next

\* What the properties are about, in the terms of the invariant.
LEMMA DirectoryIsGood ==
  ASSUME DirectoryInv, ~overlapped
  PROVE  /\ Good(file) /\ \A n \in Name : Whole(n) <=> file[n] # None
         /\ Signatures = Ids(file["ledger.json"])
         /\ acknowledged \subseteq Ids(file["ledger.json"])
<1>1. Alone
  BY DEF DirectoryInv
<1>2. Good(file) /\ acknowledged \subseteq Ids(file["ledger.json"])
  BY <1>1, FilesAreWhole, AcknowledgedOnLedger DEF Alone
<1>3. \A n \in Name : Whole(n) <=> file[n] # None
  BY <1>2, NothingIsNoData DEF Good, Whole
<1> QED
  BY <1>2, <1>3, FilesByName DEF Signatures, Ids

----------------------------------------------------------------------------
(* The theorems.                                                           *)

\* No disclosure of complete leaves out a provider that was given the prompt.
THEOREM DisclosuresAreComplete == Spec => []DisclosureNamesWhoSaw
<1>1. ASSUME GatewayInv PROVE DisclosureNamesWhoSaw
  BY <1>1, NoneIsNothing
     DEF GatewayInv, Named, Trail, DisclosureNamesWhoSaw, Disclosure, Served, Failure
<1> QED
  BY <1>1, GatewayInitially, GatewayInductive, PTL DEF Spec

\* Red data is shown to local providers only, and a trail accuses nobody falsely
\* (classify, record_skip).
THEOREM RedStaysLocal == Spec => []TrailIsTrue
<1>1. GatewayInv => TrailIsTrue
  BY DEF GatewayInv
<1> QED
  BY <1>1, GatewayInitially, GatewayInductive, PTL DEF Spec

\* complete fails with all_failed only when nobody it may ask was left.
THEOREM GivingUpIsLast == Spec => []GivesUpLast
<1>1. GatewayInv => GivesUpLast
  BY DEF GatewayInv
<1> QED
  BY <1>1, GatewayInitially, GatewayInductive, PTL DEF Spec

\* However many processes open a fresh directory at once, and whatever they are
\* killed at, nobody finds half an identity (atomic_write_private).
THEOREM IdentityStaysWhole == Spec => []IdentityIsWhole
<1>1. IdentityInv => IdentityIsWhole
  BY DEF IdentityInv
<1> QED
  BY <1>1, IdentityInitially, IdentityInductive, PTL DEF Spec

\* After any kill, failed write or power loss the next process finds every file
\* whole, the ledger signed by the identity and the blobs under the key that are
\* on disk (write_atomic, AuditLedger::save, Vault::put, DeviceIdentity::save).
THEOREM NextProcessOpens == Spec => []DirectoryOpens
<1>1. DirectoryInv => DirectoryOpens
  BY DirectoryIsGood, FilesByName DEF DirectoryOpens, Good
<1> QED
  BY <1>1, DirectoryInitially, DirectoryInductive, PTL DEF Spec

\* Vault::put writes the blob before the manifest, so that whatever a crash
\* leaves, the manifest lists nothing that is not there.
THEOREM ListedEntriesAreStored == Spec => []ListedIsStored
<1>1. DirectoryInv => ListedIsStored
  BY DirectoryIsGood, FilesByName DEF ListedIsStored, Good
<1> QED
  BY <1>1, DirectoryInitially, DirectoryInductive, PTL DEF Spec

\* commit flushes the ledger before it replaces the workspace, so that no power
\* loss leaves a workspace without the event that vouches for it.
THEOREM EvidenceComesFirst == Spec => []EvidenceFirst
<1>1. DirectoryInv => EvidenceFirst
  BY DirectoryIsGood, FilesByName DEF EvidenceFirst, Good
<1> QED
  BY <1>1, DirectoryInitially, DirectoryInductive, PTL DEF Spec

\* What a caller was told is done stays on the ledger, as long as no two
\* operations overlap (append_events, AuditLedger::save).
THEOREM AcknowledgedEventsStay == Spec => []AcknowledgedStaysAlone
<1>1. DirectoryInv => AcknowledgedStaysAlone
  BY DirectoryIsGood DEF AcknowledgedStaysAlone, AcknowledgedStays
<1> QED
  BY <1>1, DirectoryInitially, DirectoryInductive, PTL DEF Spec
============================================================================

--------------------------- MODULE ArtifactProofs ---------------------------
(***************************************************************************)
(* TypeOK, LoadedIsAdmitted, RecordIsBacked and AdmittedLoads for any      *)
(* number of processes, components, manifests, keys and faults.            *)
(***************************************************************************)
EXTENDS ArtifactStore, TLAPS

----------------------------------------------------------------------------
(* The inductive invariant.                                                *)

\* An entry was written, and only the power may have taken it since.
Written(entry) == disk[entry] # None \/ entry \in lost

ObjectOf(a) == <<"objects", a.component>>
ManifestOf(a) == <<"manifests", a.manifest>>
RecordOf(a) == <<"admissions", a.manifest>>

FilesWritten(a) == Written(ObjectOf(a)) /\ Written(ManifestOf(a))

\* What an admission record is about.
Pair(e) == [component |-> e.payload.component, manifest |-> e.payload.manifest]

\* Wherever a record lies, admit made it.
MadeByAdmit(e) ==
  /\ e.payload.issuer = Owner
  /\ e.payload.at <= clock
  /\ e.payload.profile = e.payload.manifest.profile
  /\ Pair(e) \in signed

Histories ==
  /\ signed \subseteq verified /\ admitted \subseteq signed
  /\ \A a \in verified :
       /\ a \in Artifact
       /\ Structural(a.manifest)
       /\ a.manifest.component = a.component

Records ==
  \A m \in Manifest :
    LET e == disk[<<"admissions", m>>] IN
    e \in Admission => MadeByAdmit(e) /\ FilesWritten(Pair(e))

AdmittedFiles == \A a \in admitted : FilesWritten(a) /\ Written(RecordOf(a))

\* What admit has done by each of its steps.
Holder(p) ==
  /\ held[p] \in verified \cup {None}
  /\ pc[p][1] \in {"check", "write", "flush"} => held[p] \in verified
  /\ pc[p] # <<"check", "admissions">>
  /\ pc[p] = <<"flush", "objects">> => Written(ObjectOf(held[p]))
  /\ pc[p] \in {<<"check", "manifests">>, <<"write", "manifests">>} => Written(ObjectOf(held[p]))
  /\ pc[p] \in {<<"flush", "manifests">>, <<"write", "admissions">>} => FilesWritten(held[p])
  /\ pc[p] = <<"flush", "admissions">> =>
       FilesWritten(held[p]) /\ Written(RecordOf(held[p])) /\ held[p] \in signed

\* What load has found by each of its steps.
Reader(p) ==
  /\ pc[p][1] = "load" => read[p].want \in signed
  /\ loaded[p] # None => loaded[p].of \in signed /\ loaded[p].bytes = loaded[p].of.component

Shape == DOMAIN read = Process /\ DOMAIN loaded = Process

IInv ==
  /\ TypeOK /\ Shape
  /\ Histories /\ Records /\ AdmittedFiles
  /\ \A p \in Process : Holder(p) /\ Reader(p)

----------------------------------------------------------------------------
(* Facts of the state.                                                     *)

LEMMA EntriesOfAnArtifact ==
  ASSUME NEW a \in Artifact
  PROVE  /\ ObjectOf(a) \in Entry /\ ManifestOf(a) \in Entry /\ RecordOf(a) \in Entry
         /\ a.component # None /\ a.manifest # None
BY NoneIsNoFile DEF Artifact, ObjectOf, ManifestOf, RecordOf, Entry

LEMMA EntriesOfProcess ==
  ASSUME NEW p \in Process, held[p] \in Artifact
  PROVE  /\ EntryFor(p, "objects") = ObjectOf(held[p])
         /\ EntryFor(p, "manifests") = ManifestOf(held[p])
         /\ EntryFor(p, "admissions") = RecordOf(held[p])
BY DEF EntryFor, ObjectOf, ManifestOf, RecordOf

LEMMA AdmissionFields ==
  ASSUME NEW e \in Admission
  PROVE  e.payload \in Claims /\ e.by = e.payload.key
BY DEF Admission, Sign

\* A file that was written stays written, whatever lies under its name.
LEMMA WrittenStays ==
  ASSUME NEW entry \in Entry, Written(entry), lost \subseteq lost',
         disk'[entry] = None => disk[entry] = None \/ entry \in lost'
  PROVE  Written(entry)'
BY DEF Written

LEMMA Initially == Init => IInv
<1> SUFFICES ASSUME Init PROVE IInv
  OBVIOUS
<1>1. TypeOK
  <2>1. EmptyStore \in Stores
    BY DEF EmptyStore, Stores
  <2>2. \A c \in Component : <<"objects", c>> \in Entry
    BY DEF Entry
  <2>3. \A m \in Manifest : <<"manifests", m>> \in Entry /\ <<"admissions", m>> \in Entry
    BY DEF Entry
  <2> QED
    BY <2>1, <2>2, <2>3, BoundsAreNaturals DEF Init, TypeOK, Steps, Idle
<1>2. Records
  <2>1. \A m \in Manifest : disk[<<"admissions", m>>] = None
    BY DEF Init, Entry
  <2> QED
    BY <2>1, NoneIsNoRecord DEF Records
<1>3. Shape /\ Histories /\ AdmittedFiles
  BY DEF Init, Shape, Histories, AdmittedFiles
<1>4. \A p \in Process : Holder(p) /\ Reader(p)
  BY DEF Init, Holder, Reader, Idle
<1> QED
  BY <1>1, <1>2, <1>3, <1>4 DEF IInv

----------------------------------------------------------------------------
(* Steps that write no file.                                               *)

Quiet ==
  /\ UNCHANGED <<disk, unflushed, verified, signed, admitted, lost>>
  /\ clock' \in 0 .. MaxTime /\ clock <= clock'

LEMMA QuietKeeps ==
  ASSUME IInv, Quiet
  PROVE  Histories' /\ Records' /\ AdmittedFiles'
<1>1. Histories' /\ AdmittedFiles'
  BY DEF IInv, Quiet, Histories, AdmittedFiles, FilesWritten, Written
<1>2. ASSUME NEW m \in Manifest, disk[<<"admissions", m>>] \in Admission
      PROVE  /\ MadeByAdmit(disk[<<"admissions", m>>])'
             /\ FilesWritten(Pair(disk[<<"admissions", m>>]))'
  <2> DEFINE e == disk[<<"admissions", m>>]
  <2>1. MadeByAdmit(e) /\ FilesWritten(Pair(e))
    BY <1>2 DEF IInv, Records
  <2>2. e.payload.at \in Nat /\ clock \in Nat /\ clock' \in Nat
    BY <1>2, AdmissionFields, BoundsAreNaturals DEF Claims, Quiet, IInv, TypeOK
  <2> QED
    BY <2>1, <2>2 DEF MadeByAdmit, FilesWritten, Written, Quiet, Pair
<1>3. Records'
  BY <1>2 DEF Records, Quiet
<1> QED
  BY <1>1, <1>3

\* A process that the step does not concern stays where it was.
LEMMA OthersKeep ==
  ASSUME IInv, Quiet, NEW p \in Process, UNCHANGED <<pc[p], held[p], read[p], loaded[p]>>
  PROVE  Holder(p)' /\ Reader(p)'
BY DEF IInv, Quiet, Holder, Reader, FilesWritten, Written, ObjectOf, ManifestOf, RecordOf

LEMMA TrustKeeps ==
  ASSUME IInv,
         Tick \/ (\E k \in PublicKey :
           \/ \E issuer \in Issuer, validity \in Span : TrustPublisher(k, issuer, validity)
           \/ \E validity \in Span : TrustAdmitter(k, validity)
           \/ \E revoked \in BOOLEAN : SetStatus(k, revoked))
  PROVE  IInv'
<1>1. UNCHANGED <<files, pc, held, read, loaded, faults, history>>
  BY DEF Tick, TrustPublisher, TrustAdmitter, SetStatus
<1>2. Quiet
  BY <1>1, BoundsAreNaturals
     DEF Tick, TrustPublisher, TrustAdmitter, SetStatus, Quiet, files, history, IInv, TypeOK
<1>3. publishers' \in Stores /\ admitters' \in Stores
  <2>1. CASE Tick
    BY <2>1 DEF Tick, trust, IInv, TypeOK
  <2>2. ASSUME NEW k \in PublicKey, NEW issuer \in Issuer, NEW validity \in Span,
               TrustPublisher(k, issuer, validity)
        PROVE  publishers' \in Stores /\ admitters' \in Stores
    <3>1. Trusted(issuer, validity) \in TrustedKey
      BY SpansAreValidities DEF Trusted, TrustedKey
    <3> QED
      BY <2>2, <3>1 DEF TrustPublisher, Stores, IInv, TypeOK
  <2>3. ASSUME NEW k \in PublicKey, NEW validity \in Span, TrustAdmitter(k, validity)
        PROVE  publishers' \in Stores /\ admitters' \in Stores
    <3>1. Trusted(Owner, validity) \in TrustedKey
      BY SpansAreValidities, OwnerIsAnIssuer DEF Trusted, TrustedKey
    <3> QED
      BY <2>3, <3>1 DEF TrustAdmitter, Stores, IInv, TypeOK
  <2>4. ASSUME NEW k \in PublicKey, NEW revoked \in BOOLEAN, SetStatus(k, revoked)
        PROVE  publishers' \in Stores /\ admitters' \in Stores
    <3>1. ASSUME NEW store \in Stores, store[k] # None
          PROVE  [store EXCEPT ![k].revoked = revoked] \in Stores
      <4>1. [store[k] EXCEPT !.revoked = revoked] \in TrustedKey
        BY <3>1 DEF Stores, TrustedKey
      <4> QED
        BY <4>1 DEF Stores
    <3> QED
      BY <2>4, <3>1 DEF SetStatus, IInv, TypeOK
  <2> QED
    BY <2>1, <2>2, <2>3, <2>4
<1>4. TypeOK' /\ Shape'
  BY <1>1, <1>2, <1>3 DEF IInv, TypeOK, Shape, Quiet, files, history
<1>5. \A p \in Process : Holder(p)' /\ Reader(p)'
  BY <1>1, <1>2, OthersKeep
<1> QED
  BY <1>2, <1>4, <1>5, QuietKeeps DEF IInv

LEMMA DropKeeps ==
  ASSUME IInv, NEW p \in Process, Drop(p)
  PROVE  IInv'
<1>1. Quiet /\ UNCHANGED <<trust, pc, read, faults>>
  BY DEF Drop, Quiet, files, history, IInv, TypeOK
<1>2. /\ pc[p] = Idle
      /\ held' = [held EXCEPT ![p] = None] /\ loaded' = [loaded EXCEPT ![p] = None]
  BY DEF Drop
<1>3. TypeOK' /\ Shape'
  BY <1>1, <1>2 DEF IInv, TypeOK, Shape, Quiet, trust, Idle
<1>4. ASSUME NEW q \in Process
      PROVE  Holder(q)' /\ Reader(q)'
  <2>1. CASE q = p
    BY <1>1, <1>2, <2>1 DEF IInv, TypeOK, Shape, Holder, Reader, Idle
  <2>2. CASE q # p
    BY <1>1, <1>2, <2>2, OthersKeep DEF IInv, TypeOK, Shape
  <2> QED
    BY <2>1, <2>2
<1> QED
  BY <1>1, <1>3, <1>4, QuietKeeps DEF IInv

\* A step of one process that only moves it to another step of admit.
LEMMA MoveKeeps ==
  ASSUME IInv, Quiet, NEW p \in Process, NEW step \in Steps,
         UNCHANGED <<trust, held, read, loaded>>, faults' \in 0 .. MaxFaults,
         pc' = [pc EXCEPT ![p] = step], step[1] # "load",
         step[1] \in {"check", "write", "flush"} => held[p] # None,
         Holder(p)'
  PROVE  IInv'
<1>1. TypeOK' /\ Shape'
  BY DEF IInv, TypeOK, Shape, Quiet, trust
<1>2. ASSUME NEW q \in Process
      PROVE  Holder(q)' /\ Reader(q)'
  <2>1. CASE q = p
    BY <2>1 DEF IInv, TypeOK, Reader, Quiet
  <2>2. CASE q # p
    BY <2>2, OthersKeep DEF IInv, TypeOK
  <2> QED
    BY <2>1, <2>2
<1> QED
  BY <1>1, <1>2, QuietKeeps DEF IInv

LEMMA AdmitKeeps ==
  ASSUME IInv, NEW p \in Process, Admit(p)
  PROVE  IInv'
<1> DEFINE step == <<"check", "objects">>
<1>1. Quiet /\ UNCHANGED <<trust, held, read, loaded, faults>> /\ held[p] # None
      /\ pc' = [pc EXCEPT ![p] = step]
  BY DEF Admit, Goto, Quiet, files, history, IInv, TypeOK
<1>2. step \in Steps /\ step[1] = "check"
  BY DEF Steps, Directory
<1>3. Holder(p)'
  BY <1>1 DEF Holder, Quiet, IInv, TypeOK
<1>4. faults' \in 0 .. MaxFaults
  BY <1>1 DEF IInv, TypeOK
<1> HIDE DEF step
<1> QED
  BY <1>1, <1>2, <1>3, <1>4, MoveKeeps

LEMMA CheckEntryKeeps ==
  ASSUME IInv, NEW p \in Process, CheckEntry(p)
  PROVE  IInv'
<1> DEFINE dir == pc[p][2]
           entry == EntryFor(p, dir)
<1>1. Quiet /\ UNCHANGED <<trust, held, read, loaded, faults>> /\ pc[p][1] = "check"
  BY DEF CheckEntry, Quiet, files, history, IInv, TypeOK
<1>2. held[p] \in verified /\ held[p] # None /\ held[p] \in Artifact
  BY <1>1 DEF IInv, TypeOK, Holder, Histories
<1>3. pc[p] \in {<<"check", "objects">>, <<"check", "manifests">>}
  BY <1>1 DEF IInv, TypeOK, Steps, Directory, Idle, Holder
<1>4. dir \in {"objects", "manifests"} /\ entry \in {ObjectOf(held[p]), ManifestOf(held[p])}
      /\ entry[2] # None
  BY <1>2, <1>3, EntriesOfProcess, EntriesOfAnArtifact DEF ObjectOf, ManifestOf
<1>5. CASE pc' = [pc EXCEPT ![p] = <<"write", dir>>]
  <2>1. <<"write", dir>> \in Steps
    BY <1>4 DEF Steps, Directory
  <2>2. Holder(p)'
    <3>1. CASE pc[p] = <<"check", "objects">>
      <4>1. pc'[p] = <<"write", "objects">>
        BY <1>5, <3>1 DEF IInv, TypeOK
      <4> QED
        BY <1>1, <1>2, <4>1 DEF Holder, Quiet
    <3>2. CASE pc[p] = <<"check", "manifests">>
      <4>1. pc'[p] = <<"write", "manifests">>
        BY <1>5, <3>2 DEF IInv, TypeOK
      <4>2. Written(ObjectOf(held[p]))
        BY <3>2 DEF IInv, Holder
      <4> QED
        BY <1>1, <1>2, <4>1, <4>2 DEF Holder, Quiet, Written, ObjectOf
    <3> QED
      BY <1>3, <3>1, <3>2
  <2> QED
    BY <1>1, <1>2, <1>5, <2>1, <2>2, MoveKeeps DEF IInv, TypeOK
<1>6. CASE disk[entry] = entry[2] /\ pc' = [pc EXCEPT ![p] = After(dir)]
  <2>1. After(dir) \in Steps /\ After(dir)[1] \in {"check", "write"}
    BY <1>4 DEF Steps, Directory, After
  <2>2. Written(entry)
    BY <1>4, <1>6 DEF Written
  <2>3. Holder(p)'
    <3>1. CASE pc[p] = <<"check", "objects">>
      <4>1. entry = ObjectOf(held[p]) /\ pc'[p] = <<"check", "manifests">>
        BY <1>2, <1>6, <3>1, EntriesOfProcess DEF After, IInv, TypeOK
      <4> QED
        BY <1>1, <1>2, <2>2, <4>1 DEF Holder, Quiet, Written, ObjectOf
    <3>2. CASE pc[p] = <<"check", "manifests">>
      <4>1. entry = ManifestOf(held[p]) /\ pc'[p] = <<"write", "admissions">>
        BY <1>2, <1>6, <3>2, EntriesOfProcess DEF After, IInv, TypeOK
      <4>2. Written(ObjectOf(held[p]))
        BY <3>2 DEF IInv, Holder
      <4> QED
        BY <1>1, <1>2, <2>2, <4>1, <4>2 DEF Holder, Quiet, Written, FilesWritten, ObjectOf, ManifestOf
    <3> QED
      BY <1>3, <3>1, <3>2
  <2> QED
    BY <1>1, <1>2, <1>6, <2>1, <2>3, MoveKeeps DEF IInv, TypeOK
<1>7. CASE Stop(p)
  <2>1. Idle \in Steps /\ Idle[1] = "idle"
    BY DEF Steps, Idle
  <2>2. Holder(p)'
    BY <1>1, <1>2, <1>7 DEF Stop, Holder, Idle, Quiet, IInv, TypeOK
  <2> QED
    BY <1>1, <1>2, <1>7, <2>1, <2>2, MoveKeeps DEF Stop, IInv, TypeOK
<1> QED
  BY <1>5, <1>6, <1>7 DEF CheckEntry, Goto

LEMMA WriteFailsKeeps ==
  ASSUME IInv, NEW p \in Process, WriteFails(p)
  PROVE  IInv'
<1>1. Quiet /\ UNCHANGED <<trust, held, read, loaded>> /\ pc' = [pc EXCEPT ![p] = Idle]
  BY DEF WriteFails, Stop, Quiet, files, history, IInv, TypeOK
<1>2. faults' \in 0 .. MaxFaults
  BY BoundsAreNaturals DEF WriteFails, Fault, IInv, TypeOK
<1>3. Idle \in Steps /\ Idle[1] = "idle"
  BY DEF Steps, Idle
<1>4. Holder(p)'
  BY <1>1 DEF Holder, Idle, Quiet, IInv, TypeOK
<1> QED
  BY <1>1, <1>2, <1>3, <1>4, MoveKeeps

\* A step that ends what a process was at, and takes what it read or loaded.
LEMMA EndKeeps ==
  ASSUME IInv, Quiet, NEW p \in Process, UNCHANGED trust, faults' \in 0 .. MaxFaults,
         pc' = [pc EXCEPT ![p] = Idle],
         held' = held \/ held' = [held EXCEPT ![p] = None],
         read' = [read EXCEPT ![p] = None],
         \/ loaded' \in {loaded, [loaded EXCEPT ![p] = None]}
         \/ \E a \in signed : loaded' = [loaded EXCEPT ![p] = [bytes |-> a.component, of |-> a]]
  PROVE  IInv'
<1>1. TypeOK' /\ Shape'
  BY DEF IInv, TypeOK, Shape, Quiet, trust, Steps, Idle
<1>2. Holder(p)'
  BY DEF IInv, TypeOK, Holder, Idle, Quiet
<1>3. Reader(p)'
  BY DEF IInv, TypeOK, Shape, Reader, Idle, Quiet
<1>4. ASSUME NEW q \in Process, q # p
      PROVE  Holder(q)' /\ Reader(q)'
  BY <1>4, OthersKeep DEF IInv, TypeOK, Shape
<1> QED
  BY <1>1, <1>2, <1>3, <1>4, QuietKeeps DEF IInv

LEMMA KillKeeps ==
  ASSUME IInv, NEW p \in Process, Kill(p)
  PROVE  IInv'
<1>1. Quiet /\ faults' \in 0 .. MaxFaults
  BY BoundsAreNaturals DEF Kill, Fault, Quiet, files, history, IInv, TypeOK
<1> QED
  BY <1>1, EndKeeps DEF Kill, Stop

----------------------------------------------------------------------------
(* load                                                                    *)

LEMMA LoadKeeps ==
  ASSUME IInv, NEW p \in Process, NEW want \in Artifact, Load(p, want)
  PROVE  IInv'
<1> DEFINE e == disk[<<"admissions", want.manifest>>]
<1>1. /\ Quiet /\ UNCHANGED <<trust, held, loaded, faults>>
      /\ pc' = [pc EXCEPT ![p] = <<"load", "manifests">>]
      /\ read' = [read EXCEPT ![p] = [want |-> want, record |-> e.payload]]
  BY DEF Load, Goto, Quiet, files, history, IInv, TypeOK
<1>2. e # None /\ RecordAdmits(e, want, clock)
  BY DEF Load
<1>3. e \in Admission
  BY <1>2 DEF RecordAdmits, IInv, TypeOK, Artifact
<1>4. want \in signed
  <2>1. Pair(e) \in signed
    BY <1>3 DEF IInv, Records, MadeByAdmit, Artifact
  <2>2. Pair(e) = want
    BY <1>2 DEF Pair, RecordAdmits, Artifact
  <2> QED
    BY <2>1, <2>2
<1>5. e.payload \in Claims
  BY <1>3, AdmissionFields
<1> HIDE DEF e
<1>6. TypeOK' /\ Shape'
  <2>1. <<"load", "manifests">> \in Steps
    BY DEF Steps, Directory
  <2> QED
    BY <1>1, <1>5, <2>1 DEF IInv, TypeOK, Shape, Quiet, trust
<1>7. ASSUME NEW q \in Process
      PROVE  Holder(q)' /\ Reader(q)'
  <2>1. CASE q = p
    BY <1>1, <1>4, <2>1 DEF IInv, TypeOK, Shape, Holder, Reader, Quiet
  <2>2. CASE q # p
    BY <1>1, <2>2, OthersKeep DEF IInv, TypeOK, Shape
  <2> QED
    BY <2>1, <2>2
<1> QED
  BY <1>1, <1>6, <1>7, QuietKeeps DEF IInv

LEMMA LoadManifestKeeps ==
  ASSUME IInv, NEW p \in Process, LoadManifest(p)
  PROVE  IInv'
<1>1. Quiet /\ UNCHANGED <<trust, held, loaded, faults>> /\ pc[p] = <<"load", "manifests">>
  BY DEF LoadManifest, Quiet, files, history, IInv, TypeOK
<1>2. CASE pc' = [pc EXCEPT ![p] = <<"load", "objects">>] /\ UNCHANGED read
  <2>1. TypeOK' /\ Shape'
    <3>1. <<"load", "objects">> \in Steps
      BY DEF Steps, Directory
    <3> QED
      BY <1>1, <1>2, <3>1 DEF IInv, TypeOK, Shape, Quiet, trust
  <2>2. ASSUME NEW q \in Process
        PROVE  Holder(q)' /\ Reader(q)'
    <3>1. CASE q = p
      BY <1>1, <1>2, <3>1 DEF IInv, TypeOK, Holder, Reader, Quiet
    <3>2. CASE q # p
      BY <1>1, <1>2, <3>2, OthersKeep DEF IInv, TypeOK
    <3> QED
      BY <3>1, <3>2
  <2> QED
    BY <1>1, <2>1, <2>2, QuietKeeps DEF IInv
<1>3. CASE Stop(p) /\ read' = [read EXCEPT ![p] = None]
  BY <1>1, <1>3, EndKeeps DEF Stop, IInv, TypeOK
<1> QED
  BY <1>2, <1>3 DEF LoadManifest, Goto

LEMMA LoadComponentKeeps ==
  ASSUME IInv, NEW p \in Process, LoadComponent(p)
  PROVE  IInv'
<1> DEFINE want == read[p].want
           bytes == disk[<<"objects", want.component>>]
<1>1. /\ Quiet /\ UNCHANGED <<trust, held, faults>> /\ pc[p] = <<"load", "objects">>
      /\ pc' = [pc EXCEPT ![p] = Idle] /\ read' = [read EXCEPT ![p] = None]
  BY DEF LoadComponent, Stop, Quiet, files, history, IInv, TypeOK
<1>2. want \in signed
  BY <1>1 DEF IInv, Reader
<1>3. \/ loaded' = loaded
      \/ bytes = want.component /\ loaded' = [loaded EXCEPT ![p] = [bytes |-> bytes, of |-> want]]
  BY DEF LoadComponent, ComponentAgrees
<1>4. \/ loaded' = loaded
      \/ \E a \in signed : loaded' = [loaded EXCEPT ![p] = [bytes |-> a.component, of |-> a]]
  BY <1>2, <1>3
<1>5. faults' \in 0 .. MaxFaults
  BY <1>1 DEF IInv, TypeOK
<1> HIDE DEF want, bytes
<1> QED
  BY <1>1, <1>4, <1>5, EndKeeps

----------------------------------------------------------------------------
(* Steps that write.                                                       *)

LEMMA VerifyKeeps ==
  ASSUME IInv, NEW p \in Process, NEW e \in Publishable, NEW c \in Component, NEW issuer \in Issuer,
         Verify(p, e, c, issuer)
  PROVE  IInv'
<1> DEFINE a == [component |-> c, manifest |-> e.payload]
<1>1. /\ UNCHANGED <<trust, files, pc, read, loaded, clock, faults, signed, admitted, lost>>
      /\ held' = [held EXCEPT ![p] = a] /\ verified' = verified \cup {a}
      /\ pc[p] = Idle
      /\ Structural(e.payload) /\ e.payload.component = c
  BY DEF Verify
<1>2. a \in Artifact /\ Structural(a.manifest) /\ a.manifest.component = a.component
  BY <1>1, SoundOnesAreManifests DEF Artifact
<1> HIDE DEF a
<1>3. TypeOK' /\ Shape'
  BY <1>1, <1>2 DEF IInv, TypeOK, Shape, trust, files, Idle
<1>4. Histories'
  BY <1>1, <1>2 DEF IInv, Histories
<1>5. Records' /\ AdmittedFiles'
  BY <1>1 DEF IInv, Records, AdmittedFiles, FilesWritten, Written, MadeByAdmit, files
<1>6. ASSUME NEW q \in Process
      PROVE  Holder(q)' /\ Reader(q)'
  <2>1. CASE q = p
    BY <1>1, <2>1 DEF IInv, TypeOK, Holder, Reader, Idle
  <2>2. CASE q # p
    BY <1>1, <2>2 DEF IInv, TypeOK, Holder, Reader, FilesWritten, Written, files
  <2> QED
    BY <2>1, <2>2
<1> QED
  BY <1>3, <1>4, <1>5, <1>6 DEF IInv

LEMMA FlushEntryKeeps ==
  ASSUME IInv, NEW p \in Process, FlushEntry(p)
  PROVE  IInv'
<1> DEFINE dir == pc[p][2]
<1>1. /\ UNCHANGED <<trust, disk, held, read, loaded, clock, faults, verified, signed, lost>>
      /\ pc[p][1] = "flush"
      /\ unflushed' \subseteq unflushed
  BY DEF FlushEntry
<1>2. held[p] \in verified /\ held[p] # None /\ held[p] \in Artifact
  BY <1>1 DEF IInv, TypeOK, Holder, Histories
<1>3. pc[p] \in {<<"flush", "objects">>, <<"flush", "manifests">>, <<"flush", "admissions">>}
  BY <1>1 DEF IInv, TypeOK, Steps, Directory, Idle
<1>4. \/ /\ pc[p] = <<"flush", "objects">>
         /\ pc' = [pc EXCEPT ![p] = <<"check", "manifests">>] /\ UNCHANGED admitted
      \/ /\ pc[p] = <<"flush", "manifests">>
         /\ pc' = [pc EXCEPT ![p] = <<"write", "admissions">>] /\ UNCHANGED admitted
      \/ /\ pc[p] = <<"flush", "admissions">>
         /\ pc' = [pc EXCEPT ![p] = Idle] /\ admitted' = admitted \cup {held[p]}
  BY <1>3 DEF FlushEntry, After, Stop
<1>5. Histories' /\ Records' /\ AdmittedFiles'
  <2>1. Records'
    BY <1>1 DEF IInv, Records, MadeByAdmit, FilesWritten, Written
  <2>2. Histories'
    BY <1>1, <1>4 DEF IInv, Histories, Holder
  <2>3. ASSUME NEW a \in admitted' PROVE FilesWritten(a) /\ Written(RecordOf(a))
    BY <1>4 DEF IInv, AdmittedFiles, Holder
  <2>4. AdmittedFiles'
    BY <1>1, <2>3 DEF AdmittedFiles, FilesWritten, Written
  <2> QED
    BY <2>1, <2>2, <2>4
<1>6. TypeOK' /\ Shape'
  <2>1. {Idle, <<"check", "manifests">>, <<"write", "admissions">>} \subseteq Steps
    BY DEF Steps, Directory
  <2>2. admitted' \subseteq signed
    BY <1>1, <1>5 DEF Histories
  <2> QED
    BY <1>1, <1>2, <1>4, <2>1, <2>2 DEF IInv, TypeOK, Shape, trust, Idle
<1>7. ASSUME NEW q \in Process
      PROVE  Holder(q)' /\ Reader(q)'
  <2>1. CASE q = p
    BY <1>1, <1>2, <1>4, <2>1
       DEF IInv, TypeOK, Holder, Reader, FilesWritten, Written, ObjectOf, ManifestOf, RecordOf, Idle
  <2>2. CASE q # p
    BY <1>1, <1>4, <2>2 DEF IInv, TypeOK, Holder, Reader, FilesWritten, Written
  <2> QED
    BY <2>1, <2>2
<1> QED
  BY <1>5, <1>6, <1>7 DEF IInv

----------------------------------------------------------------------------
(* Steps that change a file.                                               *)

\* Nothing goes but with the power.
NothingGoes ==
  /\ lost \subseteq lost'
  /\ \A entry \in Entry : disk'[entry] = None => disk[entry] = None \/ entry \in lost'

LEMMA FilesStay ==
  ASSUME NothingGoes, NEW a \in Artifact
  PROVE  /\ Written(ObjectOf(a)) => Written(ObjectOf(a))'
         /\ FilesWritten(a) => FilesWritten(a)'
         /\ Written(RecordOf(a)) => Written(RecordOf(a))'
BY EntriesOfAnArtifact, WrittenStays
   DEF NothingGoes, FilesWritten, ObjectOf, ManifestOf, RecordOf

LEMMA AdmittedStay ==
  ASSUME IInv, NothingGoes, UNCHANGED admitted
  PROVE  AdmittedFiles'
<1>1. \A a \in admitted : a \in Artifact /\ FilesWritten(a) /\ Written(RecordOf(a))
  BY DEF IInv, Histories, AdmittedFiles
<1>2. \A a \in admitted : FilesWritten(a)' /\ Written(RecordOf(a))'
  BY <1>1, FilesStay
<1> QED
  BY <1>2 DEF AdmittedFiles, FilesWritten, Written, ObjectOf, ManifestOf, RecordOf

LEMMA HoldersStay ==
  ASSUME IInv, NothingGoes, NEW q \in Process, UNCHANGED <<pc[q], held[q], verified>>,
         signed \subseteq signed'
  PROVE  Holder(q)'
<1>1. CASE held[q] = None
  BY <1>1 DEF IInv, TypeOK, Holder, Histories
<1>2. CASE held[q] \in verified
  <2>1. held[q] \in Artifact
    BY <1>2 DEF IInv, Histories
  <2>2. /\ Written(ObjectOf(held[q])) => Written(ObjectOf(held[q]))'
        /\ FilesWritten(held[q]) => FilesWritten(held[q])'
        /\ Written(RecordOf(held[q])) => Written(RecordOf(held[q]))'
    BY <2>1, FilesStay DEF FilesWritten, Written, ObjectOf, ManifestOf, RecordOf
  <2> QED
    BY <1>2, <2>2 DEF IInv, Holder
<1> QED
  BY <1>1, <1>2 DEF IInv, Holder

\* A record that admit made keeps what it stands for.
LEMMA RecordStays ==
  ASSUME IInv, NothingGoes, UNCHANGED clock, signed \subseteq signed',
         NEW m \in Manifest, NEW e \in Admission, e = disk[<<"admissions", m>>]
  PROVE  MadeByAdmit(e)' /\ FilesWritten(Pair(e))'
<1>1. MadeByAdmit(e) /\ FilesWritten(Pair(e))
  BY DEF IInv, Records
<1>2. Pair(e) \in Artifact
  BY <1>1 DEF MadeByAdmit, IInv, Histories
<1> QED
  BY <1>1, <1>2, FilesStay
     DEF MadeByAdmit, FilesWritten, Written, ObjectOf, ManifestOf, Pair

LEMMA ContentsFit ==
  ASSUME IInv, NEW p \in Process, held[p] \in verified, NEW k \in PublicKey
  PROVE  /\ Contents(p, "objects", k) = held[p].component
         /\ Contents(p, "manifests", k) = held[p].manifest
         /\ Contents(p, "admissions", k) \in Admission
         /\ Pair(Contents(p, "admissions", k)) = held[p]
         /\ Contents(p, "admissions", k).payload.issuer = Owner
         /\ Contents(p, "admissions", k).payload.at = clock
         /\ Contents(p, "admissions", k).payload.profile = held[p].manifest.profile
<1>1. held[p] \in Artifact
  BY DEF IInv, Histories
<1> DEFINE r == [key |-> k, issuer |-> Owner, component |-> held[p].component,
                 manifest |-> held[p].manifest, profile |-> held[p].manifest.profile, at |-> clock]
<1>2. r \in Claims
  BY <1>1, OwnerIsAnIssuer DEF Claims, Artifact, IInv, TypeOK
<1>3. Contents(p, "admissions", k) = Sign("artifact-admission", r.key, r)
  BY DEF Contents
<1>4. Contents(p, "admissions", k) \in Admission /\ Contents(p, "admissions", k).payload = r
  BY <1>2, <1>3 DEF Admission, Sign
<1>5. Pair(Contents(p, "admissions", k)) = held[p]
  BY <1>1, <1>4 DEF Pair, Artifact
<1>6. /\ Contents(p, "objects", k) = held[p].component
      /\ Contents(p, "manifests", k) = held[p].manifest
  BY DEF Contents, EntryFor
<1> QED
  BY <1>4, <1>5, <1>6

LEMMA WriteEntryKeeps ==
  ASSUME IInv, NEW p \in Process, NEW k \in PublicKey, WriteEntry(p, k)
  PROVE  IInv'
<1> DEFINE dir == pc[p][2]
           bytes == Contents(p, dir, k)
           record == Contents(p, "admissions", k)
<1>1. /\ UNCHANGED <<trust, held, read, loaded, clock, faults, verified, admitted, lost>>
      /\ pc[p][1] = "write"
      /\ disk' = [disk EXCEPT ![EntryFor(p, dir)] = bytes]
      /\ unflushed' = unflushed \cup {EntryFor(p, dir)}
      /\ signed' = IF dir = "admissions" THEN signed \cup {held[p]} ELSE signed
      /\ pc' = [pc EXCEPT ![p] = <<"flush", dir>>]
  BY DEF WriteEntry, Goto
<1>2. held[p] \in verified /\ held[p] # None /\ held[p] \in Artifact
      /\ held[p].manifest.component = held[p].component
  BY <1>1 DEF IInv, TypeOK, Holder, Histories
<1>3. dir \in Directory /\ pc[p] = <<"write", dir>>
  BY <1>1 DEF IInv, TypeOK, Steps, Directory, Idle
<1>4. EntryFor(p, dir) \in Entry
  BY <1>2, <1>3, EntriesOfProcess, EntriesOfAnArtifact DEF Directory
<1>5. /\ held[p].component # None /\ held[p].manifest # None /\ record # None
      /\ record \in Admission
  BY <1>2, EntriesOfAnArtifact, ContentsFit, NoneIsNoRecord
<1>6. bytes # None /\ disk'[EntryFor(p, dir)] = bytes
  BY <1>1, <1>2, <1>3, <1>4, <1>5, ContentsFit DEF Directory, IInv, TypeOK
<1>7. NothingGoes
  BY <1>1, <1>4, <1>6 DEF NothingGoes, IInv, TypeOK
<1>8. signed \subseteq signed' /\ signed' \subseteq signed \cup {held[p]}
  BY <1>1
<1>9. Histories'
  BY <1>1, <1>2, <1>8 DEF IInv, Histories
<1>10. ASSUME NEW m \in Manifest
       PROVE  /\ disk'[<<"admissions", m>>] \in Admission \cup {Damaged, None}
              /\ disk'[<<"admissions", m>>] \in Admission =>
                   /\ MadeByAdmit(disk[<<"admissions", m>>])'
                   /\ FilesWritten(Pair(disk[<<"admissions", m>>]))'
  <2>1. CASE EntryFor(p, dir) = <<"admissions", m>>
    <3>1. dir = "admissions" /\ disk'[<<"admissions", m>>] = record
      BY <1>6, <2>1 DEF EntryFor
    <3>2. Pair(record) = held[p] /\ FilesWritten(held[p])
      BY <1>2, <1>3, <3>1, ContentsFit DEF IInv, Holder
    <3>3. FilesWritten(held[p])'
      BY <1>1, <1>2, <1>7, <3>2, FilesStay
         DEF FilesWritten, Written, ObjectOf, ManifestOf
    <3>4. /\ record.payload.issuer = Owner /\ record.payload.at = clock
          /\ record.payload.profile = record.payload.manifest.profile
      <4>1. record.payload.manifest = Pair(record).manifest
        BY DEF Pair
      <4> QED
        BY <1>2, <3>2, <4>1, ContentsFit
    <3>5. clock <= clock
      BY BoundsAreNaturals DEF IInv, TypeOK
    <3> HIDE DEF record
    <3>6. MadeByAdmit(disk[<<"admissions", m>>])'
      BY <1>1, <3>1, <3>2, <3>4, <3>5 DEF MadeByAdmit, Pair
    <3>7. FilesWritten(Pair(disk[<<"admissions", m>>]))'
      BY <1>1, <3>1, <3>2, <3>3
         DEF FilesWritten, Written, ObjectOf, ManifestOf, Pair
    <3> QED
      BY <1>5, <3>1, <3>6, <3>7 DEF record
  <2>2. CASE EntryFor(p, dir) # <<"admissions", m>>
    <3>1. disk'[<<"admissions", m>>] = disk[<<"admissions", m>>]
      BY <1>1, <2>2 DEF IInv, TypeOK, Entry
    <3>2. disk[<<"admissions", m>>] \in Admission \cup {Damaged, None}
      BY DEF IInv, TypeOK
    <3>3. ASSUME NEW e \in Admission, e = disk[<<"admissions", m>>]
          PROVE  /\ MadeByAdmit(disk[<<"admissions", m>>])'
                 /\ FilesWritten(Pair(disk[<<"admissions", m>>]))'
      <4>1. MadeByAdmit(e)' /\ FilesWritten(Pair(e))'
        BY <1>1, <1>7, <1>8, <3>3, RecordStays
      <4> QED
        BY <3>1, <3>3, <4>1
           DEF MadeByAdmit, FilesWritten, Written, ObjectOf, ManifestOf, Pair
    <3> QED
      BY <3>1, <3>2, <3>3
  <2> QED
    BY <2>1, <2>2
<1>11. Records'
  BY <1>10 DEF Records
<1>12. TypeOK' /\ Shape'
  <2>1. \A c \in Component : disk'[<<"objects", c>>] \in Component \cup {Damaged, None}
    <3>1. ASSUME EntryFor(p, dir)[1] = "objects" PROVE bytes \in Component
      BY <1>2, <3>1, ContentsFit DEF EntryFor, Artifact
    <3> HIDE DEF bytes
    <3> QED
      BY <1>1, <1>4, <3>1 DEF IInv, TypeOK, Entry
  <2>2. \A m \in Manifest : disk'[<<"manifests", m>>] \in Manifest \cup {Damaged, None}
    <3>1. ASSUME EntryFor(p, dir)[1] = "manifests" PROVE bytes \in Manifest
      BY <1>2, <3>1, ContentsFit DEF EntryFor, Artifact
    <3> HIDE DEF bytes
    <3> QED
      BY <1>1, <1>4, <3>1 DEF IInv, TypeOK, Entry
  <2>3. <<"flush", dir>> \in Steps
    BY <1>3 DEF Steps, Directory
  <2>4. DOMAIN disk' = Entry
    BY <1>1 DEF IInv, TypeOK
  <2>5. signed' \subseteq verified' /\ admitted' \subseteq signed'
    BY <1>9 DEF Histories
  <2>6. unflushed' \subseteq Entry
    BY <1>1, <1>4 DEF IInv, TypeOK
  <2> HIDE DEF dir, bytes, record
  <2> QED
    BY <1>1, <1>2, <1>10, <2>1, <2>2, <2>3, <2>4, <2>5, <2>6
       DEF IInv, TypeOK, Shape, trust, Stores
<1>13. ASSUME NEW q \in Process
       PROVE  Holder(q)' /\ Reader(q)'
  <2>1. Reader(q)'
    <3>1. pc'[q][1] = "load" => pc[q][1] = "load"
      BY <1>1 DEF IInv, TypeOK
    <3> QED
      BY <1>1, <1>8, <3>1 DEF IInv, Reader
  <2>2. CASE q # p
    BY <2>1, <1>1, <1>7, <1>8, <2>2, HoldersStay DEF IInv, TypeOK
  <2>3. CASE q = p
    <3> DEFINE a == held[p]
    <3>1. /\ Written(ObjectOf(a)) => Written(ObjectOf(a))'
          /\ FilesWritten(a) => FilesWritten(a)'
      BY <1>1, <1>2, <1>7, FilesStay DEF FilesWritten, Written, ObjectOf, ManifestOf
    <3>2. pc'[p] = <<"flush", dir>> /\ held'[p] = a /\ a \in verified'
      BY <1>1, <1>2 DEF IInv, TypeOK
    <3>3. CASE dir = "objects"
      <4>1. Written(ObjectOf(a))'
        BY <1>1, <1>2, <1>6, <3>3, EntriesOfProcess DEF Written, ObjectOf
      <4> QED
        BY <2>1, <1>1, <2>3, <3>2, <3>3, <4>1 DEF Holder
    <3>4. CASE dir = "manifests"
      <4>1. Written(ManifestOf(a))'
        BY <1>1, <1>2, <1>6, <3>4, EntriesOfProcess DEF Written, ManifestOf
      <4>2. Written(ObjectOf(a))'
        BY <1>3, <3>1, <3>4 DEF IInv, Holder
      <4> QED
        BY <2>1, <1>1, <2>3, <3>2, <3>4, <4>1, <4>2 DEF Holder, FilesWritten, ObjectOf, ManifestOf, Written
    <3>5. CASE dir = "admissions"
      <4>1. Written(RecordOf(a))'
        BY <1>1, <1>2, <1>6, <3>5, EntriesOfProcess DEF Written, RecordOf
      <4>2. FilesWritten(a)'
        BY <1>3, <3>1, <3>5 DEF IInv, Holder
      <4>3. a \in signed'
        BY <1>1, <3>5
      <4> QED
        BY <2>1, <1>1, <2>3, <3>2, <3>5, <4>1, <4>2, <4>3
           DEF Holder, FilesWritten, ObjectOf, ManifestOf, RecordOf, Written
    <3> QED
      BY <1>3, <3>3, <3>4, <3>5 DEF Directory
  <2> QED
    BY <2>1, <2>2, <2>3
<1> QED
  BY <1>1, <1>7, <1>9, <1>11, <1>12, <1>13, AdmittedStay DEF IInv

LEMMA DamageKeeps ==
  ASSUME IInv, NEW entry \in Entry, Damage(entry)
  PROVE  IInv'
<1>1. /\ UNCHANGED <<trust, unflushed, pc, held, read, loaded, clock, history>>
      /\ faults' \in 0 .. MaxFaults
  BY BoundsAreNaturals DEF Damage, Fault, IInv, TypeOK
<1>2. PICK bytes : /\ disk' = [disk EXCEPT ![entry] = bytes]
                   /\ \/ bytes = Damaged
                      \/ \E other \in Entry : /\ other[1] = entry[1] /\ disk[other] # None
                                              /\ bytes = disk[other]
  BY DEF Damage
<1>3. bytes # None
  BY <1>2, NoneIsNoFile
<1>4. NothingGoes
  BY <1>1, <1>2, <1>3 DEF NothingGoes, history, IInv, TypeOK
<1>5. ASSUME NEW m \in Manifest
      PROVE  /\ disk'[<<"admissions", m>>] \in Admission \cup {Damaged, None}
             /\ disk'[<<"admissions", m>>] \in Admission =>
                  /\ MadeByAdmit(disk[<<"admissions", m>>])'
                  /\ FilesWritten(Pair(disk[<<"admissions", m>>]))'
  <2>1. disk'[<<"admissions", m>>] = Damaged
        \/ \E n \in Manifest : disk'[<<"admissions", m>>] = disk[<<"admissions", n>>]
    <3>1. CASE entry = <<"admissions", m>>
      BY <1>2, <3>1 DEF IInv, TypeOK, Entry
    <3>2. CASE entry # <<"admissions", m>>
      BY <1>2, <3>2 DEF IInv, TypeOK, Entry
    <3> QED
      BY <3>1, <3>2
  <2>2. CASE disk'[<<"admissions", m>>] = Damaged
    BY <2>2, NoneIsNoRecord
  <2>3. ASSUME NEW n \in Manifest, disk'[<<"admissions", m>>] = disk[<<"admissions", n>>]
        PROVE  /\ disk'[<<"admissions", m>>] \in Admission \cup {Damaged, None}
               /\ disk'[<<"admissions", m>>] \in Admission =>
                    /\ MadeByAdmit(disk[<<"admissions", m>>])'
                    /\ FilesWritten(Pair(disk[<<"admissions", m>>]))'
    <3>1. disk[<<"admissions", n>>] \in Admission \cup {Damaged, None}
      BY DEF IInv, TypeOK
    <3>2. ASSUME NEW e \in Admission, e = disk[<<"admissions", n>>]
          PROVE  /\ MadeByAdmit(disk[<<"admissions", m>>])'
                 /\ FilesWritten(Pair(disk[<<"admissions", m>>]))'
      <4>1. MadeByAdmit(e)' /\ FilesWritten(Pair(e))'
        BY <1>1, <1>4, <3>2, RecordStays DEF history
      <4> QED
        BY <2>3, <3>2, <4>1
           DEF MadeByAdmit, FilesWritten, Written, ObjectOf, ManifestOf, Pair
    <3> QED
      BY <2>3, <3>1, <3>2
  <2> QED
    BY <2>1, <2>2, <2>3
<1>6. TypeOK' /\ Shape'
  <2>1. /\ \A c \in Component : disk'[<<"objects", c>>] \in Component \cup {Damaged, None}
        /\ \A m \in Manifest : disk'[<<"manifests", m>>] \in Manifest \cup {Damaged, None}
    <3>1. entry[1] = "objects" => bytes \in Component \cup {Damaged, None}
      BY <1>2 DEF IInv, TypeOK, Entry
    <3>2. ASSUME entry[1] = "manifests" PROVE bytes \in Manifest \cup {Damaged, None}
      <4>1. CASE bytes = Damaged
        BY <4>1
      <4>2. ASSUME NEW other \in Entry, other[1] = "manifests", bytes = disk[other]
            PROVE  bytes \in Manifest \cup {Damaged, None}
        <5>1. PICK m \in Manifest : other = <<"manifests", m>>
          BY <4>2 DEF Entry
        <5> QED
          BY <4>2, <5>1 DEF IInv, TypeOK
      <4> QED
        BY <1>2, <3>2, <4>1, <4>2
    <3> QED
      BY <1>2, <3>1, <3>2 DEF IInv, TypeOK, Entry
  <2>2. DOMAIN disk' = Entry
    BY <1>2 DEF IInv, TypeOK
  <2> QED
    BY <1>1, <1>5, <2>1, <2>2 DEF IInv, TypeOK, Shape, trust, history, Stores
<1>7. Histories'
  BY <1>1 DEF IInv, Histories, history
<1>8. Records'
  BY <1>5 DEF Records
<1>9. AdmittedFiles'
  BY <1>1, <1>4, AdmittedStay DEF history
<1>10. \A q \in Process : Holder(q)' /\ Reader(q)'
  BY <1>1, <1>4, HoldersStay DEF IInv, Reader, history
<1> QED
  BY <1>6, <1>7, <1>8, <1>9, <1>10 DEF IInv

LEMMA PowerLossKeeps ==
  ASSUME IInv, PowerLoss
  PROVE  IInv'
<1>1. PICK gone \in SUBSET unflushed :
        /\ disk' = [e \in Entry |-> IF e \in gone THEN None ELSE disk[e]]
        /\ lost' = lost \cup gone
  BY DEF PowerLoss
<1>2. /\ UNCHANGED <<trust, clock, verified, signed, admitted>>
      /\ unflushed' = {}
      /\ pc' = [p \in Process |-> Idle]
      /\ held' = [p \in Process |-> None]
      /\ read' = [p \in Process |-> None]
      /\ loaded' = [p \in Process |-> None]
      /\ faults' \in 0 .. MaxFaults
  BY BoundsAreNaturals DEF PowerLoss, Fault, IInv, TypeOK
<1>3. NothingGoes
  BY <1>1 DEF NothingGoes
<1>4. ASSUME NEW m \in Manifest
      PROVE  /\ disk'[<<"admissions", m>>] \in Admission \cup {Damaged, None}
             /\ disk'[<<"admissions", m>>] \in Admission =>
                  /\ MadeByAdmit(disk[<<"admissions", m>>])'
                  /\ FilesWritten(Pair(disk[<<"admissions", m>>]))'
  <2>1. disk'[<<"admissions", m>>] \in {None, disk[<<"admissions", m>>]}
    BY <1>1 DEF Entry
  <2>2. disk[<<"admissions", m>>] \in Admission \cup {Damaged, None}
    BY DEF IInv, TypeOK
  <2>3. ASSUME NEW e \in Admission, e = disk[<<"admissions", m>>], disk'[<<"admissions", m>>] = e
        PROVE  /\ MadeByAdmit(disk[<<"admissions", m>>])'
               /\ FilesWritten(Pair(disk[<<"admissions", m>>]))'
    <3>1. MadeByAdmit(e)' /\ FilesWritten(Pair(e))'
      BY <1>2, <1>3, <2>3, RecordStays
    <3> QED
      BY <2>3, <3>1
         DEF MadeByAdmit, FilesWritten, Written, ObjectOf, ManifestOf, Pair
  <2> QED
    BY <2>1, <2>2, <2>3, NoneIsNoRecord
<1>5. TypeOK' /\ Shape'
  <2>1. /\ \A c \in Component : disk'[<<"objects", c>>] \in Component \cup {Damaged, None}
        /\ \A m \in Manifest : disk'[<<"manifests", m>>] \in Manifest \cup {Damaged, None}
        /\ DOMAIN disk' = Entry
    BY <1>1 DEF IInv, TypeOK, Entry
  <2> QED
    BY <1>2, <1>4, <2>1 DEF IInv, TypeOK, Shape, trust, Stores, Steps, Idle
<1>6. Histories'
  BY <1>2 DEF IInv, Histories
<1>7. Records'
  BY <1>4 DEF Records
<1>8. AdmittedFiles'
  BY <1>2, <1>3, AdmittedStay
<1>9. \A q \in Process : Holder(q)' /\ Reader(q)'
  BY <1>2 DEF Holder, Reader, Idle
<1> QED
  BY <1>5, <1>6, <1>7, <1>8, <1>9 DEF IInv

----------------------------------------------------------------------------

LEMMA StutterKeeps ==
  ASSUME IInv, UNCHANGED vars
  PROVE  IInv'
<1>1. Quiet /\ UNCHANGED <<trust, pc, held, read, loaded, faults>>
  BY BoundsAreNaturals DEF vars, Quiet, trust, IInv, TypeOK
<1>2. TypeOK' /\ Shape'
  BY <1>1 DEF IInv, TypeOK, Shape, Quiet, trust, Stores
<1>3. \A q \in Process : Holder(q)' /\ Reader(q)'
  BY <1>1, OthersKeep
<1> QED
  BY <1>1, <1>2, <1>3, QuietKeeps DEF IInv

LEMMA Inductive == IInv /\ [Next]_vars => IInv'
<1> SUFFICES ASSUME IInv, [Next]_vars PROVE IInv'
  OBVIOUS
<1>1. CASE Decide \/ Tick
  BY <1>1, TrustKeeps DEF Decide
<1>2. ASSUME NEW p \in Process, Call(p) PROVE IInv'
  <2>1. CASE \E e \in Publishable, c \in Component, issuer \in Issuer : Verify(p, e, c, issuer)
    BY <2>1, VerifyKeeps
  <2>2. CASE Drop(p) \/ Admit(p) \/ CheckEntry(p) \/ FlushEntry(p)
    BY <2>2, DropKeeps, AdmitKeeps, CheckEntryKeeps, FlushEntryKeeps
  <2>3. CASE \E k \in PublicKey : WriteEntry(p, k)
    BY <2>3, WriteEntryKeeps
  <2>4. CASE (\E want \in Artifact : Load(p, want)) \/ LoadManifest(p) \/ LoadComponent(p)
    BY <2>4, LoadKeeps, LoadManifestKeeps, LoadComponentKeeps
  <2> QED
    BY <1>2, <2>1, <2>2, <2>3, <2>4 DEF Call
<1>3. CASE Break
  BY <1>3, WriteFailsKeeps, KillKeeps, DamageKeeps, PowerLossKeeps DEF Break
<1>4. CASE UNCHANGED vars
  BY <1>4, StutterKeeps
<1> QED
  BY <1>1, <1>2, <1>3, <1>4 DEF Next

----------------------------------------------------------------------------
(* The theorems.                                                           *)

\* Trust stores, files, processes and histories keep to their types.
THEOREM TypeCorrect == Spec => []TypeOK
<1>1. IInv => TypeOK
  BY DEF IInv
<1> QED
  BY <1>1, Initially, Inductive, PTL DEF Spec

\* What load hands out is what was asked for and what the owner admitted.
THEOREM LoadsAreAdmitted == Spec => []LoadedIsAdmitted
<1>1. IInv => LoadedIsAdmitted
  BY DEF IInv, Reader, LoadedIsAdmitted
<1> QED
  BY <1>1, Initially, Inductive, PTL DEF Spec

\* A record on disk has its files, unless the power took them.
THEOREM RecordsAreBacked == Spec => []RecordIsBacked
<1>1. ASSUME IInv PROVE RecordIsBacked
  <2> SUFFICES ASSUME NEW m \in Manifest, Undamaged(<<"admissions", m>>)
               PROVE  \A entry \in {<<"objects", m.component>>, <<"manifests", m>>} :
                        disk[entry] = None => entry \in lost
    BY DEF RecordIsBacked
  <2> DEFINE e == disk[<<"admissions", m>>]
  <2>1. e \in Admission /\ e.payload.manifest = m
    BY DEF Undamaged
  <2>2. Pair(e) \in signed /\ FilesWritten(Pair(e)) /\ Pair(e).manifest = m
    BY <2>1, <1>1 DEF IInv, Records, MadeByAdmit, Pair
  <2>3. Pair(e).component = m.component
    BY <1>1, <2>2 DEF IInv, Histories
  <2> QED
    BY <2>2, <2>3 DEF FilesWritten, Written, ObjectOf, ManifestOf
<1> QED
  BY <1>1, Initially, Inductive, PTL DEF Spec

\* What admit returned can be loaded for as long as the key that signed its record
\* is in force, unless its files are damaged or the power took them.
THEOREM AdmittedStaysLoadable == Spec => []AdmittedLoads
<1>1. ASSUME IInv PROVE AdmittedLoads
  <2> SUFFICES ASSUME NEW a \in admitted,
                      \A entry \in {ObjectOf(a), ManifestOf(a), RecordOf(a)} :
                        entry \notin lost /\ (disk[entry] = None \/ Undamaged(entry))
               PROVE  LET e == disk[RecordOf(a)] IN
                      /\ e # None
                      /\ Verifies("artifact-admission", admitters, e, Owner, clock) =>
                           RecordAdmits(e, a, clock)
                      /\ ManifestAgrees(disk[ManifestOf(a)], e.payload, a)
                      /\ ComponentAgrees(disk[ObjectOf(a)], a)
    BY DEF AdmittedLoads, ObjectOf, ManifestOf, RecordOf
  <2> DEFINE e == disk[RecordOf(a)]
  <2>1. a \in Artifact /\ Structural(a.manifest) /\ a.manifest.component = a.component
    BY <1>1 DEF IInv, Histories
  <2>2. FilesWritten(a) /\ Written(RecordOf(a))
    BY <1>1 DEF IInv, AdmittedFiles
  <2>3. Undamaged(ObjectOf(a)) /\ Undamaged(ManifestOf(a)) /\ Undamaged(RecordOf(a)) /\ e # None
    BY <2>2 DEF FilesWritten, Written
  <2>4. disk[ObjectOf(a)] = a.component /\ disk[ManifestOf(a)] = a.manifest
    BY <2>3 DEF Undamaged, ObjectOf, ManifestOf
  <2>5. e \in Admission /\ e.payload.manifest = a.manifest
    BY <2>3 DEF Undamaged, RecordOf
  <2>6. /\ e.payload.issuer = Owner /\ e.payload.at <= clock
        /\ e.payload.profile = e.payload.manifest.profile
        /\ Pair(e) \in signed
    BY <1>1, <2>1, <2>5 DEF IInv, Records, MadeByAdmit, RecordOf, Artifact
  <2>7. e.payload.component = a.component
    <3>1. Pair(e).manifest.component = Pair(e).component
      BY <1>1, <2>6 DEF IInv, Histories
    <3> QED
      BY <2>1, <2>5, <3>1 DEF Pair
  <2>8. e.payload.key = e.by /\ e # Damaged
    BY <2>5, AdmissionFields, NoneIsNoRecord
  <2> HIDE DEF e
  <2>9. ASSUME Verifies("artifact-admission", admitters, e, Owner, clock)
        PROVE  RecordAdmits(e, a, clock)
    <3>1. admitters[e.by].issuer = Owner
      BY <2>9 DEF Verifies, InForce
    <3> QED
      BY <2>5, <2>6, <2>7, <2>8, <2>9, <3>1 DEF RecordAdmits
  <2>10. ManifestAgrees(disk[ManifestOf(a)], e.payload, a) /\ ComponentAgrees(disk[ObjectOf(a)], a)
    BY <2>1, <2>4, <2>5, <2>6 DEF ManifestAgrees, ComponentAgrees
  <2> QED
    BY <2>3, <2>9, <2>10 DEF e
<1> QED
  BY <1>1, Initially, Inductive, PTL DEF Spec
============================================================================

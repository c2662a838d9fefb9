---------------------------- MODULE ArtifactStore ----------------------------
(***************************************************************************)
(* From a publisher's signed manifest to an artifact the owner admitted    *)
(* (crates/artifact: manifest.rs, admission.rs).  Any number of processes  *)
(* verify, admit and load over one store directory; nothing serialises     *)
(* them.  A digest is what it is a digest of: a component or a manifest,   *)
(* or Damaged for bytes that are neither.                                  *)
(***************************************************************************)
EXTENDS RoleTrust, FiniteSets

CONSTANTS
  Process,
  Component,    \* component bytes
  Manifest,     \* manifest payloads, as records
  Publishable,  \* the signed manifests that are in circulation
  Owner,        \* the issuer the owner admits under
  Damaged,      \* bytes of no known digest
  Span,         \* the validities the owner may give a key
  MaxTime,
  MaxFaults     \* bounds kills, failed writes, damaged and misplaced files

ASSUME SpansAreValidities == Span \subseteq Validity
ASSUME BoundsAreNaturals == MaxTime \in Nat /\ MaxFaults \in Nat
ASSUME NoneIsNoFile == None # Damaged /\ None \notin Component \cup Manifest

VARIABLES
  publishers, admitters,   \* the trust stores of both roles
  disk,                    \* the store's directories: entry -> content
  unflushed,               \* entries renamed into a directory not flushed since
  pc, held, read,          \* per process: step, verified artifact, what load has read
  clock, faults,
  loaded,                  \* per process: what its last load handed out
  verified, signed, admitted,  \* history: pairs verified, given a record, admitted
  lost                     \* history: entries that went with the power

files == <<disk, unflushed>>
trust == <<publishers, admitters>>
history == <<verified, signed, admitted, lost>>
vars == <<publishers, admitters, disk, unflushed, pc, held, read, loaded, clock, faults,
          verified, signed, admitted, lost>>

------------------------------------------------------------------------------
(* Types.                                                                   *)

Directory == {"objects", "manifests", "admissions"}

Entry == ({"objects"} \X Component) \cup ({"manifests", "admissions"} \X Manifest)

\* AdmissionRecordClaimsV1.  The profile is backend, risk class and ABI.
Claims == [key : PublicKey, issuer : Issuer, component : Component, manifest : Manifest,
           profile : {m.profile : m \in Manifest}, at : 0..MaxTime]

\* What a signer of the admission role may have put its name to.
Admission == {Sign("artifact-admission", r.key, r) : r \in Claims}

ASSUME OwnerIsAnIssuer == Owner \in Issuer
ASSUME NoneIsNoRecord == None \notin Admission /\ Damaged \notin Admission

Artifact == [component : Component, manifest : Manifest]

\* The next step of a process, and the directory it is about.
Idle == <<"idle", "-">>
Steps == {Idle} \cup ({"check", "write", "flush", "load"} \X Directory)

\* TrustedKey and its status change: any key may be revoked and reinstated.
Stores == [PublicKey -> TrustedKey \cup {None}]

Init ==
  /\ publishers = EmptyStore /\ admitters = EmptyStore
  /\ disk = [e \in Entry |-> None]
  /\ unflushed = {}
  /\ pc = [p \in Process |-> Idle]
  /\ held = [p \in Process |-> None]
  /\ read = [p \in Process |-> None]
  /\ clock = 0 /\ faults = 0
  /\ loaded = [p \in Process |-> None]
  /\ verified = {} /\ signed = {} /\ admitted = {} /\ lost = {}

Goto(p, step, dir) == pc' = [pc EXCEPT ![p] = <<step, dir>>]
Stop(p) == pc' = [pc EXCEPT ![p] = Idle]

Fault == faults < MaxFaults /\ faults' = faults + 1

------------------------------------------------------------------------------
(* The owner's trust decisions.                                             *)

\* RoleTrustStore::add_key, for both roles
TrustPublisher(k, issuer, validity) ==
  /\ MayTrust(publishers, k, validity)
  /\ publishers' = [publishers EXCEPT ![k] = Trusted(issuer, validity)]
  /\ UNCHANGED <<admitters, files, pc, held, read, loaded, clock, faults, history>>

TrustAdmitter(k, validity) ==
  /\ MayTrust(admitters, k, validity)
  /\ admitters' = [admitters EXCEPT ![k] = Trusted(Owner, validity)]
  /\ UNCHANGED <<publishers, files, pc, held, read, loaded, clock, faults, history>>

\* RoleTrustStore::set_status, which revokes and reinstates.
SetStatus(k, revoked) ==
  /\ \/ /\ publishers[k] # None
        /\ publishers' = [publishers EXCEPT ![k].revoked = revoked]
        /\ UNCHANGED admitters
     \/ /\ admitters[k] # None
        /\ admitters' = [admitters EXCEPT ![k].revoked = revoked]
        /\ UNCHANGED publishers
  /\ UNCHANGED <<files, pc, held, read, loaded, clock, faults, history>>

Tick ==
  /\ clock < MaxTime
  /\ clock' = clock + 1
  /\ UNCHANGED <<trust, files, pc, held, read, loaded, faults, history>>

------------------------------------------------------------------------------
(* ArtifactVerifier::verify                                                 *)

\* PluginManifest::validate_structural: the only runtime profiles that exist.
Structural(m) == m.profile \in {"core-v1", "core-v2"} /\ m.sound

ASSUME SoundOnesAreManifests == \A e \in Publishable : Structural(e.payload) => e.payload \in Manifest

\* PluginManifest::validate: the manifest names the key that signed it.
NamesItsPublisher(m, k, issuer) == m.issuer = issuer /\ m.key = k

\* The intent fixes issuer, envelope and component; what was supplied must hash
\* to the same, so that supplied and intended are one here.
Verify(p, e, c, issuer) ==
  /\ pc[p] = Idle /\ held[p] = None /\ loaded[p] = None
  /\ Verifies("publisher", publishers, e, issuer, clock)
  /\ NamesItsPublisher(e.payload, e.by, issuer)
  /\ Structural(e.payload)
  /\ e.payload.component = c
  /\ held' = [held EXCEPT ![p] = [component |-> c, manifest |-> e.payload]]
  /\ verified' = verified \cup {[component |-> c, manifest |-> e.payload]}
  /\ UNCHANGED <<trust, files, pc, read, loaded, clock, faults, signed, admitted, lost>>

\* The caller drops the artifact, after an attempt to admit it or without one.
Drop(p) ==
  /\ pc[p] = Idle /\ (held[p] # None \/ loaded[p] # None)
  /\ held' = [held EXCEPT ![p] = None]
  /\ loaded' = [loaded EXCEPT ![p] = None]
  /\ UNCHANGED <<trust, files, pc, read, clock, faults, history>>

------------------------------------------------------------------------------
(* ArtifactStore::admit                                                     *)

EntryFor(p, dir) ==
  <<dir, IF dir = "objects" THEN held[p].component ELSE held[p].manifest>>

\* The digests are derived again from the bytes held, which never change.
Admit(p) ==
  /\ pc[p] = Idle /\ held[p] # None
  /\ disk[EntryFor(p, "admissions")] = None
  /\ Goto(p, "check", "objects")
  /\ UNCHANGED <<trust, files, held, read, loaded, clock, faults, history>>

\* Plausible bug: the record is written before the manifest.
After_RecordFirst(dir) ==
  IF dir = "objects" THEN <<"write", "admissions">> ELSE <<"write", "manifests">>

After(dir) == IF dir = "objects" THEN <<"check", "manifests">> ELSE <<"write", "admissions">>

\* store_content_addressed, store_manifest_payload: an entry that is there is
\* used if it hashes to its name, and an error otherwise.
CheckEntry(p) ==
  LET entry == EntryFor(p, pc[p][2]) IN
  /\ pc[p][1] = "check"
  /\ \/ disk[entry] = None /\ Goto(p, "write", pc[p][2])
     \/ disk[entry] = entry[2] /\ pc' = [pc EXCEPT ![p] = After(pc[p][2])]
     \/ disk[entry] \notin {None, entry[2]} /\ Stop(p)
  /\ UNCHANGED <<trust, files, held, read, loaded, clock, faults, history>>

\* What admit puts under the entry; the record is signed with key k, now.
Contents(p, dir, k) ==
  IF dir = "admissions"
  THEN Sign("artifact-admission", k,
            [key |-> k, issuer |-> Owner, component |-> held[p].component,
             manifest |-> held[p].manifest, profile |-> held[p].manifest.profile, at |-> clock])
  ELSE EntryFor(p, dir)[2]

\* write_exclusive_atomic up to its rename, which replaces what another process
\* put there since the check.
WriteEntry(p, k) ==
  LET dir == pc[p][2]
      entry == EntryFor(p, dir) IN
  /\ pc[p][1] = "write"
  /\ disk' = [disk EXCEPT ![entry] = Contents(p, dir, k)]
  /\ unflushed' = unflushed \cup {entry}
  /\ signed' = IF dir = "admissions" THEN signed \cup {held[p]} ELSE signed
  /\ Goto(p, "flush", dir)
  /\ UNCHANGED <<trust, held, read, loaded, clock, faults, verified, admitted, lost>>

\* sync_directory; after the last one admit returns the admitted artifact.
FlushEntry(p) ==
  LET dir == pc[p][2] IN
  /\ pc[p][1] = "flush"
  /\ unflushed' = {e \in unflushed : e[1] # dir}
  /\ \/ /\ dir = "admissions"
        /\ Stop(p)
        /\ admitted' = admitted \cup {held[p]}
     \/ /\ dir # "admissions"
        /\ pc' = [pc EXCEPT ![p] = After(dir)]
        /\ UNCHANGED admitted
  /\ UNCHANGED <<trust, disk, held, read, loaded, clock, faults, verified, signed, lost>>

\* Plausible bug: the entry is removed where only the temporary file may be.
WriteFails_RemovesEntry(p) ==
  /\ pc[p][1] \in {"write", "flush"}
  /\ Fault
  /\ Stop(p)
  /\ disk' = [disk EXCEPT ![EntryFor(p, pc[p][2])] = None]
  /\ UNCHANGED <<trust, unflushed, held, read, loaded, clock, history>>

\* A write fails before its rename, or the flush after it: admit returns an error,
\* and removes no more than its temporary file.
WriteFails(p) ==
  /\ pc[p][1] \in {"write", "flush"}
  /\ Fault
  /\ Stop(p)
  /\ UNCHANGED <<trust, files, held, read, loaded, clock, history>>

------------------------------------------------------------------------------
(* ArtifactStore::load, for one component and one manifest                  *)

\* Plausible bug: the record is believed because of where it lies.
RecordAdmits_ByName(e, want, now) ==
  /\ e # Damaged
  /\ Verifies("artifact-admission", admitters, e, Owner, now)
  /\ e.payload.at <= now

\* The record's signature, then its fields against the request and the envelope.
RecordAdmits(e, want, now) ==
  /\ e # Damaged
  /\ Verifies("artifact-admission", admitters, e, Owner, now)
  /\ e.payload.issuer = admitters[e.by].issuer
  /\ e.payload.key = e.by
  /\ e.payload.component = want.component
  /\ e.payload.manifest = want.manifest
  /\ e.payload.at <= now

\* The stored manifest hashes to its name, is sound, and agrees with the record.
ManifestAgrees(m, record, want) ==
  /\ m = want.manifest
  /\ Structural(m)
  /\ m.component = want.component
  /\ m.profile = record.profile

ComponentAgrees(bytes, want) == bytes = want.component

Load(p, want) ==
  LET e == disk[<<"admissions", want.manifest>>] IN
  /\ pc[p] = Idle /\ held[p] = None /\ loaded[p] = None
  /\ e # None
  /\ RecordAdmits(e, want, clock)
  /\ read' = [read EXCEPT ![p] = [want |-> want, record |-> e.payload]]
  /\ Goto(p, "load", "manifests")
  /\ UNCHANGED <<trust, files, held, loaded, clock, faults, history>>

LoadManifest(p) ==
  LET m == disk[<<"manifests", read[p].want.manifest>>]
      agrees == m \in Manifest /\ ManifestAgrees(m, read[p].record, read[p].want) IN
  /\ pc[p] = <<"load", "manifests">>
  /\ \/ agrees /\ Goto(p, "load", "objects") /\ UNCHANGED read
     \/ ~agrees /\ Stop(p) /\ read' = [read EXCEPT ![p] = None]
  /\ UNCHANGED <<trust, files, held, loaded, clock, faults, history>>

\* The artifact handed out is made of the bytes just read.
LoadComponent(p) ==
  LET bytes == disk[<<"objects", read[p].want.component>>]
      agrees == ComponentAgrees(bytes, read[p].want) IN
  /\ pc[p] = <<"load", "objects">>
  /\ \/ agrees /\ loaded' = [loaded EXCEPT ![p] = [bytes |-> bytes, of |-> read[p].want]]
     \/ ~agrees /\ UNCHANGED loaded
  /\ Stop(p)
  /\ read' = [read EXCEPT ![p] = None]
  /\ UNCHANGED <<trust, files, held, clock, faults, history>>

------------------------------------------------------------------------------
(* Faults.                                                                  *)

Kill(p) ==
  /\ pc[p] # Idle
  /\ Fault
  /\ Stop(p)
  /\ held' = [held EXCEPT ![p] = None]
  /\ read' = [read EXCEPT ![p] = None]
  /\ loaded' = [loaded EXCEPT ![p] = None]
  /\ UNCHANGED <<trust, files, clock, history>>

\* A stored file is damaged, or the file of another entry is put under its name.
Damage(entry) ==
  /\ Fault
  /\ \/ disk[entry] # None /\ disk' = [disk EXCEPT ![entry] = Damaged]
     \/ \E other \in Entry \ {entry} :
          /\ other[1] = entry[1] /\ disk[other] # None
          /\ disk' = [disk EXCEPT ![entry] = disk[other]]
  /\ UNCHANGED <<trust, unflushed, pc, held, read, loaded, clock, history>>

\* A name in a directory that was not flushed may be gone with the power.
PowerLoss ==
  /\ Fault
  /\ \E gone \in SUBSET unflushed :
       /\ disk' = [e \in Entry |-> IF e \in gone THEN None ELSE disk[e]]
       /\ lost' = lost \cup gone
  /\ unflushed' = {}
  /\ pc' = [p \in Process |-> Idle]
  /\ held' = [p \in Process |-> None]
  /\ read' = [p \in Process |-> None]
  /\ loaded' = [p \in Process |-> None]
  /\ UNCHANGED <<trust, clock, verified, signed, admitted>>

------------------------------------------------------------------------------

Decide ==
  \E k \in PublicKey :
    \/ \E issuer \in Issuer, validity \in Span : TrustPublisher(k, issuer, validity)
    \/ \E validity \in Span : TrustAdmitter(k, validity)
    \/ \E revoked \in BOOLEAN : SetStatus(k, revoked)

Call(p) ==
  \/ \E e \in Publishable, c \in Component, issuer \in Issuer : Verify(p, e, c, issuer)
  \/ Drop(p)
  \/ Admit(p)
  \/ CheckEntry(p)
  \/ \E k \in PublicKey : WriteEntry(p, k)
  \/ FlushEntry(p)
  \/ \E want \in Artifact : Load(p, want)
  \/ LoadManifest(p)
  \/ LoadComponent(p)

Break ==
  \/ \E p \in Process : WriteFails(p) \/ Kill(p)
  \/ \E entry \in Entry : Damage(entry)
  \/ PowerLoss

Next == Decide \/ Tick \/ (\E p \in Process : Call(p)) \/ Break

Spec == Init /\ [][Next]_vars

------------------------------------------------------------------------------
(* Properties.                                                              *)

\* Steps of every process, and the type of what it holds and reads.
TypeOK ==
  /\ publishers \in Stores
  /\ admitters \in Stores
  /\ DOMAIN disk = Entry
  /\ \A c \in Component : disk[<<"objects", c>>] \in Component \cup {Damaged, None}
  /\ \A m \in Manifest :
       /\ disk[<<"manifests", m>>] \in Manifest \cup {Damaged, None}
       /\ disk[<<"admissions", m>>] \in Admission \cup {Damaged, None}
  /\ unflushed \subseteq Entry
  /\ pc \in [Process -> Steps]
  /\ held \in [Process -> Artifact \cup {None}]
  /\ \A p \in Process : pc[p][1] \in {"check", "write", "flush"} => held[p] # None
  /\ \A p \in Process :
       pc[p][1] = "load" => read[p].want \in Artifact /\ read[p].record \in Claims
  /\ clock \in 0..MaxTime /\ faults \in 0..MaxFaults
  /\ verified \subseteq Artifact /\ signed \subseteq verified /\ admitted \subseteq signed

Undamaged(entry) ==
  IF entry[1] = "admissions"
  THEN disk[entry] \in Admission /\ disk[entry].payload.manifest = entry[2]
  ELSE disk[entry] = entry[2]

\* Whatever is damaged, misplaced, killed or lost, load hands out exactly the bytes
\* and the manifest it was asked for, and only if the owner signed a record for
\* that very pair, which a publisher in force had vouched for.
LoadedIsAdmitted ==
  \A p \in Process : loaded[p] # None =>
    /\ loaded[p].of \in signed
    /\ loaded[p].bytes = loaded[p].of.component

\* An admission record never stands for files that were not written: the files of
\* a record are there, in whatever order processes admit, fail and die, unless
\* the power took them.
RecordIsBacked ==
  \A m \in Manifest : Undamaged(<<"admissions", m>>) =>
    \A entry \in {<<"objects", m.component>>, <<"manifests", m>>} :
      disk[entry] = None => entry \in lost

\* What admit returned stays loadable while a key that signed it is in force: no
\* failed or concurrent admission of the same artifact takes it away.
AdmittedLoads ==
  \A a \in admitted :
    \/ \E entry \in {<<"objects", a.component>>, <<"manifests", a.manifest>>,
                      <<"admissions", a.manifest>>} :
         entry \in lost \/ (disk[entry] # None /\ ~Undamaged(entry))
    \/ LET e == disk[<<"admissions", a.manifest>>] IN
       /\ e # None
       /\ Verifies("artifact-admission", admitters, e, Owner, clock) => RecordAdmits(e, a, clock)
       /\ ManifestAgrees(disk[<<"manifests", a.manifest>>], e.payload, a)
       /\ ComponentAgrees(disk[<<"objects", a.component>>], a)
==============================================================================

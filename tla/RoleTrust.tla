------------------------------ MODULE RoleTrust ------------------------------
(***************************************************************************)
(* Role-typed signatures (crates/identity: roles.rs, signer.rs, trust.rs). *)
(* A key is trusted for one role, one issuer and one span of time, and an  *)
(* envelope says which key is to check it.  An envelope is what a          *)
(* COSE_Sign1 object determines: the key id and content type of its        *)
(* protected header, the external data and the secret key that really      *)
(* signed, and the payload.  Encodings are left out but for whether the    *)
(* bytes are the canonical ones, with no unprotected header.               *)
(***************************************************************************)
EXTENDS Naturals

CONSTANTS Issuer, PublicKey, None

Role == {"publisher", "authority", "audit", "artifact-admission", "approval",
         "compiled-cache"}

\* role_key_id: the digest covers the role's name and the key.
KeyId(role, k) == <<role, k>>

Validity == [from : Nat, until : Nat]

TrustedKey == [issuer : Issuer, revoked : BOOLEAN, validity : Validity]

\* The map of a RoleTrustStore of one role.
EmptyStore == [k \in PublicKey |-> None]

\* TypedSigner::sign_cose.  Unbroken signers make canonical envelopes only.
Sign(role, k, payload) ==
  [kid |-> KeyId(role, k), contentType |-> role, aad |-> role, by |-> k,
   canonical |-> TRUE, payload |-> payload]

\* KeyValidity::new and RoleTrustStore::add_key
MayTrust(store, k, validity) ==
  /\ validity.from < validity.until
  /\ store[k] = None

Trusted(issuer, validity) == [issuer |-> issuer, revoked |-> FALSE, validity |-> validity]

\* What the key would accept, if it were trusted: header, external data, signature.
GenuineFor(role, e) ==
  /\ e.canonical
  /\ e.kid = KeyId(role, e.by)
  /\ e.contentType = role
  /\ e.aad = role

\* A key is in force from its first second and no longer at its last.
InForce(key, issuer, now) ==
  /\ key.issuer = issuer
  /\ ~key.revoked
  /\ key.validity.from <= now
  /\ now < key.validity.until

\* RoleTrustStore::verify
Verifies(role, store, e, issuer, now) ==
  /\ GenuineFor(role, e)
  /\ store[e.by] # None
  /\ InForce(store[e.by], issuer, now)
==============================================================================

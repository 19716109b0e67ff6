--------------------------- MODULE IdentityFiles ----------------------------
(***************************************************************************)
(* identity.py: the two files of the exchange's test identity, a private   *)
(* key and the metadata with its DID.  They are written one after the      *)
(* other, and each write replaces a whole file.  A pair of keys has a name *)
(* in Keys, which stands for the private key in the one file and for the   *)
(* DID of its public key in the other.                                     *)
(***************************************************************************)

CONSTANTS
  Keys,   \* the key pairs generate_key may draw
  NoKey   \* a file that does not exist

ASSUME KeyAssumption == NoKey \notin Keys

VARIABLES
  pem,    \* the key in exchange-test-identity.pem
  meta    \* the DID in exchange-test-identity.json

identityFiles == <<pem, meta>>

IdentityTypeOK == {pem, meta} \subseteq Keys \cup {NoKey}

IdentityInit == pem = NoKey /\ meta = NoKey

\* create_test_identity refuses to overwrite either file.
NoIdentity == pem = NoKey /\ meta = NoKey

\* _write_pem.
WriteKey(k) == pem' = k /\ UNCHANGED meta

\* _metadata, and the write of it.
WriteMetadata(k) == meta' = k /\ UNCHANGED pem

\* load_exchange_key reads the key, and the DID in the file beside it; it
\* raises when the one or the other is missing.
KeyOnFile == pem # NoKey
MetadataOnFile == meta # NoKey

=============================================================================

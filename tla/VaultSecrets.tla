---------------------------- MODULE VaultSecrets ----------------------------
(***************************************************************************)
(* VaultService (internal/service/vault_service.go): secrets.  A value is  *)
(* sealed under a data key of its own, and the data key is wrapped by the  *)
(* KMS provider, which is set once and for all; so StoreSecret may seal    *)
(* before it takes the lock, and is one step.  GetSecret copies a record   *)
(* and changes nothing.                                                    *)
(*                                                                         *)
(* A string is a word, which may be blank, its case, and space around it.  *)
(* Metadata, the version of the KEK and the instants are abstracted.       *)
(***************************************************************************)
EXTENDS Stores, KeyWrapping

CONSTANTS SecretIds, DataKeys, Nonces,   \* random
          Words, Blank,
          Names, Values   \* asked for, the refused ones included

VARIABLES secrets,   \* VaultService.secrets
          \* History of the service, which the code does not keep:
          entrusted  \* the first value stored under each name, however it is spelled

secretVars == <<secrets, entrusted>>

String == [word : Words \cup {Blank}, capitals : BOOLEAN, padded : BOOLEAN]

ASSUME SecretsAssumption == /\ DataKeys \subseteq Key
                            /\ Names \subseteq String
                            /\ Values \subseteq String
                            /\ Blank \notin Words

\* strings.TrimSpace and strings.EqualFold
TrimSpace(string) == [string EXCEPT !.padded = FALSE]
EqualFold(a, b) == [a EXCEPT !.capitals = FALSE] = [b EXCEPT !.capitals = FALSE]

IsEmpty(string) == TrimSpace(string).word = Blank

SecretRecord == [name : String, ciphertext : [key : Key, nonce : Nonces, plaintext : String],
                 wrappedDEK : Key, nonce : Nonces]

SecretsInit == secrets = EmptyStore /\ entrusted = EmptyStore

\* encryptWithEnvelope
Envelope(name, value, dek, nonce) ==
  [name |-> name, ciphertext |-> Seal(dek, nonce, value),
   wrappedDEK |-> WrapKey(dek), nonce |-> nonce]

\* Mutant of SecretNameFree: names are compared as they are spelled.
SecretNameFree_Exact(name) == \A s \in DOMAIN secrets : secrets[s].name # name

SecretNameFree(name) == \A s \in DOMAIN secrets : ~EqualFold(secrets[s].name, name)

\* The history keeps the first value.
Entrust(word, value) == IF word \in DOMAIN entrusted THEN UNCHANGED entrusted
                        ELSE entrusted' = Put(entrusted, word, value)

\* A refused request, or one for which no key or nonce could be drawn, stores
\* nothing.
StoreSecret(s, name, value, dek, nonce) ==
  /\ s \notin DOMAIN secrets
  /\ ~IsEmpty(name) /\ ~IsEmpty(value)
  /\ SecretNameFree(TrimSpace(name))
  /\ secrets' = Put(secrets, s, Envelope(TrimSpace(name), TrimSpace(value), dek, nonce))
  /\ Entrust(TrimSpace(name).word, TrimSpace(value))

\* decryptWithEnvelope: what the ciphertext opens to, nothing if it does not.
Decrypted(record) == {value \in {record.ciphertext.plaintext} :
                        Opens(record.ciphertext, UnwrapKey(record.wrappedDEK), record.nonce)}

\* The values that GetSecret may answer with.
GetSecret(s) == Decrypted(secrets[s])

SecretsNext ==
  \E s \in SecretIds, name \in Names, value \in Values, dek \in DataKeys, nonce \in Nonces :
    StoreSecret(s, name, value, dek, nonce)

-----------------------------------------------------------------------------
(* Safety *)

SecretsOf(word) == {s \in DOMAIN secrets : secrets[s].name.word = word}

\* However a name is spelled, and however often a secret is stored under it:
\* there is one secret of that name, and it reads back as the first value.
SecretsReadBack ==
  \A word \in DOMAIN entrusted : \E s \in DOMAIN secrets :
    SecretsOf(word) = {s} /\ GetSecret(s) = {entrusted[word]}
=============================================================================

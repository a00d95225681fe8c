----------------------------- MODULE KeyWrapping -----------------------------
(***************************************************************************)
(* LocalKMSProvider (internal/service/kms_provider.go) and the cipher that *)
(* the vault uses with it.  A byte is the set of its one bits, and a key a *)
(* sequence of bytes indexed from 0.                                       *)
(***************************************************************************)
EXTENDS Integers

CONSTANTS Bits,
          Kek,         \* SHA-256 of the master key
          KeySize      \* bytes of a key, 32 in the code

Byte == SUBSET Bits
Key == [0..(KeySize - 1) -> Byte]

ASSUME KeyAssumption == KeySize \in Nat \ {0} /\ Kek \in Key

Xor(a, b) == (a \ b) \cup (b \ a)

KekByte(i) == Kek[i % KeySize]

WrapKey(dek) == [i \in DOMAIN dek |-> Xor(dek[i], KekByte(i))]

\* Mutant of UnwrapKey: the key-encryption key is not advanced.
UnwrapKey_FirstByte(wrapped) == [i \in DOMAIN wrapped |-> Xor(wrapped[i], KekByte(0))]

UnwrapKey(wrapped) == [i \in DOMAIN wrapped |-> Xor(wrapped[i], KekByte(i))]

\* AES-GCM of the standard library: what was sealed opens under the key and
\* the nonce it was sealed with, and under no other.
Seal(dek, nonce, plaintext) == [key |-> dek, nonce |-> nonce, plaintext |-> plaintext]
Opens(sealed, dek, nonce) == sealed.key = dek /\ sealed.nonce = nonce
=============================================================================

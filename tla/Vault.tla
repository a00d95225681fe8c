-------------------------------- MODULE Vault --------------------------------
(***************************************************************************)
(* The whole VaultService: secrets beside leases and rotations.  They      *)
(* share the mutex and nothing else.                                       *)
(***************************************************************************)
EXTENDS VaultRotation, VaultSecrets

vaultVars == <<vars, secretVars>>

VaultInit == Init /\ SecretsInit

VaultNext == \/ Next /\ UNCHANGED secretVars
             \/ SecretsNext /\ UNCHANGED vars

\* A goroutine that serves a request is not starved by the others, nor by
\* the requests for secrets.
VaultSpec == /\ VaultInit
             /\ [][VaultNext]_vaultVars
             /\ \A h \in Requests : WF_vaultVars(Proceed(h) /\ UNCHANGED secretVars)
=============================================================================

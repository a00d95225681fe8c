--------------------------- MODULE AssetOwnership ---------------------------
(***************************************************************************)
(* AssetService (internal/service/asset_service.go): the inventory, its    *)
(* owners, the transfers between owners and the audit trail.               *)
(*                                                                         *)
(* Every operation is one critical section, except ImportAssets: it takes  *)
(* a snapshot of the names in use and then creates one asset per row, each *)
(* under a lock of its own.  Imports between two rows are kept in imports. *)
(***************************************************************************)
EXTENDS Integers, Sequences, FiniteSets, Stores, AssetRegistration

CONSTANTS Assets, Transfers,   \* random identifiers
          Names, Owners,
          Groups,              \* group tags, in normal form
          NoTransfer,          \* an event that is not about a transfer
          Imports,             \* import requests served at the same time
          Requests,            \* the registrations asked for, alone or in an import
          Taggings,            \* the tags set afterwards, with the owner
          Payloads,            \* the bodies of import requests
          MaxEvents            \* bound: direct assignments stop at this many events

ASSUME NoOwnerAssumption == NoOwner \notin Owners
ASSUME RequestsAssumption ==
  \A r \in Requests \cup Taggings :
    /\ r.owner \in Owners \cup {NoOwner}
    /\ ValidTags(r.tags) => {Normal(g) : g \in r.tags.groups} \subseteq Groups \cup {""}
ASSUME NamesAssumption == \A r \in Requests : r.name \in Names \cup {NoName}
ASSUME NoTransferAssumption == NoTransfer \notin Transfers
ASSUME PayloadsAssumption ==
  \A p \in Payloads : Parses(p) => ToImportRows(p) \in Seq(Requests)
ASSUME BoundAssumption == MaxEvents \in Nat

VARIABLES assets,      \* AssetService.assets
          transfers,   \* AssetService.ownershipTransfers
          auditEvents, \* AssetService.auditEvents
          imports,     \* the imports being served
          \* History of the service, which the code does not keep:
          retagged     \* assets whose owner UpdateAssetTagging set last

vars == <<assets, transfers, auditEvents, imports, retagged>>

-----------------------------------------------------------------------------
(* Types *)

Idle == [pc |-> "idle"]
Importing == [pc : {"row"}, rows : Seq(Requests), next : Nat \ {0}, known : SUBSET Names]

StoredConnections == UNION {Connections(r.connection) : r \in Requests}

TagRecord == [environment : Environments, criticality : Criticalities, groups : SUBSET Groups]

AssetRecord == [name : Names, owner : Owners \cup {NoOwner}, tags : TagRecord,
                connection : StoredConnections]
TransferRecord == [asset : Assets, from : Owners, to : Owners,
                   status : {"pending", "approved", "rejected"}]
AuditEvent == [type : {"assigned", "requested", "approved", "rejected"},
               transfer : Transfers \cup {NoTransfer},
               from : Owners \cup {NoOwner}, to : Owners]

\* Assets, transfers, trails and imports are well formed.
TypeOK == /\ IsStore(assets, Assets, AssetRecord)
          /\ IsStore(transfers, Transfers, TransferRecord)
          /\ auditEvents \in [Assets -> Seq(AuditEvent)]
          /\ imports \in [Imports -> {Idle} \cup Importing]
          /\ retagged \subseteq DOMAIN assets

-----------------------------------------------------------------------------
Init == /\ assets = EmptyStore
        /\ transfers = EmptyStore
        /\ auditEvents = [a \in Assets |-> <<>>]
        /\ imports = [m \in Imports |-> Idle]
        /\ retagged = {}

\* recordAuditEventLocked
Record(a, type, transfer, from, to) ==
  auditEvents' = [auditEvents EXCEPT ![a] =
    Append(@, [type |-> type, transfer |-> transfer, from |-> from, to |-> to])]

-----------------------------------------------------------------------------
(* Inventory *)

NamesInUse == {assets[a].name : a \in DOMAIN assets}

\* Mutant of NameFree: the name is not looked up under the lock.
NameFree_Trusted(name) == TRUE

NameFree(name) == name \notin NamesInUse

Insert(a, request) ==
  /\ a \notin DOMAIN assets
  /\ NameFree(request.name)
  /\ \E asset \in Registrations(request) : assets' = Put(assets, a, asset)

CreateAsset(a, request) ==
  /\ Insert(a, request)
  /\ UNCHANGED <<transfers, auditEvents, imports, retagged>>

\* The owner is one of the tags, and no event records the change.
UpdateAssetTagging(a, tagging) ==
  /\ a \in DOMAIN assets
  /\ ValidTags(tagging.tags)
  /\ assets' = [assets EXCEPT ![a].owner = tagging.owner,
                              ![a].tags = NormalizeAssetTagging(tagging.tags)]
  /\ retagged' = retagged \cup {a}
  /\ UNCHANGED <<transfers, auditEvents, imports>>

-----------------------------------------------------------------------------
(* Import *)

\* The names in use are collected under the read lock.
ImportAssets(m, payload) ==
  /\ imports[m] = Idle
  /\ Parses(payload)
  /\ ToImportRows(payload) # <<>>
  /\ imports' = [imports EXCEPT ![m] = [pc |-> "row", rows |-> ToImportRows(payload),
                                        next |-> 1, known |-> NamesInUse]]
  /\ UNCHANGED <<assets, transfers, auditEvents, retagged>>

AtRow(m) == imports[m].pc = "row" /\ imports[m].next <= Len(imports[m].rows)
Row(m) == imports[m].rows[imports[m].next]

Advance(m, known) ==
  imports' = [imports EXCEPT ![m].next = @ + 1, ![m].known = known]

\* CreateAsset looks for the name again, under the lock that inserts it.
ImportRow(m, a) ==
  /\ AtRow(m)
  /\ Row(m).name \notin imports[m].known
  /\ Insert(a, Row(m))
  /\ Advance(m, imports[m].known \cup {Row(m).name})
  /\ UNCHANGED <<transfers, auditEvents, retagged>>

\* A duplicate of an asset or of an earlier row.
SkipRow(m) == /\ AtRow(m)
              /\ Row(m).name \in imports[m].known
              /\ Advance(m, imports[m].known)
              /\ UNCHANGED <<assets, transfers, auditEvents, retagged>>

Refused(request) == MayBeRefused(request) \/ ~NameFree(request.name)

\* Mutant of FailRow: the name counts as taken before the asset is created.
FailRow_Noted(m) == /\ AtRow(m)
                    /\ Row(m).name \notin imports[m].known
                    /\ Refused(Row(m))
                    /\ Advance(m, imports[m].known \cup {Row(m).name})
                    /\ UNCHANGED <<assets, transfers, auditEvents, retagged>>

\* A row that CreateAsset refuses: the import carries on.
FailRow(m) == /\ AtRow(m)
              /\ Row(m).name \notin imports[m].known
              /\ Refused(Row(m))
              /\ Advance(m, imports[m].known)
              /\ UNCHANGED <<assets, transfers, auditEvents, retagged>>

\* The result goes out, and with it what the rows were.
AnswerImport(m) == /\ imports[m].pc = "row"
                   /\ ~AtRow(m)
                   /\ imports' = [imports EXCEPT ![m] = Idle]
                   /\ UNCHANGED <<assets, transfers, auditEvents, retagged>>

-----------------------------------------------------------------------------
(* Owners *)

AssignOwner(a, owner) ==
  /\ a \in DOMAIN assets
  /\ Len(auditEvents[a]) < MaxEvents
  /\ assets' = [assets EXCEPT ![a].owner = owner]
  /\ Record(a, "assigned", NoTransfer, assets[a].owner, owner)
  /\ retagged' = retagged \ {a}
  /\ UNCHANGED <<transfers, imports>>

\* Mutant of Transferable: an asset without an owner is not refused.
Transferable_Unowned(a, owner) == a \in DOMAIN assets /\ assets[a].owner # owner

Transferable(a, owner) == a \in DOMAIN assets /\ assets[a].owner \notin {NoOwner, owner}

\* Several transfers of one asset may be pending.
RequestOwnershipTransfer(t, a, owner) ==
  /\ t \notin DOMAIN transfers
  /\ Transferable(a, owner)
  /\ transfers' = Put(transfers, t, [asset |-> a, from |-> assets[a].owner,
                                     to |-> owner, status |-> "pending"])
  /\ Record(a, "requested", t, assets[a].owner, owner)
  /\ UNCHANGED <<assets, imports, retagged>>

\* Mutant of Unreviewed: a transfer may be reviewed again.
Unreviewed_Never(t) == t \in DOMAIN transfers

Unreviewed(t) == t \in DOMAIN transfers /\ transfers[t].status = "pending"

Review(t, status) ==
  /\ Unreviewed(t)
  /\ transfers' = [transfers EXCEPT ![t].status = status]
  /\ Record(transfers[t].asset, status, t, transfers[t].from, transfers[t].to)
  /\ UNCHANGED imports

\* Mutant of HandOver: only an owner who still has the asset hands it over.
HandOver_FromOwner(t) ==
  LET a == transfers[t].asset
  IN  /\ assets' = IF assets[a].owner = transfers[t].from
                   THEN [assets EXCEPT ![a].owner = transfers[t].to] ELSE assets
      /\ retagged' = retagged \ {a}

\* The owner the transfer was requested from is not compared.
HandOver(t) ==
  LET a == transfers[t].asset
  IN  /\ assets' = [assets EXCEPT ![a].owner = transfers[t].to]
      /\ retagged' = retagged \ {a}

ApproveTransfer(t) == /\ Review(t, "approved")
                      /\ HandOver(t)

RejectTransfer(t) == /\ Review(t, "rejected")
                     /\ UNCHANGED <<assets, retagged>>

-----------------------------------------------------------------------------
Next == \/ \E a \in Assets : \/ \E r \in Requests : CreateAsset(a, r)
                            \/ \E t \in Taggings : UpdateAssetTagging(a, t)
        \/ \E a \in Assets, owner \in Owners :
             \/ AssignOwner(a, owner)
             \/ \E t \in Transfers : RequestOwnershipTransfer(t, a, owner)
        \/ \E t \in Transfers : ApproveTransfer(t) \/ RejectTransfer(t)
        \/ \E m \in Imports : \/ \E p \in Payloads : ImportAssets(m, p)
                              \/ \E a \in Assets : ImportRow(m, a)
                              \/ SkipRow(m) \/ FailRow(m) \/ AnswerImport(m)

Spec == Init /\ [][Next]_vars

-----------------------------------------------------------------------------
(* Safety *)

\* Imports work from a snapshot of the names and overlap each other and
\* single creations; still no two assets share a name.
NamesUnique ==
  \A a, b \in DOMAIN assets : assets[a].name = assets[b].name => a = b

\* One row of an import that is refused costs no other row: once the import
\* has passed a row that nothing in it can get refused, the inventory has an
\* asset of its name, from whichever request.
SoundRowsAreStored ==
  \A m \in Imports : imports[m] # Idle =>
    \A i \in 1..(imports[m].next - 1) :
      ~MayBeRefused(imports[m].rows[i]) => imports[m].rows[i].name \in NamesInUse

\* Whatever the spelling of its keys and the order they were read in, an
\* asset that was accepted passes the validation TestConnection repeats.
PrecheckPasses == \A a \in DOMAIN assets : ~PrecheckMayFail(assets[a].connection)

\* Every asset is listed under the tags it carries.
ListedUnderItsTags ==
  \A a \in DOMAIN assets : \A group \in {""} \cup assets[a].tags.groups :
    Listed(assets[a], [environment |-> assets[a].tags.environment, owner |-> assets[a].owner,
                       criticality |-> assets[a].tags.criticality, group |-> group])

ChangesOwner(event) == event.type \in {"assigned", "approved"}

\* However assignments, requests and reviews of one asset are ordered, the
\* last event about its owner names the owner it has, unless tagging has
\* changed the owner since.
TrailNamesOwner ==
  \A a \in DOMAIN assets \ retagged : \A i \in DOMAIN auditEvents[a] :
    /\ ChangesOwner(auditEvents[a][i])
    /\ \A j \in DOMAIN auditEvents[a] : j > i => ~ChangesOwner(auditEvents[a][j])
    => assets[a].owner = auditEvents[a][i].to

Trail(t) == auditEvents[transfers[t].asset]
Reviews(t) == {i \in DOMAIN Trail(t) : Trail(t)[i].transfer = t /\ Trail(t)[i].type # "requested"}

\* A transfer is reviewed at most once, and its status is what the trail
\* says the review decided.
TransfersReviewedOnce ==
  \A t \in DOMAIN transfers :
    /\ \A i, j \in Reviews(t) : i = j
    /\ Reviews(t) = {} <=> transfers[t].status = "pending"
    /\ \A i \in Reviews(t) : Trail(t)[i].type = transfers[t].status
=============================================================================

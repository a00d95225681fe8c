------------------------ MODULE AssetOwnershipProofs ------------------------
(***************************************************************************)
(* Safety of AssetOwnership for every set of assets, names, owners and     *)
(* transfers, every set of registrations and payloads, and every number of *)
(* imports served at the same time.                                        *)
(***************************************************************************)
EXTENDS AssetOwnership, StoreTheorems

-----------------------------------------------------------------------------
(* Registration *)

LEMMA NormalIsNormal == ASSUME NEW s PROVE Normal(s) \notin DOMAIN Spelled
BY SpelledAssumption DEF Normal

\* Normalising once is enough.
LEMMA NormalTwice == ASSUME NEW s PROVE Normal(Normal(s)) = Normal(s)
BY NormalIsNormal DEF Normal

LEMMA RequestTyped ==
  ASSUME NEW r \in Requests \cup Taggings
  PROVE  /\ r.owner \in Owners \cup {NoOwner}
         /\ ValidTags(r.tags) =>
              NormalizeAssetTagging(r.tags) \in TagRecord
<1>1. r.owner \in Owners \cup {NoOwner}
  BY RequestsAssumption
<1>2. ASSUME ValidTags(r.tags)
      PROVE  {Normal(g) : g \in r.tags.groups} \ {""} \subseteq Groups
  BY <1>2, RequestsAssumption
<1> QED  BY <1>1, <1>2 DEF ValidTags, NormalizeAssetTagging, TagRecord

\* What CreateAsset makes of a request.
LEMMA Registered ==
  ASSUME NEW r \in Requests, NEW asset \in Registrations(r)
  PROVE  /\ asset \in AssetRecord
         /\ asset.name = r.name
         /\ asset.tags = NormalizeAssetTagging(r.tags)
<1>1. Presentable(r)
  BY DEF Registrations
<1>6. r.name # NoName /\ ValidTags(r.tags)
  BY <1>1 DEF Presentable
<1>2. PICK connection \in Connections(r.connection) :
        asset = [name |-> r.name, owner |-> r.owner, connection |-> connection,
                 tags |-> NormalizeAssetTagging(r.tags)]
  BY <1>1 DEF Registrations
<1>3. r.name \in Names
  <2>1. r.name \in Names \cup {NoName}
    BY NamesAssumption
  <2> QED  BY <1>6, <2>1
<1>4. /\ r.owner \in Owners \cup {NoOwner}
      /\ NormalizeAssetTagging(r.tags) \in TagRecord
  BY <1>6, RequestTyped
<1>5. connection \in StoredConnections
  BY DEF StoredConnections
<1> QED  BY <1>2, <1>3, <1>4, <1>5 DEF AssetRecord

-----------------------------------------------------------------------------
(* Type correctness *)

LEMMA InitTyped == Init => TypeOK
<1> SUFFICES ASSUME Init PROVE TypeOK
  OBVIOUS
<1>1. \A a \in Assets : auditEvents[a] \in Seq(AuditEvent)
  BY DEF Init
<1>2. auditEvents \in [Assets -> Seq(AuditEvent)]
  BY <1>1 DEF Init
<1> QED  BY <1>2, EmptyIsStore DEF Init, TypeOK, EmptyStore, IsStore

\* One event more at the end of one trail.
LEMMA RecordEffect ==
  ASSUME TypeOK, NEW a \in Assets,
         NEW type \in {"assigned", "requested", "approved", "rejected"},
         NEW t \in Transfers \cup {NoTransfer}, NEW from \in Owners \cup {NoOwner},
         NEW to \in Owners, Record(a, type, t, from, to)
  PROVE  /\ auditEvents' \in [Assets -> Seq(AuditEvent)]
         /\ \A b \in Assets : b # a => auditEvents'[b] = auditEvents[b]
         /\ Len(auditEvents[a]) \in Nat
         /\ DOMAIN auditEvents[a] = 1..Len(auditEvents[a])
         /\ DOMAIN auditEvents'[a] = 1..(Len(auditEvents[a]) + 1)
         /\ \A i \in 1..Len(auditEvents[a]) : auditEvents'[a][i] = auditEvents[a][i]
<1> DEFINE event == [type |-> type, transfer |-> t, from |-> from, to |-> to]
<1>1. event \in AuditEvent
  BY DEF AuditEvent
<1>2. auditEvents[a] \in Seq(AuditEvent) /\ auditEvents \in [Assets -> Seq(AuditEvent)]
  BY DEF TypeOK
<1> HIDE DEF event
<1>3. Append(auditEvents[a], event) \in Seq(AuditEvent)
  BY <1>1, <1>2
<1>4. auditEvents' = [auditEvents EXCEPT ![a] = Append(auditEvents[a], event)]
  BY DEF Record, event
<1>5. auditEvents' \in [Assets -> Seq(AuditEvent)]
  BY <1>2, <1>3, <1>4
<1>6. auditEvents'[a] = Append(auditEvents[a], event)
  BY <1>2, <1>4
<1>7. \A b \in Assets : b # a => auditEvents'[b] = auditEvents[b]
  BY <1>2, <1>4
<1>8. /\ Len(auditEvents[a]) \in Nat
      /\ DOMAIN auditEvents[a] = 1..Len(auditEvents[a])
      /\ DOMAIN Append(auditEvents[a], event) = 1..(Len(auditEvents[a]) + 1)
      /\ \A i \in 1..Len(auditEvents[a]) :
           Append(auditEvents[a], event)[i] = auditEvents[a][i]
  BY <1>1, <1>2
<1> QED  BY <1>5, <1>6, <1>7, <1>8

\* ... and what it says.
EventAppended(a, type, t, to) ==
  /\ auditEvents'[a][Len(auditEvents[a]) + 1].type = type
  /\ auditEvents'[a][Len(auditEvents[a]) + 1].transfer = t
  /\ auditEvents'[a][Len(auditEvents[a]) + 1].to = to

LEMMA RecordedEvent ==
  ASSUME TypeOK, NEW a \in Assets,
         NEW type \in {"assigned", "requested", "approved", "rejected"},
         NEW t \in Transfers \cup {NoTransfer}, NEW from \in Owners \cup {NoOwner},
         NEW to \in Owners, Record(a, type, t, from, to)
  PROVE  EventAppended(a, type, t, to)
<1> DEFINE event == [type |-> type, transfer |-> t, from |-> from, to |-> to]
<1>1. event \in AuditEvent
  BY DEF AuditEvent
<1>2. auditEvents[a] \in Seq(AuditEvent) /\ auditEvents \in [Assets -> Seq(AuditEvent)]
  BY DEF TypeOK
<1>3. auditEvents' = [auditEvents EXCEPT ![a] = Append(auditEvents[a], event)]
  BY DEF Record
<1>4. event.type = type /\ event.transfer = t /\ event.to = to
  OBVIOUS
<1> HIDE DEF event
<1>5. auditEvents'[a] = Append(auditEvents[a], event)
  BY <1>2, <1>3
<1>6. Append(auditEvents[a], event)[Len(auditEvents[a]) + 1] = event
  BY <1>1, <1>2
<1> QED  BY <1>4, <1>5, <1>6 DEF EventAppended

\* The owner or the tags of one asset change, and nothing else.
LEMMA OwnerEffect ==
  ASSUME TypeOK, NEW a \in DOMAIN assets, NEW owner \in Owners \cup {NoOwner},
         assets' = [assets EXCEPT ![a].owner = owner]
  PROVE  /\ IsStore(assets', Assets, AssetRecord)
         /\ DOMAIN assets' = DOMAIN assets
         /\ assets'[a].owner = owner
         /\ \A b \in DOMAIN assets : /\ assets'[b].name = assets[b].name
                                     /\ assets'[b].tags = assets[b].tags
                                     /\ assets'[b].connection = assets[b].connection
                                     /\ b # a => assets'[b] = assets[b]
<1>1. assets \in [DOMAIN assets -> AssetRecord] /\ DOMAIN assets \subseteq Assets
  BY DEF TypeOK, IsStore
<1>2. [assets[a] EXCEPT !.owner = owner] \in AssetRecord
  BY <1>1 DEF AssetRecord
<1>3. assets' = [assets EXCEPT ![a] = [assets[a] EXCEPT !.owner = owner]]
  BY <1>1
<1> QED  BY <1>1, <1>2, <1>3 DEF IsStore, AssetRecord

LEMMA Retagged ==
  ASSUME NEW asset \in AssetRecord, NEW owner \in Owners \cup {NoOwner}, NEW tags \in TagRecord
  PROVE  [asset EXCEPT !.owner = owner, !.tags = tags] \in AssetRecord
BY DEF AssetRecord

LEMMA TaggingEffect ==
  ASSUME TypeOK, NEW a \in DOMAIN assets, NEW tagging \in Taggings,
         UpdateAssetTagging(a, tagging)
  PROVE  /\ IsStore(assets', Assets, AssetRecord)
         /\ DOMAIN assets' = DOMAIN assets
         /\ assets'[a].tags = NormalizeAssetTagging(tagging.tags)
         /\ \A b \in DOMAIN assets : /\ assets'[b].name = assets[b].name
                                     /\ assets'[b].connection = assets[b].connection
                                     /\ b # a => assets'[b] = assets[b]
<1> DEFINE tags == NormalizeAssetTagging(tagging.tags)
           asset == [assets[a] EXCEPT !.owner = tagging.owner, !.tags = tags]
<1>1. assets \in [DOMAIN assets -> AssetRecord] /\ DOMAIN assets \subseteq Assets
  BY DEF TypeOK, IsStore
<1>2. tags \in TagRecord
  BY RequestTyped DEF UpdateAssetTagging
<1>3. tagging.owner \in Owners \cup {NoOwner}
  BY RequestTyped
<1> HIDE DEF tags
<1>4. asset \in AssetRecord
  BY <1>1, <1>2, <1>3, Retagged
<1>5. assets' = [assets EXCEPT ![a] = asset]
  BY <1>1 DEF UpdateAssetTagging, tags
<1>6. asset.tags = tags /\ asset.name = assets[a].name /\ asset.connection = assets[a].connection
  BY <1>1 DEF AssetRecord
<1> HIDE DEF asset
<1> QED  BY <1>1, <1>4, <1>5, <1>6 DEF IsStore, tags

LEMMA InsertEffect ==
  ASSUME TypeOK, NEW a \in Assets, NEW r \in Requests, Insert(a, r)
  PROVE  /\ IsStore(assets', Assets, AssetRecord)
         /\ DOMAIN assets' = DOMAIN assets \cup {a}
         /\ assets'[a] \in Registrations(r)
         /\ \A b \in DOMAIN assets : b # a => assets'[b] = assets[b]
<1>1. PICK asset \in Registrations(r) : assets' = Put(assets, a, asset)
  BY DEF Insert
<1>2. asset \in AssetRecord
  BY Registered
<1>3. IsStore(assets', Assets, AssetRecord)
  BY <1>1, <1>2, PutStore DEF TypeOK
<1> QED  BY <1>1, <1>3 DEF Put

LEMMA AdvanceTyped ==
  ASSUME TypeOK, NEW m \in Imports, AtRow(m), NEW known \in SUBSET Names, Advance(m, known)
  PROVE  imports' \in [Imports -> {Idle} \cup Importing]
<1>1. imports[m] \in Importing /\ imports \in [Imports -> {Idle} \cup Importing]
  BY DEF TypeOK, AtRow, Idle
<1>2. [imports[m] EXCEPT !.next = @ + 1, !.known = known] \in Importing
  <2>1. imports[m].next + 1 \in Nat \ {0}
    BY <1>1 DEF Importing
  <2> QED  BY <1>1, <2>1 DEF Importing
<1>3. imports' = [imports EXCEPT ![m] = [imports[m] EXCEPT !.next = @ + 1, !.known = known]]
  BY <1>1 DEF Advance
<1> QED  BY <1>1, <1>2, <1>3

\* The row an import is at is one of the registrations.
LEMMA RowIsRequest ==
  ASSUME TypeOK, NEW m \in Imports, AtRow(m)
  PROVE  /\ imports[m] \in Importing
         /\ Row(m) \in Requests
         /\ imports[m].known \subseteq Names
<1>1. imports[m] \in Importing
  BY DEF TypeOK, AtRow, Idle
<1>2. imports[m].next \in 1..Len(imports[m].rows)
  BY <1>1 DEF AtRow, Importing
<1> QED  BY <1>1, <1>2 DEF Row, Importing

LEMMA NamesInUseTyped == TypeOK => NamesInUse \subseteq Names
BY DEF TypeOK, IsStore, AssetRecord, NamesInUse

\* What a step may do to the inventory, the transfers and the trails; a row
\* of an import does what a single registration does.
LEMMA StepKinds ==
  ASSUME TypeOK, [Next]_vars
  PROVE  \/ UNCHANGED <<assets, transfers, auditEvents, retagged>>
         \/ \E a \in Assets, r \in Requests :
              Insert(a, r) /\ UNCHANGED <<transfers, auditEvents, retagged>>
         \/ \E a \in Assets, t \in Taggings : UpdateAssetTagging(a, t)
         \/ \E a \in Assets, owner \in Owners : AssignOwner(a, owner)
         \/ \E a \in Assets, owner \in Owners, t \in Transfers : RequestOwnershipTransfer(t, a, owner)
         \/ \E t \in Transfers : ApproveTransfer(t) \/ RejectTransfer(t)
<1>1. CASE UNCHANGED vars
  BY <1>1 DEF vars
<1>2. ASSUME NEW a \in Assets, NEW r \in Requests, CreateAsset(a, r)
      PROVE  Insert(a, r) /\ UNCHANGED <<transfers, auditEvents, retagged>>
  BY <1>2 DEF CreateAsset
<1>3. ASSUME NEW m \in Imports, NEW a \in Assets, ImportRow(m, a)
      PROVE  \E r \in Requests : Insert(a, r) /\ UNCHANGED <<transfers, auditEvents, retagged>>
  BY <1>3, RowIsRequest DEF ImportRow
<1>4. ASSUME NEW m \in Imports,
             SkipRow(m) \/ FailRow(m) \/ AnswerImport(m) \/ \E p \in Payloads : ImportAssets(m, p)
      PROVE  UNCHANGED <<assets, transfers, auditEvents, retagged>>
  BY <1>4 DEF SkipRow, FailRow, AnswerImport, ImportAssets
<1> QED  BY <1>1, <1>2, <1>3, <1>4 DEF Next

LEMMA ImportsTyped ==
  ASSUME TypeOK, [Next]_vars
  PROVE  imports' \in [Imports -> {Idle} \cup Importing]
<1>1. ASSUME NEW m \in Imports, NEW p \in Payloads, ImportAssets(m, p)
      PROVE  imports' \in [Imports -> {Idle} \cup Importing]
  <2>1. ToImportRows(p) \in Seq(Requests)
    BY <1>1, PayloadsAssumption DEF ImportAssets
  <2>2. [pc |-> "row", rows |-> ToImportRows(p), next |-> 1, known |-> NamesInUse] \in Importing
    BY <2>1, NamesInUseTyped DEF Importing
  <2> QED  BY <1>1, <2>2 DEF ImportAssets, TypeOK
<1>2. ASSUME NEW m \in Imports, NEW a \in Assets, ImportRow(m, a)
      PROVE  imports' \in [Imports -> {Idle} \cup Importing]
  <2>1. AtRow(m) /\ Insert(a, Row(m)) /\ Advance(m, imports[m].known \cup {Row(m).name})
    BY <1>2 DEF ImportRow
  <2>2. Row(m).name \in Names
    BY <2>1, RowIsRequest, Registered DEF Insert, AssetRecord
  <2> QED  BY <2>1, <2>2, RowIsRequest, AdvanceTyped
<1>3. ASSUME NEW m \in Imports, SkipRow(m) \/ FailRow(m)
      PROVE  imports' \in [Imports -> {Idle} \cup Importing]
  <2>1. AtRow(m) /\ Advance(m, imports[m].known)
    BY <1>3 DEF SkipRow, FailRow
  <2> QED  BY <2>1, RowIsRequest, AdvanceTyped
<1>4. ASSUME NEW m \in Imports, AnswerImport(m)
      PROVE  imports' \in [Imports -> {Idle} \cup Importing]
  BY <1>4 DEF AnswerImport, TypeOK
<1>5. CASE UNCHANGED imports
  BY <1>5 DEF TypeOK
<1>6. \/ UNCHANGED imports
      \/ \E m \in Imports : \/ \E p \in Payloads : ImportAssets(m, p)
                            \/ \E a \in Assets : ImportRow(m, a)
                            \/ SkipRow(m) \/ FailRow(m) \/ AnswerImport(m)
  BY DEF Next, vars, CreateAsset, UpdateAssetTagging, AssignOwner, RequestOwnershipTransfer,
         ApproveTransfer, RejectTransfer, Review
<1> QED  BY <1>1, <1>2, <1>3, <1>4, <1>5, <1>6

\* A transfer points at an asset of the inventory.
TransfersOfAssets == \A t \in DOMAIN transfers : transfers[t].asset \in DOMAIN assets

\* A review: the status of the transfer, and one event in the trail of its asset.
LEMMA ReviewEffect ==
  ASSUME TypeOK, NEW t \in Transfers, NEW status \in {"approved", "rejected"}, Review(t, status)
  PROVE  /\ t \in DOMAIN transfers /\ transfers[t] \in TransferRecord
         /\ IsStore(transfers', Transfers, TransferRecord)
         /\ DOMAIN transfers' = DOMAIN transfers
         /\ transfers'[t].status = status
         /\ \A u \in DOMAIN transfers : /\ transfers'[u].asset = transfers[u].asset
                                        /\ u # t => transfers'[u] = transfers[u]
<1>1. transfers \in [DOMAIN transfers -> TransferRecord] /\ DOMAIN transfers \subseteq Transfers
  BY DEF TypeOK, IsStore
<1>2. t \in DOMAIN transfers
  BY DEF Review, Unreviewed
<1>3. transfers' = [transfers EXCEPT ![t] = [transfers[t] EXCEPT !.status = status]]
  BY <1>1 DEF Review
<1>4. [transfers[t] EXCEPT !.status = status] \in TransferRecord
  BY <1>1, <1>2 DEF TransferRecord
<1> QED  BY <1>1, <1>2, <1>3, <1>4 DEF IsStore, TransferRecord

LEMMA RequestEffect ==
  ASSUME TypeOK, NEW a \in Assets, NEW owner \in Owners, NEW t \in Transfers,
         RequestOwnershipTransfer(t, a, owner)
  PROVE  /\ a \in DOMAIN assets /\ assets[a].owner \in Owners
         /\ t \notin DOMAIN transfers
         /\ IsStore(transfers', Transfers, TransferRecord)
         /\ DOMAIN transfers' = DOMAIN transfers \cup {t}
         /\ transfers'[t].asset = a /\ transfers'[t].status = "pending"
         /\ \A u \in DOMAIN transfers : transfers'[u] = transfers[u]
<1> DEFINE transfer == [asset |-> a, from |-> assets[a].owner, to |-> owner, status |-> "pending"]
<1>1. a \in DOMAIN assets /\ assets[a].owner # NoOwner
  BY DEF RequestOwnershipTransfer, Transferable
<1>2. assets[a].owner \in Owners
  <2>1. assets[a] \in AssetRecord
    BY <1>1 DEF TypeOK, IsStore
  <2> QED  BY <1>1, <2>1 DEF AssetRecord
<1>3. transfer \in TransferRecord
  BY <1>2 DEF TransferRecord
<1>4. t \notin DOMAIN transfers /\ transfers' = Put(transfers, t, transfer)
  BY DEF RequestOwnershipTransfer
<1>5. IsStore(transfers', Transfers, TransferRecord)
  BY <1>3, <1>4, PutStore DEF TypeOK
<1> QED  BY <1>1, <1>2, <1>4, <1>5 DEF Put

LEMMA NextTyped == TypeOK /\ TransfersOfAssets /\ [Next]_vars => TypeOK' /\ TransfersOfAssets'
<1> SUFFICES ASSUME TypeOK, TransfersOfAssets, [Next]_vars
             PROVE  TypeOK' /\ TransfersOfAssets'
  OBVIOUS
<1> DEFINE Imported == imports' \in [Imports -> {Idle} \cup Importing]
<1>1. Imported
  BY ImportsTyped
<1>2. CASE UNCHANGED <<assets, transfers, auditEvents, retagged>>
  BY <1>1, <1>2 DEF TypeOK, TransfersOfAssets
<1>3. ASSUME NEW a \in Assets, NEW r \in Requests,
             Insert(a, r), UNCHANGED <<transfers, auditEvents, retagged>>
      PROVE  TypeOK' /\ TransfersOfAssets'
  BY <1>1, <1>3, InsertEffect DEF TypeOK, TransfersOfAssets
<1>4. ASSUME NEW a \in Assets, NEW t \in Taggings, UpdateAssetTagging(a, t)
      PROVE  TypeOK' /\ TransfersOfAssets'
  <2>1. a \in DOMAIN assets
    BY <1>4 DEF UpdateAssetTagging
  <2>2. /\ retagged' = retagged \cup {a}
        /\ UNCHANGED <<transfers, auditEvents>>
    BY <1>4 DEF UpdateAssetTagging
  <2>3. IsStore(assets', Assets, AssetRecord) /\ DOMAIN assets' = DOMAIN assets
    BY <1>4, <2>1, TaggingEffect
  <2> QED  BY <1>1, <2>1, <2>2, <2>3 DEF TypeOK, TransfersOfAssets
<1>5. ASSUME NEW a \in Assets, NEW owner \in Owners, AssignOwner(a, owner)
      PROVE  TypeOK' /\ TransfersOfAssets'
  <2>1. /\ a \in DOMAIN assets
        /\ assets' = [assets EXCEPT ![a].owner = owner]
        /\ Record(a, "assigned", NoTransfer, assets[a].owner, owner)
        /\ retagged' = retagged \ {a}
        /\ UNCHANGED transfers
    BY <1>5 DEF AssignOwner
  <2>2. assets[a].owner \in Owners \cup {NoOwner}
    <3>1. assets[a] \in AssetRecord
      BY <2>1 DEF TypeOK, IsStore
    <3> QED  BY <3>1 DEF AssetRecord
  <2>3. IsStore(assets', Assets, AssetRecord) /\ DOMAIN assets' = DOMAIN assets
    BY <2>1, OwnerEffect
  <2>4. auditEvents' \in [Assets -> Seq(AuditEvent)]
    BY <2>1, <2>2, RecordEffect
  <2> QED  BY <1>1, <2>1, <2>3, <2>4 DEF TypeOK, TransfersOfAssets
<1>6. ASSUME NEW a \in Assets, NEW owner \in Owners, NEW t \in Transfers,
             RequestOwnershipTransfer(t, a, owner)
      PROVE  TypeOK' /\ TransfersOfAssets'
  <2>1. Record(a, "requested", t, assets[a].owner, owner) /\ UNCHANGED <<assets, retagged>>
    BY <1>6 DEF RequestOwnershipTransfer
  <2>2. /\ a \in DOMAIN assets /\ assets[a].owner \in Owners
        /\ t \notin DOMAIN transfers
        /\ IsStore(transfers', Transfers, TransferRecord)
        /\ DOMAIN transfers' = DOMAIN transfers \cup {t}
        /\ transfers'[t].asset = a
        /\ \A u \in DOMAIN transfers : transfers'[u] = transfers[u]
    BY <1>6, RequestEffect
  <2>3. auditEvents' \in [Assets -> Seq(AuditEvent)]
    BY <2>1, <2>2, RecordEffect
  <2>4. TransfersOfAssets'
    BY <2>1, <2>2 DEF TransfersOfAssets
  <2> QED  BY <1>1, <2>1, <2>2, <2>3, <2>4 DEF TypeOK
<1>7. ASSUME NEW t \in Transfers, NEW status \in {"approved", "rejected"}, Review(t, status),
             \/ UNCHANGED <<assets, retagged>>
             \/ HandOver(t)
      PROVE  TypeOK' /\ TransfersOfAssets'
  <2> DEFINE a == transfers[t].asset
  <2>1. /\ t \in DOMAIN transfers /\ a \in DOMAIN assets /\ a \in Assets
        /\ transfers[t].from \in Owners /\ transfers[t].to \in Owners
    BY <1>7, ReviewEffect DEF TransfersOfAssets, TransferRecord
  <2>2. auditEvents' \in [Assets -> Seq(AuditEvent)]
    <3>1. Record(a, status, t, transfers[t].from, transfers[t].to)
      BY <1>7 DEF Review
    <3> QED  BY <2>1, <3>1, RecordEffect
  <2>3. /\ IsStore(assets', Assets, AssetRecord)
        /\ DOMAIN assets' = DOMAIN assets
        /\ retagged' \subseteq retagged
    <3>1. CASE UNCHANGED <<assets, retagged>>
      BY <3>1 DEF TypeOK
    <3>2. CASE HandOver(t)
      BY <2>1, <3>2, OwnerEffect DEF HandOver
    <3> QED  BY <1>7, <3>1, <3>2
  <2> QED  BY <1>1, <1>7, <2>2, <2>3, ReviewEffect DEF TypeOK, TransfersOfAssets
<1>8. ASSUME NEW t \in Transfers, ApproveTransfer(t) \/ RejectTransfer(t)
      PROVE  TypeOK' /\ TransfersOfAssets'
  <2>1. CASE ApproveTransfer(t)
    BY <1>7, <2>1 DEF ApproveTransfer
  <2>2. CASE RejectTransfer(t)
    BY <1>7, <2>2 DEF RejectTransfer
  <2> QED  BY <1>8, <2>1, <2>2
<1> QED  BY <1>2, <1>3, <1>4, <1>5, <1>6, <1>8, StepKinds

-----------------------------------------------------------------------------
(* Names *)

\* The owner and the tags change, the name and the connection stay.
LEMMA AssetsKeepNames ==
  ASSUME TypeOK, TransfersOfAssets, [Next]_vars
  PROVE  \/ /\ DOMAIN assets' = DOMAIN assets
            /\ \A a \in DOMAIN assets : /\ assets'[a].name = assets[a].name
                                        /\ assets'[a].connection = assets[a].connection
         \/ \E a \in Assets, r \in Requests : Insert(a, r)
<1> DEFINE Same == /\ DOMAIN assets' = DOMAIN assets
                   /\ \A a \in DOMAIN assets : /\ assets'[a].name = assets[a].name
                                               /\ assets'[a].connection = assets[a].connection
<1>1. ASSUME NEW a \in Assets, NEW t \in Taggings, UpdateAssetTagging(a, t) PROVE Same
  <2>1. a \in DOMAIN assets
    BY <1>1 DEF UpdateAssetTagging
  <2> QED  BY <1>1, <2>1, TaggingEffect
<1>2. ASSUME NEW a \in Assets, NEW owner \in Owners, AssignOwner(a, owner) PROVE Same
  <2>1. a \in DOMAIN assets /\ assets' = [assets EXCEPT ![a].owner = owner]
    BY <1>2 DEF AssignOwner
  <2> QED  BY <2>1, OwnerEffect
<1>3. ASSUME NEW t \in Transfers, ApproveTransfer(t) \/ RejectTransfer(t) PROVE Same
  <2>1. CASE RejectTransfer(t)
    BY <2>1 DEF RejectTransfer
  <2>2. CASE ApproveTransfer(t)
    <3>1. Review(t, "approved") /\ HandOver(t)
      BY <2>2 DEF ApproveTransfer
    <3>2. transfers[t].asset \in DOMAIN assets /\ transfers[t].to \in Owners
      BY <3>1, ReviewEffect DEF TransfersOfAssets, TransferRecord
    <3>3. assets' = [assets EXCEPT ![transfers[t].asset].owner = transfers[t].to]
      BY <3>1 DEF HandOver
    <3> QED  BY <3>2, <3>3, OwnerEffect
  <2> QED  BY <1>3, <2>1, <2>2
<1>4. ASSUME NEW a \in Assets, NEW owner \in Owners, NEW t \in Transfers,
             RequestOwnershipTransfer(t, a, owner)
      PROVE  Same
  BY <1>4 DEF RequestOwnershipTransfer
<1>5. CASE UNCHANGED <<assets, transfers, auditEvents, retagged>>
  BY <1>5
<1> QED  BY <1>1, <1>2, <1>3, <1>4, <1>5, StepKinds

LEMMA NextUnique ==
  TypeOK /\ TransfersOfAssets /\ NamesUnique /\ [Next]_vars => NamesUnique'
<1> SUFFICES ASSUME TypeOK, TransfersOfAssets, NamesUnique, [Next]_vars PROVE NamesUnique'
  OBVIOUS
<1>1. CASE /\ DOMAIN assets' = DOMAIN assets
           /\ \A a \in DOMAIN assets : assets'[a].name = assets[a].name
  BY <1>1 DEF NamesUnique
<1>2. ASSUME NEW a \in Assets, NEW r \in Requests, Insert(a, r) PROVE NamesUnique'
  <2>1. /\ DOMAIN assets' = DOMAIN assets \cup {a}
        /\ assets'[a].name = r.name
        /\ \A b \in DOMAIN assets : assets'[b] = assets[b]
    BY <1>2, InsertEffect, Registered DEF Insert
  <2>2. \A b \in DOMAIN assets : assets[b].name # r.name
    BY <1>2 DEF Insert, NameFree, NamesInUse
  <2> QED  BY <2>1, <2>2 DEF NamesUnique
<1> QED  BY <1>1, <1>2, AssetsKeepNames

-----------------------------------------------------------------------------
(* Imports *)

\* The names in use only grow.
LEMMA NamesGrow ==
  ASSUME TypeOK, TransfersOfAssets, [Next]_vars PROVE NamesInUse \subseteq NamesInUse'
<1>1. CASE /\ DOMAIN assets' = DOMAIN assets
           /\ \A a \in DOMAIN assets : assets'[a].name = assets[a].name
  BY <1>1 DEF NamesInUse
<1>2. ASSUME NEW a \in Assets, NEW r \in Requests, Insert(a, r)
      PROVE  NamesInUse \subseteq NamesInUse'
  <2>1. /\ DOMAIN assets' = DOMAIN assets \cup {a}
        /\ \A b \in DOMAIN assets : assets'[b] = assets[b]
    BY <1>2, InsertEffect DEF Insert
  <2> QED  BY <2>1 DEF NamesInUse
<1> QED  BY <1>1, <1>2, AssetsKeepNames

\* What an import knows is in the inventory, and so are its sound rows.
ImportSound(m) ==
  imports[m] # Idle =>
    /\ imports[m].known \subseteq NamesInUse
    /\ \A i \in 1..(imports[m].next - 1) :
         ~MayBeRefused(imports[m].rows[i]) => imports[m].rows[i].name \in NamesInUse

LEMMA AdvanceSound ==
  ASSUME TypeOK, NEW m \in Imports, AtRow(m), ImportSound(m), NEW known, Advance(m, known),
         NamesInUse \subseteq NamesInUse', known \subseteq NamesInUse',
         ~MayBeRefused(Row(m)) => Row(m).name \in NamesInUse'
  PROVE  ImportSound(m)'
<1>1. imports \in [Imports -> {Idle} \cup Importing] /\ imports[m] \in Importing
  BY DEF TypeOK, AtRow, Idle
<1>2. imports[m].next \in Nat \ {0} /\ imports[m] # Idle
  BY <1>1 DEF AtRow, Importing, Idle
<1>3. /\ imports'[m].rows = imports[m].rows
      /\ imports'[m].next = imports[m].next + 1
      /\ imports'[m].known = known
  BY <1>1 DEF Advance, Importing
<1>4. ASSUME NEW i \in 1..(imports'[m].next - 1), ~MayBeRefused(imports'[m].rows[i])
      PROVE  imports'[m].rows[i].name \in NamesInUse'
  <2>1. CASE i = imports[m].next
    BY <1>3, <1>4, <2>1 DEF Row
  <2>2. CASE i # imports[m].next
    <3>1. i \in 1..(imports[m].next - 1)
      BY <1>2, <1>3, <2>2
    <3> QED  BY <1>2, <1>3, <1>4, <3>1 DEF ImportSound
  <2> QED  BY <2>1, <2>2
<1> QED  BY <1>3, <1>4 DEF ImportSound

LEMMA NextImportsSound ==
  ASSUME TypeOK, TransfersOfAssets, \A m \in Imports : ImportSound(m), [Next]_vars
  PROVE  \A m \in Imports : ImportSound(m)'
<1>1. TAKE m \in Imports
<1>2. NamesInUse \subseteq NamesInUse'
  BY NamesGrow
<1>3. CASE imports'[m] = imports[m]
  BY <1>2, <1>3 DEF ImportSound
<1>4. ASSUME NEW p \in Payloads, ImportAssets(m, p) PROVE ImportSound(m)'
  <2>1. imports'[m] = [pc |-> "row", rows |-> ToImportRows(p), next |-> 1, known |-> NamesInUse]
    BY <1>4 DEF ImportAssets, TypeOK
  <2>2. imports'[m].known = NamesInUse /\ imports'[m].next = 1
    BY <2>1
  <2> QED  BY <1>2, <2>2 DEF ImportSound
<1>5. ASSUME NEW a \in Assets, ImportRow(m, a) PROVE ImportSound(m)'
  <2>1. /\ AtRow(m) /\ Insert(a, Row(m))
        /\ Advance(m, imports[m].known \cup {Row(m).name})
    BY <1>5 DEF ImportRow
  <2>2. Row(m) \in Requests /\ imports[m] # Idle
    BY <2>1, RowIsRequest DEF Idle, Importing
  <2>3. Row(m).name \in NamesInUse'
    <3>1. a \in DOMAIN assets' /\ assets'[a] \in Registrations(Row(m))
      BY <2>1, <2>2, InsertEffect
    <3>2. assets'[a].name = Row(m).name
      BY <2>2, <3>1, Registered
    <3> QED  BY <3>1, <3>2 DEF NamesInUse
  <2>4. imports[m].known \cup {Row(m).name} \subseteq NamesInUse'
    BY <1>2, <2>2, <2>3 DEF ImportSound
  <2> QED  BY <1>2, <2>1, <2>3, <2>4, AdvanceSound
<1>6. ASSUME SkipRow(m) \/ FailRow(m) PROVE ImportSound(m)'
  <2>1. AtRow(m) /\ Advance(m, imports[m].known)
    BY <1>6 DEF SkipRow, FailRow
  <2>2. imports[m].known \subseteq NamesInUse
    BY <2>1 DEF ImportSound, AtRow, Idle
  <2>3. ~MayBeRefused(Row(m)) => Row(m).name \in NamesInUse
    BY <1>6, <2>2 DEF SkipRow, FailRow, Refused, NameFree
  <2> QED  BY <1>2, <2>1, <2>2, <2>3, AdvanceSound
<1>7. ASSUME AnswerImport(m) PROVE ImportSound(m)'
  BY <1>7 DEF AnswerImport, TypeOK, ImportSound
<1>8. ASSUME NEW n \in Imports,
             \/ \E p \in Payloads : ImportAssets(n, p)
             \/ \E a \in Assets : ImportRow(n, a)
             \/ SkipRow(n) \/ FailRow(n) \/ AnswerImport(n)
      PROVE  n = m \/ imports'[m] = imports[m]
  BY <1>8 DEF ImportAssets, ImportRow, SkipRow, FailRow, AnswerImport, Advance, TypeOK
<1>9. \/ imports'[m] = imports[m]
      \/ \E p \in Payloads : ImportAssets(m, p)
      \/ \E a \in Assets : ImportRow(m, a)
      \/ SkipRow(m) \/ FailRow(m) \/ AnswerImport(m)
  BY <1>8 DEF Next, vars, CreateAsset, UpdateAssetTagging, AssignOwner, RequestOwnershipTransfer,
              ApproveTransfer, RejectTransfer, Review
<1> QED  BY <1>3, <1>4, <1>5, <1>6, <1>7, <1>9

-----------------------------------------------------------------------------
(* Connections and tags *)

\* The metadata that is kept has one reading, itself, and it is complete.
LEMMA KeptIsComplete ==
  ASSUME NEW c, NEW connection \in Connections(c)
  PROVE  ~PrecheckMayFail(connection)
<1> DEFINE type == Normal(c.type)
           choice == ChoiceKey[type]
<1>1. PICK reading \in Readings(c.metadata) :
        /\ Complete(type, reading)
        /\ connection.type = type
        /\ connection.metadata = Kept(type, c.metadata, reading)
  BY DEF Connections
<1>2. /\ choice \in DOMAIN reading
      /\ RequiredKeys[type] \subseteq DOMAIN reading
      /\ type \in Types
      /\ Normal(reading[choice]) \in Choices[type]
  BY <1>1 DEF Complete, Types, ChoiceKey, RequiredKeys
<1>3. reading = [k \in DOMAIN reading |-> reading[k]]
      /\ \A k \in DOMAIN reading : Normal(k) = k
  BY NormalTwice DEF Readings
<1>4. /\ DOMAIN connection.metadata = DOMAIN reading
      /\ connection.metadata[choice] = Normal(reading[choice])
  BY <1>1, <1>2, <1>3 DEF Kept
<1>5. ASSUME NEW again \in Readings(connection.metadata)
      PROVE  Complete(connection.type, again)
  <2>1. DOMAIN again = DOMAIN reading
    BY <1>3, <1>4 DEF Readings
  <2>2. again[choice] = connection.metadata[choice]
    <3>1. PICK k \in DOMAIN connection.metadata :
            Normal(k) = choice /\ connection.metadata[k] = again[choice]
      BY <1>2, <2>1 DEF Readings
    <3> QED  BY <1>3, <1>4, <3>1
  <2>3. Normal(again[choice]) \in Choices[type]
    BY <1>2, <1>4, <2>2, NormalTwice
  <2> QED  BY <1>1, <1>2, <2>1, <2>3 DEF Complete
<1> QED  BY <1>5 DEF PrecheckMayFail

LEMMA TypedPrechecks == TypeOK => PrecheckPasses
<1> SUFFICES ASSUME TypeOK, NEW a \in DOMAIN assets
             PROVE  ~PrecheckMayFail(assets[a].connection)
  BY DEF PrecheckPasses
<1>1. assets[a] \in AssetRecord
  BY DEF TypeOK, IsStore
<1>2. PICK r \in Requests : assets[a].connection \in Connections(r.connection)
  BY <1>1 DEF AssetRecord, StoredConnections
<1> QED  BY <1>2, KeptIsComplete

InNormalForm(tags) == /\ tags.environment \notin DOMAIN Spelled
                      /\ tags.criticality \notin DOMAIN Spelled
                      /\ tags.groups \cap DOMAIN Spelled = {}

LEMMA NormalizedTags == ASSUME NEW tags PROVE InNormalForm(NormalizeAssetTagging(tags))
BY NormalIsNormal DEF InNormalForm, NormalizeAssetTagging

TagsNormal == \A a \in DOMAIN assets : InNormalForm(assets[a].tags)

LEMMA TagsListed == TagsNormal => ListedUnderItsTags
<1> SUFFICES ASSUME TagsNormal, NEW a \in DOMAIN assets,
                    NEW group \in {""} \cup assets[a].tags.groups
             PROVE  Listed(assets[a], [environment |-> assets[a].tags.environment,
                                       owner |-> assets[a].owner,
                                       criticality |-> assets[a].tags.criticality,
                                       group |-> group])
  BY DEF ListedUnderItsTags
<1>1. /\ Normal(assets[a].tags.environment) = assets[a].tags.environment
      /\ Normal(assets[a].tags.criticality) = assets[a].tags.criticality
  BY DEF TagsNormal, InNormalForm, Normal
<1>2. Normal(group) = group
  BY SpelledAssumption DEF TagsNormal, InNormalForm, Normal
<1> QED  BY <1>1, <1>2 DEF Listed

LEMMA NextTagged ==
  ASSUME TypeOK, TransfersOfAssets, TagsNormal, [Next]_vars PROVE TagsNormal'
<1>1. CASE UNCHANGED <<assets, transfers, auditEvents, retagged>>
  BY <1>1 DEF TagsNormal
<1>2. ASSUME NEW a \in Assets, NEW r \in Requests, Insert(a, r) PROVE TagsNormal'
  <2>1. /\ DOMAIN assets' = DOMAIN assets \cup {a}
        /\ assets'[a].tags = NormalizeAssetTagging(r.tags)
        /\ \A b \in DOMAIN assets : b # a => assets'[b] = assets[b]
    BY <1>2, InsertEffect, Registered
  <2> QED  BY <2>1, NormalizedTags DEF TagsNormal
<1>3. ASSUME NEW a \in Assets, NEW t \in Taggings, UpdateAssetTagging(a, t) PROVE TagsNormal'
  <2>1. a \in DOMAIN assets
    BY <1>3 DEF UpdateAssetTagging
  <2>2. /\ DOMAIN assets' = DOMAIN assets
        /\ assets'[a].tags = NormalizeAssetTagging(t.tags)
        /\ \A b \in DOMAIN assets : b # a => assets'[b] = assets[b]
    BY <1>3, <2>1, TaggingEffect
  <2> QED  BY <2>2, NormalizedTags DEF TagsNormal
<1>4. ASSUME NEW a \in DOMAIN assets, NEW owner \in Owners \cup {NoOwner},
             assets' = [assets EXCEPT ![a].owner = owner]
      PROVE  TagsNormal'
  <2>1. DOMAIN assets' = DOMAIN assets /\ \A b \in DOMAIN assets : assets'[b].tags = assets[b].tags
    BY <1>4, OwnerEffect
  <2> QED  BY <2>1 DEF TagsNormal
<1>5. ASSUME NEW a \in Assets, NEW owner \in Owners, AssignOwner(a, owner) PROVE TagsNormal'
  BY <1>4, <1>5 DEF AssignOwner
<1>6. ASSUME NEW t \in Transfers, ApproveTransfer(t) PROVE TagsNormal'
  <2>1. Review(t, "approved") /\ HandOver(t)
    BY <1>6 DEF ApproveTransfer
  <2>2. transfers[t].asset \in DOMAIN assets /\ transfers[t].to \in Owners
    BY <2>1, ReviewEffect DEF TransfersOfAssets, TransferRecord
  <2> QED  BY <1>4, <2>1, <2>2 DEF HandOver
<1>7. ASSUME UNCHANGED assets PROVE TagsNormal'
  BY <1>7 DEF TagsNormal
<1>8. ASSUME NEW a \in Assets, NEW owner \in Owners, NEW t \in Transfers,
             RequestOwnershipTransfer(t, a, owner)
      PROVE  TagsNormal'
  BY <1>7, <1>8 DEF RequestOwnershipTransfer
<1>9. ASSUME NEW t \in Transfers, RejectTransfer(t) PROVE TagsNormal'
  BY <1>7, <1>9 DEF RejectTransfer
<1> QED  BY <1>1, <1>2, <1>3, <1>5, <1>6, <1>8, <1>9, StepKinds

-----------------------------------------------------------------------------
(* Trails *)

\* No event is about an asset or a transfer that does not exist.
EventsOfKnown ==
  /\ \A a \in Assets \ DOMAIN assets : Len(auditEvents[a]) = 0
  /\ \A a \in Assets : \A i \in DOMAIN auditEvents[a] :
       auditEvents[a][i].transfer \in DOMAIN transfers \cup {NoTransfer}

TrailsOK == TrailNamesOwner /\ TransfersReviewedOnce /\ EventsOfKnown

\* A recorded event that hands a to its new owner, and one that changes no owner.
LEMMA OwnerTrail ==
  ASSUME TypeOK, TrailNamesOwner, NEW a \in DOMAIN assets,
         NEW type \in {"assigned", "requested", "approved", "rejected"},
         NEW t \in Transfers \cup {NoTransfer}, NEW previous \in Owners \cup {NoOwner},
         NEW owner \in Owners, Record(a, type, t, previous, owner),
         IF type \in {"assigned", "approved"}
         THEN assets' = [assets EXCEPT ![a].owner = owner] /\ retagged' = retagged \ {a}
         ELSE UNCHANGED <<assets, retagged>>
  PROVE  TrailNamesOwner'
<1>1. a \in Assets /\ DOMAIN assets \subseteq Assets
  BY DEF TypeOK, IsStore
<1> DEFINE n == Len(auditEvents[a])
<1>2. /\ n \in Nat
      /\ DOMAIN auditEvents[a] = 1..n
      /\ DOMAIN auditEvents'[a] = 1..(n + 1)
      /\ \A i \in 1..n : auditEvents'[a][i] = auditEvents[a][i]
  BY <1>1, RecordEffect
<1>6. \A b \in DOMAIN assets : b # a => auditEvents'[b] = auditEvents[b]
  <2>1. \A b \in Assets : b # a => auditEvents'[b] = auditEvents[b]
    BY <1>1, RecordEffect
  <2> QED  BY <1>1, <2>1
<1>3. auditEvents'[a][n + 1].type = type /\ auditEvents'[a][n + 1].to = owner
  <2>1. EventAppended(a, type, t, owner)
    BY <1>1, RecordedEvent
  <2> QED  BY <2>1 DEF EventAppended
<1> HIDE DEF n
<1>4. CASE type \in {"assigned", "approved"}
  <2>1. /\ DOMAIN assets' = DOMAIN assets
        /\ assets'[a].owner = owner
        /\ \A b \in DOMAIN assets : b # a => assets'[b] = assets[b]
        /\ retagged' = retagged \ {a}
    BY <1>4, OwnerEffect
  <2>2. ASSUME NEW b \in DOMAIN assets' \ retagged', NEW i \in DOMAIN auditEvents'[b],
               ChangesOwner(auditEvents'[b][i]),
               \A j \in DOMAIN auditEvents'[b] : j > i => ~ChangesOwner(auditEvents'[b][j])
        PROVE  assets'[b].owner = auditEvents'[b][i].to
    <3>1. CASE b = a
      <4>1. ChangesOwner(auditEvents'[a][n + 1])
        BY <1>3, <1>4 DEF ChangesOwner
      <4>2. i = n + 1
        BY <1>2, <2>2, <3>1, <4>1
      <4> QED  BY <1>3, <2>1, <3>1, <4>2
    <3>2. CASE b # a
      <4>1. b \in DOMAIN assets \ retagged /\ auditEvents'[b] = auditEvents[b]
        BY <1>6, <2>1, <3>2
      <4> QED  BY <2>1, <2>2, <3>2, <4>1 DEF TrailNamesOwner
    <3> QED  BY <3>1, <3>2
  <2> QED  BY <2>2 DEF TrailNamesOwner
<1>5. CASE type \notin {"assigned", "approved"}
  <2>1. UNCHANGED <<assets, retagged>>
    BY <1>5
  <2>2. ASSUME NEW b \in DOMAIN assets' \ retagged', NEW i \in DOMAIN auditEvents'[b],
               ChangesOwner(auditEvents'[b][i]),
               \A j \in DOMAIN auditEvents'[b] : j > i => ~ChangesOwner(auditEvents'[b][j])
        PROVE  assets'[b].owner = auditEvents'[b][i].to
    <3>1. CASE b = a
      <4>1. ~ChangesOwner(auditEvents'[a][n + 1])
        BY <1>3, <1>5 DEF ChangesOwner
      <4>2. i \in 1..n
        BY <1>2, <2>2, <3>1, <4>1
      <4>3. \A j \in 1..n : j > i => ~ChangesOwner(auditEvents[a][j])
        BY <1>2, <2>2, <3>1
      <4>4. auditEvents'[a][i] = auditEvents[a][i]
        BY <1>2, <4>2
      <4>5. ChangesOwner(auditEvents[a][i]) /\ a \notin retagged
        BY <2>1, <2>2, <3>1, <4>4
      <4>6. assets[a].owner = auditEvents[a][i].to
        BY <1>2, <4>2, <4>3, <4>5 DEF TrailNamesOwner
      <4> QED  BY <2>1, <3>1, <4>4, <4>6
    <3>2. CASE b # a
      <4>1. auditEvents'[b] = auditEvents[b]
        BY <1>6, <2>1, <3>2
      <4> QED  BY <2>1, <2>2, <3>2, <4>1 DEF TrailNamesOwner
    <3> QED  BY <3>1, <3>2
  <2> QED  BY <2>2 DEF TrailNamesOwner
<1> QED  BY <1>4, <1>5

\* An event about another transfer, or a request, leaves the reviews of u alone.
LEMMA ReviewsKept ==
  ASSUME TypeOK, TransfersOfAssets, NEW a \in Assets,
         NEW type \in {"assigned", "requested", "approved", "rejected"},
         NEW t \in Transfers \cup {NoTransfer}, NEW from \in Owners \cup {NoOwner},
         NEW to \in Owners, Record(a, type, t, from, to),
         NEW u \in DOMAIN transfers, transfers'[u].asset = transfers[u].asset,
         u # t \/ type = "requested"
  PROVE  /\ Reviews(u)' = Reviews(u)
         /\ \A i \in Reviews(u) : Trail(u)'[i] = Trail(u)[i]
<1> DEFINE n == Len(auditEvents[a])
           b == transfers[u].asset
<1>1. b \in Assets
  BY DEF TypeOK, IsStore, TransfersOfAssets
<1>2. Trail(u)' = auditEvents'[b] /\ Trail(u) = auditEvents[b]
  BY DEF Trail
<1>3. CASE b # a
  <2>1. auditEvents'[b] = auditEvents[b]
    BY <1>1, <1>3, RecordEffect
  <2> QED  BY <1>2, <2>1 DEF Reviews
<1>4. CASE b = a
  <2>1. /\ n \in Nat
        /\ DOMAIN auditEvents[a] = 1..n
        /\ DOMAIN auditEvents'[a] = 1..(n + 1)
        /\ \A i \in 1..n : auditEvents'[a][i] = auditEvents[a][i]
    BY RecordEffect
  <2>2. auditEvents'[a][n + 1].type = type /\ auditEvents'[a][n + 1].transfer = t
    <3>1. EventAppended(a, type, t, to)
      BY RecordedEvent
    <3> QED  BY <3>1 DEF EventAppended
  <2> HIDE DEF n, b
  <2>3. \A i \in 1..(n + 1) :
          auditEvents'[a][i].transfer = u /\ auditEvents'[a][i].type # "requested" => i \in 1..n
    BY <2>1, <2>2
  <2> QED  BY <1>2, <1>4, <2>1, <2>3 DEF Reviews
<1> QED  BY <1>3, <1>4

\* The review itself is the first one in the trail of its transfer.
LEMMA ReviewRecorded ==
  ASSUME TypeOK, TransfersOfAssets, TransfersReviewedOnce,
         NEW t \in Transfers, NEW status \in {"approved", "rejected"}, Review(t, status)
  PROVE  TransfersReviewedOnce'
<1> DEFINE a == transfers[t].asset
           n == Len(auditEvents[a])
<1>1. /\ t \in DOMAIN transfers /\ transfers[t] \in TransferRecord
      /\ DOMAIN transfers' = DOMAIN transfers
      /\ transfers'[t].status = status
      /\ \A u \in DOMAIN transfers : /\ transfers'[u].asset = transfers[u].asset
                                     /\ u # t => transfers'[u] = transfers[u]
  BY ReviewEffect
<1>2. /\ a \in Assets /\ transfers[t].from \in Owners /\ transfers[t].to \in Owners
      /\ Record(a, status, t, transfers[t].from, transfers[t].to)
  BY <1>1 DEF TransfersOfAssets, TypeOK, IsStore, TransferRecord, Review
<1>3. ASSUME NEW u \in DOMAIN transfers, u # t
      PROVE  /\ Reviews(u)' = Reviews(u)
             /\ \A i \in Reviews(u) : Trail(u)'[i] = Trail(u)[i]
  BY <1>1, <1>2, <1>3, ReviewsKept
<1>4. /\ n \in Nat
      /\ DOMAIN auditEvents[a] = 1..n
      /\ DOMAIN auditEvents'[a] = 1..(n + 1)
      /\ \A i \in 1..n : auditEvents'[a][i] = auditEvents[a][i]
  BY <1>2, RecordEffect
<1>5. auditEvents'[a][n + 1].type = status /\ auditEvents'[a][n + 1].transfer = t
  <2>1. EventAppended(a, status, t, transfers[t].to)
    BY <1>2, RecordedEvent
  <2> QED  BY <2>1 DEF EventAppended
<1> HIDE DEF n
<1>6. \A i \in 1..n : ~(auditEvents[a][i].transfer = t /\ auditEvents[a][i].type # "requested")
  <2>1. Reviews(t) = {}
    BY <1>1 DEF TransfersReviewedOnce, Review, Unreviewed
  <2> QED  BY <1>4, <2>1 DEF Reviews, Trail
<1>7. Trail(t)' = auditEvents'[a]
  BY <1>1 DEF Trail
<1>8. Reviews(t)' = {n + 1}
  BY <1>4, <1>5, <1>6, <1>7 DEF Reviews
<1>9. ASSUME NEW u \in DOMAIN transfers
      PROVE  /\ \A i, j \in Reviews(u)' : i = j
             /\ Reviews(u)' = {} <=> transfers'[u].status = "pending"
             /\ \A i \in Reviews(u)' : Trail(u)'[i].type = transfers'[u].status
  <2>1. CASE u = t
    BY <1>1, <1>5, <1>7, <1>8, <2>1
  <2>2. CASE u # t
    BY <1>1, <1>3, <2>2 DEF TransfersReviewedOnce
  <2> QED  BY <2>1, <2>2
<1> QED  BY <1>1, <1>9 DEF TransfersReviewedOnce

\* Any other event.
LEMMA OtherRecorded ==
  ASSUME TypeOK, TransfersOfAssets, TransfersReviewedOnce, NEW a \in Assets,
         NEW type \in {"assigned", "requested"},
         NEW t \in Transfers \cup {NoTransfer}, NEW from \in Owners \cup {NoOwner},
         NEW to \in Owners, Record(a, type, t, from, to),
         \A u \in DOMAIN transfers : transfers'[u] = transfers[u] /\ (u # t \/ type = "requested")
  PROVE  \A u \in DOMAIN transfers :
           /\ \A i, j \in Reviews(u)' : i = j
           /\ Reviews(u)' = {} <=> transfers'[u].status = "pending"
           /\ \A i \in Reviews(u)' : Trail(u)'[i].type = transfers'[u].status
<1>1. TAKE u \in DOMAIN transfers
<1>2. /\ Reviews(u)' = Reviews(u)
      /\ \A i \in Reviews(u) : Trail(u)'[i] = Trail(u)[i]
  BY ReviewsKept
<1> QED  BY <1>2 DEF TransfersReviewedOnce

LEMMA EventsRecorded ==
  ASSUME TypeOK, EventsOfKnown, NEW a \in DOMAIN assets,
         NEW type \in {"assigned", "requested", "approved", "rejected"},
         NEW t \in Transfers \cup {NoTransfer}, NEW from \in Owners \cup {NoOwner},
         NEW to \in Owners, Record(a, type, t, from, to),
         DOMAIN assets' = DOMAIN assets, DOMAIN transfers \subseteq DOMAIN transfers',
         t \in DOMAIN transfers' \cup {NoTransfer}
  PROVE  EventsOfKnown'
<1>1. a \in Assets
  BY DEF TypeOK, IsStore
<1> DEFINE n == Len(auditEvents[a])
<1>2. \A b \in Assets : b # a => auditEvents'[b] = auditEvents[b]
  BY <1>1, RecordEffect
<1>3. /\ n \in Nat
      /\ DOMAIN auditEvents[a] = 1..n
      /\ DOMAIN auditEvents'[a] = 1..(n + 1)
      /\ \A i \in 1..n : auditEvents'[a][i] = auditEvents[a][i]
  BY <1>1, RecordEffect
<1>4. auditEvents'[a][n + 1].transfer = t
  <2>1. EventAppended(a, type, t, to)
    BY <1>1, RecordedEvent
  <2> QED  BY <2>1 DEF EventAppended
<1> HIDE DEF n
<1>5. ASSUME NEW i \in DOMAIN auditEvents'[a]
      PROVE  auditEvents'[a][i].transfer \in DOMAIN transfers' \cup {NoTransfer}
  <2>1. CASE i = n + 1
    BY <1>4, <2>1
  <2>2. CASE i # n + 1
    <3>1. i \in 1..n
      BY <1>3, <2>2
    <3> QED  BY <1>1, <1>3, <3>1 DEF EventsOfKnown
  <2> QED  BY <2>1, <2>2
<1> QED  BY <1>2, <1>5 DEF EventsOfKnown

LEMMA NextTrails ==
  ASSUME TypeOK, TransfersOfAssets, TrailsOK, [Next]_vars PROVE TrailsOK'
<1> USE DEF TrailsOK
<1>1. CASE UNCHANGED <<assets, transfers, auditEvents, retagged>>
  BY <1>1 DEF TrailNamesOwner, TransfersReviewedOnce, EventsOfKnown, Reviews, Trail
<1>2. ASSUME NEW a \in Assets, NEW r \in Requests,
             Insert(a, r), UNCHANGED <<transfers, auditEvents, retagged>>
      PROVE  TrailsOK'
  <2>1. /\ a \notin DOMAIN assets
        /\ DOMAIN assets' = DOMAIN assets \cup {a}
        /\ \A b \in DOMAIN assets : assets'[b] = assets[b]
    BY <1>2, InsertEffect DEF Insert
  <2>2. DOMAIN auditEvents[a] = {}
    <3>1. Len(auditEvents[a]) = 0 /\ auditEvents[a] \in Seq(AuditEvent)
      BY <2>1 DEF EventsOfKnown, TypeOK
    <3> QED  BY <3>1
  <2>3. TrailNamesOwner'
    BY <1>2, <2>1, <2>2 DEF TrailNamesOwner
  <2>4. TransfersReviewedOnce'
    BY <1>2 DEF TransfersReviewedOnce, Reviews, Trail
  <2>5. EventsOfKnown'
    BY <1>2, <2>1 DEF EventsOfKnown
  <2> QED  BY <2>3, <2>4, <2>5
<1>3. ASSUME NEW a \in Assets, NEW t \in Taggings, UpdateAssetTagging(a, t)
      PROVE  TrailsOK'
  <2>1. a \in DOMAIN assets
    BY <1>3 DEF UpdateAssetTagging
  <2>2. retagged' = retagged \cup {a} /\ UNCHANGED <<transfers, auditEvents>>
    BY <1>3 DEF UpdateAssetTagging
  <2>3. /\ DOMAIN assets' = DOMAIN assets
        /\ \A b \in DOMAIN assets : b # a => assets'[b] = assets[b]
    BY <1>3, <2>1, TaggingEffect
  <2>4. TrailNamesOwner'
    BY <2>2, <2>3 DEF TrailNamesOwner
  <2>5. TransfersReviewedOnce'
    BY <2>2 DEF TransfersReviewedOnce, Reviews, Trail
  <2>6. EventsOfKnown'
    BY <2>2, <2>3 DEF EventsOfKnown
  <2> QED  BY <2>4, <2>5, <2>6
<1>4. ASSUME NEW a \in Assets, NEW owner \in Owners, AssignOwner(a, owner)
      PROVE  TrailsOK'
  <2>1. /\ a \in DOMAIN assets
        /\ assets' = [assets EXCEPT ![a].owner = owner]
        /\ Record(a, "assigned", NoTransfer, assets[a].owner, owner)
        /\ retagged' = retagged \ {a}
        /\ UNCHANGED transfers
    BY <1>4 DEF AssignOwner
  <2>2. assets[a].owner \in Owners \cup {NoOwner}
    <3>1. assets[a] \in AssetRecord
      BY <2>1 DEF TypeOK, IsStore
    <3> QED  BY <3>1 DEF AssetRecord
  <2>3. TrailNamesOwner'
    BY <2>1, <2>2, OwnerTrail
  <2>4. \A u \in DOMAIN transfers : u # NoTransfer
    BY NoTransferAssumption DEF TypeOK, IsStore
  <2>5. TransfersReviewedOnce'
    BY <2>1, <2>2, <2>4, OtherRecorded DEF TransfersReviewedOnce
  <2>6. DOMAIN assets' = DOMAIN assets
    BY <2>1, OwnerEffect
  <2>7. EventsOfKnown'
    BY <2>1, <2>2, <2>6, EventsRecorded
  <2> QED  BY <2>3, <2>5, <2>7
<1>5. ASSUME NEW a \in Assets, NEW owner \in Owners, NEW t \in Transfers,
             RequestOwnershipTransfer(t, a, owner)
      PROVE  TrailsOK'
  <2>1. Record(a, "requested", t, assets[a].owner, owner) /\ UNCHANGED <<assets, retagged>>
    BY <1>5 DEF RequestOwnershipTransfer
  <2>2. /\ a \in DOMAIN assets /\ assets[a].owner \in Owners
        /\ t \notin DOMAIN transfers
        /\ DOMAIN transfers' = DOMAIN transfers \cup {t}
        /\ transfers'[t].asset = a /\ transfers'[t].status = "pending"
        /\ \A u \in DOMAIN transfers : transfers'[u] = transfers[u]
    BY <1>5, RequestEffect
  <2>3. TrailNamesOwner'
    BY <2>1, <2>2, OwnerTrail
  <2>4. \A u \in DOMAIN transfers :
          /\ \A i, j \in Reviews(u)' : i = j
          /\ Reviews(u)' = {} <=> transfers'[u].status = "pending"
          /\ \A i \in Reviews(u)' : Trail(u)'[i].type = transfers'[u].status
    BY <2>1, <2>2, OtherRecorded
  <2>5. Reviews(t)' = {}
    <3> DEFINE n == Len(auditEvents[a])
    <3>1. /\ n \in Nat
          /\ DOMAIN auditEvents[a] = 1..n
          /\ DOMAIN auditEvents'[a] = 1..(n + 1)
          /\ \A i \in 1..n : auditEvents'[a][i] = auditEvents[a][i]
      BY <2>1, <2>2, RecordEffect
    <3>2. auditEvents'[a][n + 1].type = "requested"
      <4>1. EventAppended(a, "requested", t, owner)
        BY <2>1, <2>2, RecordedEvent
      <4> QED  BY <4>1 DEF EventAppended
    <3>3. \A i \in 1..n : auditEvents[a][i].transfer # t
      BY <2>2, <3>1, NoTransferAssumption DEF EventsOfKnown
    <3> HIDE DEF n
    <3>4. Trail(t)' = auditEvents'[a]
      BY <2>2 DEF Trail
    <3>5. \A i \in 1..(n + 1) :
            ~(auditEvents'[a][i].transfer = t /\ auditEvents'[a][i].type # "requested")
      BY <3>1, <3>2, <3>3
    <3> QED  BY <3>1, <3>4, <3>5 DEF Reviews
  <2>6. TransfersReviewedOnce'
    BY <2>2, <2>4, <2>5 DEF TransfersReviewedOnce
  <2>7. EventsOfKnown'
    BY <2>1, <2>2, EventsRecorded
  <2> QED  BY <2>3, <2>6, <2>7
<1>6. ASSUME NEW t \in Transfers, ApproveTransfer(t) \/ RejectTransfer(t)
      PROVE  TrailsOK'
  <2>1. PICK status \in {"approved", "rejected"} :
          /\ Review(t, status)
          /\ IF status = "approved" THEN HandOver(t) ELSE UNCHANGED <<assets, retagged>>
    BY <1>6 DEF ApproveTransfer, RejectTransfer
  <2>2. /\ t \in DOMAIN transfers /\ transfers[t] \in TransferRecord
        /\ DOMAIN transfers' = DOMAIN transfers
    BY <2>1, ReviewEffect
  <2>3. /\ transfers[t].asset \in DOMAIN assets
        /\ transfers[t].from \in Owners /\ transfers[t].to \in Owners
        /\ Record(transfers[t].asset, status, t, transfers[t].from, transfers[t].to)
    BY <2>1, <2>2 DEF TransfersOfAssets, TransferRecord, Review
  <2>4. IF status \in {"assigned", "approved"}
        THEN /\ assets' = [assets EXCEPT ![transfers[t].asset].owner = transfers[t].to]
             /\ retagged' = retagged \ {transfers[t].asset}
        ELSE UNCHANGED <<assets, retagged>>
    BY <2>1 DEF HandOver
  <2>5. TrailNamesOwner'
    BY <2>3, <2>4, OwnerTrail
  <2>6. TransfersReviewedOnce'
    BY <2>1, ReviewRecorded
  <2>7. DOMAIN assets' = DOMAIN assets
    BY <2>3, <2>4, OwnerEffect
  <2>8. EventsOfKnown'
    BY <2>2, <2>3, <2>7, EventsRecorded
  <2> QED  BY <2>5, <2>6, <2>8
<1> QED  BY <1>1, <1>2, <1>3, <1>4, <1>5, <1>6, StepKinds

-----------------------------------------------------------------------------
(* Theorems *)

\* The inductive invariant.
IInv == /\ TypeOK /\ TransfersOfAssets
        /\ NamesUnique /\ \A m \in Imports : ImportSound(m)
        /\ TagsNormal /\ TrailsOK

LEMMA InitInvariant == Init => IInv
<1> SUFFICES ASSUME Init PROVE IInv
  OBVIOUS
<1>1. DOMAIN assets = {} /\ DOMAIN transfers = {}
  BY EmptyIsStore DEF Init
<1>2. TransfersOfAssets /\ NamesUnique /\ TagsNormal
  BY <1>1 DEF TransfersOfAssets, NamesUnique, TagsNormal
<1>3. \A m \in Imports : ImportSound(m)
  BY DEF Init, ImportSound
<1>4. \A a \in Assets : auditEvents[a] = << >>
  BY DEF Init
<1>5. \A a \in Assets : Len(auditEvents[a]) = 0 /\ DOMAIN auditEvents[a] = {}
  BY <1>4
<1>6. TrailsOK
  BY <1>1, <1>5 DEF TrailsOK, TrailNamesOwner, TransfersReviewedOnce, EventsOfKnown
<1> QED  BY <1>2, <1>3, <1>6, InitTyped DEF IInv

LEMMA NextInvariant == IInv /\ [Next]_vars => IInv'
<1> SUFFICES ASSUME IInv, [Next]_vars PROVE IInv'
  OBVIOUS
<1>1. TypeOK' /\ TransfersOfAssets'
  BY NextTyped DEF IInv
<1>2. NamesUnique'
  BY NextUnique DEF IInv
<1>3. (\A m \in Imports : ImportSound(m))'
  BY NextImportsSound DEF IInv
<1>4. TagsNormal'
  BY NextTagged DEF IInv
<1>5. TrailsOK'
  BY NextTrails DEF IInv
<1> QED  BY <1>1, <1>2, <1>3, <1>4, <1>5 DEF IInv

LEMMA Invariance == Spec => []IInv
BY InitInvariant, NextInvariant, PTL DEF Spec

\* The inventory, the transfers, the trails and the imports are well formed
\* in every reachable state (AssetService and its maps).
THEOREM TypeCorrect == Spec => []TypeOK
<1>1. IInv => TypeOK
  BY DEF IInv
<1> QED  BY <1>1, Invariance, PTL

\* However many imports with stale snapshots overlap, the check under the
\* lock of CreateAsset keeps names apart.
THEOREM UniqueNames == Spec => []NamesUnique
<1>1. IInv => NamesUnique
  BY DEF IInv
<1> QED  BY <1>1, Invariance, PTL

\* A refused row of ImportAssets costs no sound row its asset.
THEOREM SoundRows == Spec => []SoundRowsAreStored
<1>1. IInv => SoundRowsAreStored
  BY DEF IInv, ImportSound, SoundRowsAreStored
<1> QED  BY <1>1, Invariance, PTL

\* What CreateAsset keeps passes the validation of TestConnection, in
\* whichever order either of them reads the keys.
THEOREM Prechecks == Spec => []PrecheckPasses
<1>1. IInv => PrecheckPasses
  BY TypedPrechecks DEF IInv
<1> QED  BY <1>1, Invariance, PTL

\* ListAssets finds what CreateAsset and UpdateAssetTagging normalised.
THEOREM Listing == Spec => []ListedUnderItsTags
<1>1. IInv => ListedUnderItsTags
  BY TagsListed DEF IInv
<1> QED  BY <1>1, Invariance, PTL

\* Assignments, reviews and tagging in any order: the trail names the owner.
THEOREM TrailsName == Spec => []TrailNamesOwner
<1>1. IInv => TrailNamesOwner
  BY DEF IInv, TrailsOK
<1> QED  BY <1>1, Invariance, PTL

\* ReviewOwnershipTransfer decides a transfer once, and the trail says how.
THEOREM OneReview == Spec => []TransfersReviewedOnce
<1>1. IInv => TransfersReviewedOnce
  BY DEF IInv, TrailsOK
<1> QED  BY <1>1, Invariance, PTL
=============================================================================

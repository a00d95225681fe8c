# Verification of the BoniPAM backend

TLA+ specifications of the Go services of BoniPAM (`src/backend`), the TLC
configurations that check them on small instances, and TLAPS proofs of their
main properties for every instance. `PROJECT.json` maps every definition to the
lines it models, lists the runs, the mutants, the theorems, the hazards of the
code and the disagreements between code and documents that the work found.

## 1. The system

BoniPAM is a privileged-access-management backend. Two processes are built from
`src/backend`: `cmd/auth-service` (sign-in, users, roles, permissions, group
mapping, and a ticker that synchronises users with the identity provider) and
`cmd/api-gateway` (privileged sessions and just-in-time grants; see section 6
for what keeps it from building). The vault,
policy and asset services have HTTP handlers but no process mounts them yet;
they are verified as services, the way their tests use them.

Every service keeps all of its state in Go maps guarded by one `sync.RWMutex`
per service. Nothing is persisted: a restart is a return to the initial state.
Gin serves each request in a goroutine of its own, so what has to be right is
what happens *between* critical sections: a request that reads under a lock,
gives the lock back, and acts on what it read.

| Component (file under `internal/service`) | State | Operations | What is hard |
|---|---|---|---|
| AuthService (`auth_service.go`) | challenges, refresh tokens, sessions | Login, ExchangeOIDCCode, CreateMFAChallenge, VerifyMFA, RefreshToken, RevokeSessions | two maps that refer to each other; operations made of two critical sections (verify then issue, rotate then issue) racing revocation and each other; expiry |
| UserSyncService (`user_sync_service.go`) | IdP profiles | SyncUserOnLogin, SyncAllUsers (ticker) | seeding an empty store; clock read before the lock |
| UserService (`user_service.go`) | users | create, update, soft delete, restore, group and role reconciliation | uniqueness of e-mail among users that are not deleted; role changes by mapping against direct updates |
| RoleService (`role_service.go`) | roles | create, update, delete | system roles, unique names |
| PermissionService (`permission_service.go`) | permissions | create, update, delete | unique resource/action pairs |
| GroupMappingService (`group_mapping_service.go`) | group to role ids | AssignRole, UnassignRole, ReconcileGroupMembers | three services called in turn, each with its own lock; a snapshot of the mapping applied late; several groups granting the same role |
| VaultService (`vault_service.go`) | leases, rotation policies, secrets | IssueCredential, RevokeLease, RevokeLeasesByTarget, CreateRotationPolicy, TriggerRotation, RunDueRotations, StoreSecret, GetSecret | a rotation works on a copy of its policy without the lock and writes the copy back; expiry |
| GatewayService (`gateway_service.go`) | gateway sessions, JIT grants | InitiateSession, TerminateSession, RequestJITGrant, ApproveJITGrant, DenyJITGrant | a grant is validated under one lock, the session stored under another; grants expire |
| PolicyService (`policy_service.go`, `context_resolver_service.go`) | policies and their versions | create, update, publish, rollback, evaluate | version history, rollback, publication status; an evaluation works on a copy of the policy, reads the clock after taking it, and goes on while the policy is edited |
| AssetService (`asset_service.go`) | assets, owner transfers, ownership audit | create, tag, test, assign owner, transfer request and review, import | several pending transfers of one asset; transfers against direct assignment; import from a stale snapshot, with rows that are refused half-way; spellings of metadata keys that collide in a map |

Components call each other directly: AuthService calls UserService
(`ListUsers`) and UserSyncService; GroupMappingService calls RoleService
(`GetRole`) and UserService (`ApplyRoleMapping`, `ReconcileGroupMembership`);
VaultService calls a KMS provider; PolicyService calls ContextResolverService. There are no messages and no callbacks; the
only autonomous activity is the ticker of `cmd/auth-service`.

## 2. How the code is modelled

* A Go map is a function whose domain is the set of keys (`Stores.tla`).
* One action is one critical section, together with the local computation
  around it. A request made of several critical sections leaves a record of
  what its goroutine remembers in `calls`; any number of other steps may come
  between.
* `now` is the clock. A test `time.Now().After(t)` is `now > t`. When the clock
  is read outside the critical section that uses it, the value used is any
  instant since the request's last step, and for a request of one step any
  instant up to that step.
* A random identifier (`uuid.NewString()`, random tokens) is any identifier
  not in use.
* A request that fails without changing anything is a stuttering step.
* Texts are model values, and a value stands for all spellings that the code
  identifies (`TrimSpace`, `ToLower`, `EqualFold`), except where the conversion is
  the point: role names (`RoleNaming`), what an asset is registered with
  (`AssetRegistration`: `Spelled` maps each spelling to its normal form), the
  attributes of a policy request (`PolicyEvaluation`) and the names of secrets
  (`VaultSecrets`) are modelled with their spellings.
* History that the code does not keep is held in separate variables that no
  guard of a modelled condition reads.

## 3. The modules

| Module | Models | State and actions |
|---|---|---|
| `Stores` | Go maps | `Put`, `Without`, `EmptyStore`, `IsStore` |
| `AuthSessions` | AuthService, UserSyncService, the ticker | `challenges`, `refreshTokens`, `sessions`, `idpUsers` are the maps. A request is `Idle`, `Verifying` (it holds a copy of a challenge) or `Issuing` (it is in `issueSession`, before its lock). `ReadChallenge`, then `RejectChallenge`, `ExpireChallenge` or `ConsumeChallenge`, is VerifyMFA; `RotateToken` or `ExpireToken` is RefreshToken up to the end of its critical section; `IssueSession` or `IssueFails` is the end of every sign-in, verification and rotation. History: `born`, `sweeps` |
| `TokenLedger` | what refresh tokens promise | tokens are granted, redeemed, cancelled, answered or abandoned; a redeemed token is answered at most once |
| `AccessBroker` | what the gateway promises about access | a grant is asked for until a deadline and decided once, approved only before it; a session is opened in one step, freely or under a grant approved at that moment, for the grant's scope |
| `GatewayAccess` | GatewayService | `ValidateJITGrant` then `CreateSession` is InitiateSession with a grant, `InitiateWithoutGrant` is it without one; the other actions have the names of the methods. History: `opened` |
| `RotationBook` | what the vault promises about leases and rotation | every step is about one policy or about leases; a rotation leases for the terms the policy has at that moment and owes it one record, which moves the due date and nothing else; every instant stamped is one up to the step, because requests read the clock before they take the lock |
| `VaultRotation` | leases and rotation of VaultService | `TriggerRotation` or `RunDueRotations`/`RotateNext` takes the copy of a policy, `IssueRotated` or `IssueFails` is IssueCredential in the middle of a rotation, `RecordRotation` writes the copy back. `IssueCredential`, `RevokeLeasesByTarget` and `CreateRotationPolicy` take the instant that the request read before the lock; `RevokeLease` reads the clock under it. History: `rotated`, `stamps` |
| `KeyWrapping` | LocalKMSProvider | `WrapKey`, `UnwrapKey` on bytes, which are sets of bits; AES-GCM is external (`Seal`, `Opens`) |
| `VaultSecrets` | the secrets of VaultService | `StoreSecret`, which may seal before it takes the lock and is one step because the key-encryption key never changes; `GetSecret` is an operator. History: `entrusted` |
| `Vault` | VaultService | `VaultRotation` beside `VaultSecrets`, with the fairness of its goroutines |
| `RoleNaming`, `Users`, `Roles` | UserService, RoleService | one operator per method |
| `GroupRoles` | GroupMappingService, composed with `Users` and `Roles` | `AssignRole`, `MapRole` (two critical sections of AssignRole), `UnassignRole`, `ReconcileGroupMembers`, `SnapshotMapping`, then `ResolveRole` for each identifier and `ApplyNames`. History: `granted`, `stale`, `retired` |
| `AssetRegistration` | what AssetService accepts and in which form it keeps it | operators: defaults and validation of connections, `Readings` of a metadata map whose keys collide, normalisation of tags, the filters of ListAssets, JSON and CSV payloads |
| `AssetOwnership` | AssetService | one action per method; ReviewOwnershipTransfer is `ApproveTransfer` or `RejectTransfer`; ImportAssets is a snapshot, then `ImportRow`, `SkipRow` or `FailRow` per row, then `AnswerImport`. History: `retagged` |
| `VersionLog` | what the policy life cycle promises | a policy is a log of definitions that only grows, with at most one live entry; the record callers see is a view of the two |
| `PolicyLifecycle` | the life cycle of PolicyService | one action per method; UpdatePolicy without a new definition is `RenamePolicy` |
| `PolicyEvaluation` | what a policy says of a request | operators: the schema, patterns, conditions, and `Resolve`, which is ContextResolverService |
| `PolicyDecisions` | EvaluatePolicy, composed with `PolicyLifecycle` | `StartEvaluation` copies the policy, `ResolveContext` reads the clock, `EvaluateRule` is one turn of the loop, `Answer` |
| `MC...` | | symmetry sets and enumerated inputs for TLC |
| `StoreTheorems`, `...Proofs` | | lemmas about stores; the theorems of section 5 |

`TokenLedger`, `AccessBroker`, `RotationBook` and `VersionLog` are the abstract
specifications. They have no locks, no requests half done and no copies; the
module named after each in the table ends with the mapping of its state to theirs
(`Ledger`, `Broker`, `Book`, `Log`) and the claim that it implements them. What
they leave out on purpose is said in section 5.

Several modules hold *mutants*: operators with the parameters of the one that
follows them, changed the way a plausible mistake would change it. They are not
used in any specification. `PROJECT.json` says which property each of them
breaks; substituting it and running TLC is how we know that the property would
notice.

## 4. The runs

`tlc -config <cfg> <module>` in this directory. All runs are exhaustive.

| Run (module, cfg) | Distinct states | Question |
|---|---|---|
| `auth_core` (`MCAuthSessions`, `core`) | 454,244 | Do the two maps of AuthService agree, is a refresh token used once, does a revoked session buy nothing, does what escapes a revoke-all die out, how often can one MFA challenge be spent, and do the tokens implement `TokenLedger`? |
| `gateway_access` (`MCGatewayAccess`, `access`) | 440,629 | Do sessions stay within approved grants, how many can outrun the expiry of a grant, and does the service implement `AccessBroker`? |
| `vault_rotation` (`MCVaultRotation`, `rotation`) | 211,900 | Can stale copies of policies do harm, how far can overlapping rotations take a due date back, is every rotation accounted for, can every policy be rotated, and does the service implement `RotationBook`? |
| `vault_sweep` (`MCVault`, `sweep`) | 212,077 | Does every sweep and rotation end, whatever fails (liveness)? Does a secret read back as the first value stored under its name, however that is spelled, when two values are stored under two names? |
| `group_roles` (`MCGroupRoles`, `roles`) | 166,822 | With two mapping requests at a time: do members end up with the roles of their group, are deleted users left alone, and how may two users come to share an address? |
| `group_groups` (`MCGroupRoles`, `groups`) | 1.71 million | With two groups and two role names: does every role a user holds come from a mapping, and is the seed administrator's role out of reach? |
| `asset_owners` (`MCAssetOwnership`, `owners`) | 758,773 | Does the trail name the owner, is a transfer reviewed once, are names unique while imports overlap, does a refused row cost no other, is what was accepted valid when it is tested again, and is it listed under its tags? |
| `policy_versions` (`MCPolicyLifecycle`, `versions`) | 4,225 | Is the version history complete, is the status right, and does the service implement `VersionLog`? |
| `policy_decisions` (`MCPolicyDecisions`, `decisions`) | 182,336 | Is every answer what one version of the policy says of the request at one instant, does an allowed request have attributes of the types that allow it, and do its times belong to one instant? |
| `auth_revokeall`, `group_mapping`, `policy_drafts` | | Counterexamples to what a document says: section 6 |

**Bounds.** Every hazard here is a matter of few participants. That the
instances are large enough to show it going wrong is what the mutants establish:
each property is broken by its mutant under the bounds of its own run.

* Two requests at a time (`Requests`): every race we state is between two
  critical sections of one request and one other request. The properties that
  bound something by the number of requests (`ChallengeUsesBounded`,
  `LateSessionsBounded`) have three sessions for two
  requests, so the bound can be exceeded.
* The clock stops at `MaxTime`, one or two instants after the longest deadline
  of what is created at the start: everything can be before, at and after its
  deadline. In the vault nothing is refused for being late; there the clock lets a
  policy fall due, be rotated and fall due again. The `Tick` of a clock that stands
  still for a while is the idle system.
* `MaxSweeps` is the number of revoke-alls per user, `MaxEvents` stops *direct*
  assignments when the trail of an asset is that long (reviews and requests are
  bounded by the transfers), `MaxVersion` is the highest version of a policy.
* Identifiers are used up, which bounds everything else. Configurations in which
  an idle service may then have no step left say so and set
  `CHECK_DEADLOCK FALSE`.
* `group_roles` has one e-mail address and one role name for two users and two
  identifiers, so that deletion, re-creation and restoration collide.
  `group_groups` has one identifier and two names, two users and two groups that
  may share a role.
* `asset_owners` has four registrations (sound, refused, nameless, and one whose
  metadata has two spellings of a key, so that the outcome depends on the order
  of a Go map) and three payloads, one of which does not parse. The texts are
  few but of every kind: in normal form, not in normal form, and blank.
* `policy_decisions` has definitions that use every operator of a condition,
  patterns of both kinds and rules of both effects, and requests with known,
  missing and mistyped attributes; four instants in two days, one call.
* `vault_rotation` has intervals of one and of three instants, the second beyond
  the longest ttl, and the ttl by default: every instant up to the present may
  be stamped, which multiplies the states, so no ttl is asked for but 0, which
  stands for the interval.
* `vault_sweep` has one request, so that a sweep meets two policies due; what
  overlapping requests do is the question of `vault_rotation`. It has two words
  that are both names and values, spelled with capitals or space around them,
  two secrets, and a key-encryption key of two bytes with two bits.
* Symmetry sets hold identifiers, requests, and targets, names or definitions
  that the modules only compare for equality; the run with liveness uses none.

**Fairness.** Only one run assumes any, `vault_sweep`: a goroutine that is serving
a request goes on (`WF` of `Proceed(h)` per request in `Vault`). Go's scheduler is preemptive and the mutex is not
held across steps, so a runnable goroutine is not starved. Nothing is assumed of
the clock, of callers, or of the success of a step: a rotation may fail each
time.

## 5. The proofs

`tlapm <module>` checks them. They hold for every set of identifiers, users,
targets and names, and for every value of the bounds and lifetimes allowed by
the `ASSUME`s of the modules (times are natural numbers, the null value is not
an identifier, and, where something is counted, `Requests` is finite). Every
property of every passing run is proved, except the one that is liveness.

Four of the theorems are refinements: `ImplementsTheLedger`,
`ImplementsTheBroker`, `ImplementsTheBook` and `ImplementsTheLog` say that every
behaviour of a service with its locks, its requests half done and its copies is,
seen through the mapping, a behaviour of the abstract specification, in which
each operation is one step. Each is proved the same way: the initial states map
to initial states, and under the inductive invariant each action maps to one
abstract action or to a stutter, one lemma per action that needs an argument
(`OpenStep`, `RecordStep`, `RestoresEntry`...), collected in `BrokerStep`,
`BookStep`, `LogStep` and `LedgerStep`. What the refinement implies is not checked
by a run besides: `DecisionsAreFinal`, `RevocationsAreFinal` and
`HistoryImmutable` are theorems only.

* **`AuthSessionsProofs`**. The inductive invariant is `TypeOK` and
  `TokensMatchSessions` and `HashesAgree` (a session's hash is the token it was
  born with, and births have different tokens) and `PresentedOnce` (a token that
  a request is rotating, or that was answered, is no longer stored, and no two
  requests rotate the same one) and `RefreshSingleUse`. None of the three
  properties is inductive alone: a rotation looks up the birth of the session
  its token names, which exists because the maps agree, and single use needs to
  know that a second presentation finds nothing. The effects of the actions are
  stated first (`RotateEffect`, `RevokeEffect`...), and `StepCases` reduces the
  next-state relation to five kinds of steps. Theorems: `TypeCorrect`,
  `MapsAgree`, `SingleUse`, `RevokedTokensAreDead` and `ImplementsTheLedger`,
  the refinement: `granted` is the tokens ever minted, `usable` the keys of the
  token map, `redeemed` what requests in `issueSession` are rotating, `answered`
  what sessions were born from. `FewTokensEscape` and `ChallengesYieldFew`
  (`EscapeBounded`, `ChallengeUsesBounded`) count: for each user and each
  challenge, the tokens or sessions obtained and the requests that can still
  obtain one are together at most as many as the requests (`Bounded`). A step
  moves at most one request to the other side (`WithinFewer`, `WithinAnswer`,
  `WithinTake`); a revoke-all, or
  the deletion of a challenge, can only start the count anew, because the things
  counted belong to that sweep or that challenge alone. The counting lemmas hold
  for any limit (`Within`), which gives `EscapesDieOut`: taking as limit what
  has escaped so far, no step but the user's next revoke-all can exceed it
  (`EscapesStayWithin`), and that one takes every token there is
  (`SweepEffect`). So a revoke-all that meets no rotation half done is final,
  which is what can be said for the code where `RevokeAllIsFinal` fails.
* **`GatewayAccessProofs`**. `GrantsCoverSessions` is inductive with the types,
  by way of `DecidedKept`: a decided grant keeps its record, so what was
  validated in one critical section still holds in the next. The bound on late
  sessions rests on `OpenedInThePast`: before the deadline no session is late
  and the requests that may become late are at most all of them; after it,
  `Usable` admits no new request and `CreateSession` turns one request into one
  session. Theorems: `TypeCorrect`, `SessionsCovered`, `LateSessionsAreFew`,
  `DecisionsFinal` and the refinement `ImplementsTheBroker`. InitiateSession is
  linearised at the storing of the session, not at the check: by
  `GrantsCoverSessions` the grant that was checked is approved still, for the
  same scope. The broker approves no grant past its deadline, which
  ApproveJITGrant tests under the lock. It does open sessions past it, because
  the code does: the grant may have expired since it was checked, which is what
  `LateSessionsBounded` limits.
* **`VaultRotationProofs`**. The invariant adds `CopiesAgree`: the copy that a
  rotation holds differs from its policy at most in the instant of the next
  rotation, because nothing else ever changes in a policy (`TermsKept`). So
  writing it back moves no policy onto another's scope. `RotationsBalance`
  counts: issuing adds one lease and one unrecorded request, recording removes
  the request and adds one stamp. Theorems: `TypeCorrect`, `ScopesAreUnique`,
  `AlwaysIssuable`, `RotationsBalance`, `RevokedForGood`, `DueDatesOrdered` and
  the refinement `ImplementsTheBook`: by `CopiesAgree` and `RotationsIssuable` a lease issued for
  the copy is one for the policy's own terms of that moment, and a copy written
  back is an update of the due date in place; a request between the two owes one
  record (`OwedRecords`). The book lets due dates go back and lets a policy be
  rotated twice in a row, as the code does. How far they go back is
  `DueDatesOrdered`: no due date is more than an interval ahead of the clock, and
  the date in a copy no more than an interval ahead of the instant the rotation
  has reached (`DatesInOrder`), so the instant it records, an interval later, is
  never before the date it copied (`RecordMovesOn`). `SecretsStayApart` carries
  all this to the whole service. `SecretsSurvive` needs that names are stored
  trimmed and that the history knows each of them (`SecretsTyped`), and the
  lemma `UnwrapsWhatItWraps`: for every key-encryption key, unwrapping undoes
  wrapping.
* **`PolicyLifecycleProofs`**. The invariant adds `PublishedExists` (a published
  version is at most the current one), without which an edit could reach a
  number that is already published. Each action is reduced to creating,
  appending or keeping. Theorems: `TypeCorrect`, `NoGaps`, `StatusIsRight`,
  `VersionsAreImmutable` and the refinement `ImplementsTheLog`: by
  `HistoryComplete` the domain of a history is an initial segment, so it is a
  sequence and storing the next version appends to it (`PutAppends`), and with
  `PublishedIsCurrent` the record of a policy, which every method of the service
  updates by hand, is the view of the log and its live entry (`RecordsAreView`).

* **`PolicyDecisionsProofs`**. The invariant relates the local variables of a
  call to a declarative reading of the rules it has passed (`LoopOK`: what
  matched is `Seen`, the flags are the effects of that set, the obligations their
  union) and the copy to the history (`CopyOK`: its definition is the one stored
  under its version, which by `HistoryImmutable` never changes). At the end of
  the loop `Seen` is everything that matches, so the answer is the verdict of
  that version. What `Earned` says of types, that no condition but neq and nin
  holds of a value of a type it does not speak of, is the lemma `HoldsOfItsType`.
  Theorems: `LoopWithinCopy`, `Explained`, `Earned`, `OneInstant`.
  Three more say what the answers depend on. `Deterministic`: two calls with the
  same request and the same version, each at a time of the request's own or
  in the same context, are answered alike, whatever is edited, published or
  rolled back between them. `RulesDecideAsASet`: the verdict and the obligations
  depend on which rules there are, not on their order or repetition, and a
  rule added to a version lifts no denial by another. `EvaluationStaysApart`:
  the composition implements `PolicyLifecycle`, so its theorems hold while calls
  are being answered.
* **`AssetOwnershipProofs`**. First the operators: normalising twice is
  normalising once, and what `Registrations` returns is complete however it is
  read again. The invariant has `ImportSound` (a name an import takes for known
  is in the inventory, which only grows) for `SoundRowsAreStored`, `TagsNormal`
  for the listing, and `TrailsOK` with `TransfersOfAssets` for the two properties
  of the trail, which need each other: a review appends the event that decides
  both. Theorems: `TypeCorrect`, `UniqueNames`, `SoundRows`, `Prechecks`,
  `Listing`, `TrailsName`, `OneReview`.
* **`GroupRolesProofs`**. `Granting` is `TypeOK`, that a role being mapped was
  created (`RolesToMapKnown`), `Grants` (whatever a mapping or a request under
  way can still apply was granted to its group, and its identifiers were used
  already, so no role made later answers to them) and `HeldRolesWereGranted`.
  Given that, `MappingReflected` is inductive: a request that is still going to
  see to a role excuses a disagreement, and when it moves on it either still
  excuses it or has just applied it, or another request does (`PendingStays`).
  No bound is put on the number of requests. Theorems: `TypeCorrect`,
  `SeedKeepsSuperAdmin`, `DeletedFrozen`, `AddressesShared`, `HeldWereGranted`,
  `MembersHoldMapped`.

**Only model-checked**: `RequestsEnd`, which is liveness under fairness and out of
the prover's reach.

## 6. Where code and documents disagree

Found by runs that TLC finds violated (`findings` in `PROJECT.json`):

* `auth_revokeall`: a rotation that has given back the lock when all sessions
  are revoked stores a valid successor token afterwards
  (`auth_service.go:259`). `EscapeBounded` says how much can escape, one token
  per request in that window, and `EscapesNeverGrow` that it stays so.
* `group_mapping`: mapping a role to a second group takes it away from the
  members of the first (`user_service.go:134`).
* `policy_drafts`: EvaluatePolicy uses the unpublished definition of an edited
  policy (`policy_service.go:243`); `published` is read by nothing.

Seen while modelling, and present in the models, with no run of their own:

* InitiateSession does not look at the grant again when it stores the session:
  a session may become active under a grant that has just expired
  (`gateway_service.go:48`); at most as many as there are requests in that
  window (`LateSessionsBounded`). No session ends when its grant expires.
* A sweep rotates a policy that somebody else has rotated since the sweep
  collected it (`vault_service.go:313`): nothing looks at the due date again, so
  no property forbids rotating twice. Of two overlapping rotations the one that
  read the clock first may write last, so NextRotationAt may go back;
  `DueDatesKeepOrder` says that it never goes back beyond the date the rotation
  started from.
  RunDueRotations has no caller. A rotation under way leases for a target whose
  leases have just been revoked in bulk.
* Unassigning a role from a group leaves it with the members
  (`group_mapping_service.go:72`): UnassignRole tells nobody.
* RestoreUser does not look at the e-mail address: it may restore a user whose
  address was given away (`user_service.go:228`), although
  `Boni_PAM_Blueprint.md:365` has users.email UNIQUE.
  `AddressesSharedByRestoring` says that nothing else does this.
* In EvaluatePolicy a condition on an attribute the request lacks does not hold,
  whatever its operator (`policy_service.go:399`): a *deny* rule with such a
  condition is passed over as well.
* `between` on the time of day compares texts, so a window across midnight
  contains nothing. Only the field device_trust is lower-cased, not an attribute
  of that name.
* Of two spellings of one metadata key the one that the iteration over the map
  meets last is kept (`asset_service.go:427`): whether such a request is refused
  depends on that order. `PrecheckPasses` shows that what was accepted is valid.
* UpdateAssetTagging changes the owner without an audit event
  (`asset_service.go:149`); `TrailNamesOwner` therefore excepts the assets tagged
  since their last event, and nothing checked here would find this wrong.
  `Boni_PAM_Blueprint.md:686` asks for audit events of assignments and transfers
  and does not speak of tags. Besides, the event of an approved transfer names the
  owner at the time of the request as the previous one (`asset_service.go:325`).
* The grant operations of GatewayService have no route.
* The handler of `/auth/logout` revokes nothing. Login does not look at the
  status of a user, for which `Boni_PAM_Blueprint.md:160` asks ("Account state
  controls (active, locked, disabled)"), and RestoreUser makes every user active.
  Status is not modelled.
* Deleting a user ends no session: RefreshToken does not ask UserService, so the
  refresh tokens of a deleted user keep rotating.
* `cmd/api-gateway/main.go:43` passes an argument to NewGatewayService, which
  takes none.
* `gateway_handler.go:38` compares 19 characters of the error with a string of
  20, so UNSUPPORTED_PROTOCOL is never answered.

## 7. Not modelled

* RemoteKMSProvider: a stub whose operations all fail and that nothing
  constructs. The strength of the encryption: AES-GCM is taken to open what it
  sealed under the same key and nonce only.
* PermissionService: a catalogue that nothing else reads; each operation is one
  critical section on one map.
* The status of users: nothing in the services depends on it.
* HTTP binding, status codes, logging, configuration, tracing, process start
  and shutdown: no state. The contents of tokens, passwords, codes, profiles
  and metadata: nothing the properties tell apart.
* The frontend, container files and scripts.
* Crashes: all state is in memory, so a restart is the initial state.

## 8. Plan

Done: the modules of section 3, with every safety property proved, and the
services of sign-in, access, rotation and policies shown to implement an
abstract specification. What could follow:

1. Abstract specifications of ownership (an asset's owner as the last entry of
   its trail, a transfer as one decision) and of role mapping, where a
   member's role is the outcome of overlapping requests.
2. Identity and sign-in composed: deleted users and the refresh tokens they
   still hold; Login looks a user up by address, which two users may share after
   a restore. The repository says nothing yet of what should hold.
3. The permission catalogue, once something reads it.
4. The gateway process and its protocol proxies, once it builds and has them.

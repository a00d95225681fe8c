-------------------------- MODULE AssetRegistration --------------------------
(***************************************************************************)
(* What AssetService (internal/service/asset_service.go) accepts into the  *)
(* inventory, in which form it keeps it, and how it is found again.        *)
(*                                                                         *)
(* A request and an asset are records of the same shape: the request as it *)
(* was spelled, the asset as it was normalised.  Names and owners stand    *)
(* for all spellings that TrimSpace, ToLower and EqualFold identify.       *)
(***************************************************************************)
EXTENDS Integers, Sequences, Functions

CONSTANTS Spelled,   \* the normal form of each text that is not in normal form
          NoName,    \* a blank name
          NoOwner    \* the empty Owner

ASSUME SpelledAssumption == /\ \A s \in DOMAIN Spelled : Spelled[s] \notin DOMAIN Spelled
                           /\ "" \notin DOMAIN Spelled

\* strings.ToLower(strings.TrimSpace(s)); a value that is no text is kept.
Normal(s) == IF s \in DOMAIN Spelled THEN Spelled[s] ELSE s

-----------------------------------------------------------------------------
(* Connections *)

Types == {"ssh", "database"}
RequiredKeys == [ssh |-> {"username", "auth_method"},
                 database |-> {"engine", "database", "username"}]
ChoiceKey == [ssh |-> "auth_method", database |-> "engine"]
Choices == [ssh |-> {"password", "key"}, database |-> {"postgres", "mysql", "mssql"}]

\* Keys that are spelled differently may collide, and then the one the loop
\* over the map meets last wins.
Readings(metadata) ==
  {reading \in [{Normal(k) : k \in DOMAIN metadata} -> Range(metadata)] :
     \A key \in DOMAIN reading :
       \E k \in DOMAIN metadata : Normal(k) = key /\ metadata[k] = reading[key]}

\* validateConnectionMetadata
Complete(type, reading) ==
  /\ type \in Types
  /\ RequiredKeys[type] \subseteq DOMAIN reading
  /\ Normal(reading[ChoiceKey[type]]) \in Choices[type]

\* Mutant of Kept: the metadata is checked, and kept as it was spelled.
Kept_AsSpelled(type, metadata, reading) == metadata

Kept(type, metadata, reading) == [reading EXCEPT ![ChoiceKey[type]] = Normal(@)]

DefaultPort == [ssh |-> 22, database |-> 5432]

PortOf(connection) ==
  IF connection.port = 0 /\ Normal(connection.type) \in Types
  THEN DefaultPort[Normal(connection.type)] ELSE connection.port

\* The forms a connection may be kept in, one for each complete reading.
Connections(connection) ==
  LET type == Normal(connection.type)
  IN  {[type |-> type, host |-> connection.host, port |-> PortOf(connection),
        metadata |-> Kept(type, connection.metadata, reading)] :
         reading \in {r \in Readings(connection.metadata) : Complete(type, r)}}

\* TestConnection validates what is kept once more.
PrecheckMayFail(connection) ==
  \E reading \in Readings(connection.metadata) : ~Complete(connection.type, reading)

-----------------------------------------------------------------------------
(* Tags *)

Environments == {"", "dev", "staging", "prod"}
Criticalities == {"", "low", "medium", "high", "critical"}

\* Mutant of NormalizeAssetTagging: the tags are kept as they are spelled.
NormalizeAssetTagging_Verbatim(tags) == tags

NormalizeAssetTagging(tags) == [environment |-> Normal(tags.environment),
                                criticality |-> Normal(tags.criticality),
                                groups |-> {Normal(g) : g \in tags.groups} \ {""}]

ValidTags(tags) == /\ Normal(tags.environment) \in Environments
                   /\ Normal(tags.criticality) \in Criticalities

\* ListAssets; the empty filter value asks for nothing.
Listed(asset, filter) ==
  /\ Normal(filter.environment) \in {"", asset.tags.environment}
  /\ filter.owner \in {NoOwner, asset.owner}
  /\ Normal(filter.criticality) \in {"", asset.tags.criticality}
  /\ Normal(filter.group) \in {""} \cup asset.tags.groups

-----------------------------------------------------------------------------
(* Requests *)

\* What CreateAsset checks before it reads the metadata.
ValidEndpoint(connection) == /\ connection.host # ""
                             /\ 1 <= PortOf(connection) /\ PortOf(connection) <= 65535

Presentable(request) == /\ request.name # NoName
                        /\ ValidEndpoint(request.connection)
                        /\ ValidTags(request.tags)

\* The assets CreateAsset may make of a request.
Registrations(request) ==
  IF Presentable(request)
  THEN {[name |-> request.name, owner |-> request.owner, connection |-> connection,
         tags |-> NormalizeAssetTagging(request.tags)] :
          connection \in Connections(request.connection)}
  ELSE {}

MayBeRefused(request) ==
  \/ ~Presentable(request)
  \/ \E reading \in Readings(request.connection.metadata) :
       ~Complete(Normal(request.connection.type), reading)

-----------------------------------------------------------------------------
(* Import payloads *)

CONSTANTS NotANumber,   \* a port cell that does not parse
          Garbled,      \* a connection_metadata cell that does not parse
          NoCell        \* an empty cell

\* A line without JSON takes the metadata from columns of their own.
CsvRow(line) ==
  [name |-> line.name, owner |-> line.owner, tags |-> line.tags,
   connection |-> [type |-> line.type, host |-> line.host, port |-> line.port,
                   metadata |-> IF line.json = NoCell
                                THEN Restrict(line.cells, {c \in DOMAIN line.cells : line.cells[c] # NoCell})
                                ELSE line.json]]

\* One line that does not parse fails the payload.
Parses(payload) ==
  payload.assets = <<>> =>
    /\ {"name", "type", "host"} \subseteq payload.header
    /\ \A i \in DOMAIN payload.csv : payload.csv[i].port # NotANumber /\ payload.csv[i].json # Garbled

ToImportRows(payload) ==
  IF payload.assets # <<>> THEN payload.assets
  ELSE [i \in DOMAIN payload.csv |-> CsvRow(payload.csv[i])]
=============================================================================

\* Two assets that compete for one name; two transfers among direct assignments and tagging,
\* and two imports with stale snapshots whose rows are refused, repeated or ambiguous.
\* Once every identifier is used up an idle service may have no next step.
CHECK_DEADLOCK FALSE
SPECIFICATION Spec
CONSTANTS
  web = web
  ann = ann
  bob = bob
  Assets = {a1, a2}
  Transfers = {t1, t2}
  Names = {web}
  NoName = NoName
  Owners = {ann, bob}
  NoOwner = NoOwner
  Groups = {"db"}
  NoTransfer = NoTransfer
  Imports = {m1, m2}
  Spelled <- SpelledForms
  NotANumber = NotANumber
  Garbled = Garbled
  NoCell = NoCell
  Requests <- AllRequests
  Taggings <- AllTaggings
  Payloads <- AllPayloads
  MaxEvents = 2
SYMMETRY Symmetric
INVARIANTS TypeOK NamesUnique SoundRowsAreStored PrecheckPasses ListedUnderItsTags TrailNamesOwner TransfersReviewedOnce

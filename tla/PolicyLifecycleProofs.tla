------------------------ MODULE PolicyLifecycleProofs ------------------------
(***************************************************************************)
(* Safety of PolicyLifecycle for every set of policies, names and          *)
(* definitions, and any number of versions.                                *)
(***************************************************************************)
EXTENDS PolicyLifecycle, StoreTheorems, SequenceTheorems

\* What was published was a version of the policy: without it an edit could
\* reach a number that is published already.
PublishedExists == \A p \in DOMAIN published : published[p] <= policies[p].version

IInv == TypeOK /\ HistoryComplete /\ PublishedExists /\ PublishedIsCurrent

LEMMA InitInv == Init => IInv
BY EmptyIsStore DEF Init, IInv, TypeOK, HistoryComplete, PublishedExists,
                    PublishedIsCurrent, EmptyStore

-----------------------------------------------------------------------------
(* The steps, by what they do to one policy *)

\* p now has this record and these versions, other policies are untouched.
Becomes(p, record, history) ==
  /\ DOMAIN policies' = DOMAIN policies \cup {p}
  /\ DOMAIN versions' = DOMAIN versions \cup {p}
  /\ policies'[p] = record
  /\ versions'[p] = history
  /\ \A q \in DOMAIN policies \ {p} : policies'[q] = policies[q]
  /\ \A q \in DOMAIN versions \ {p} : versions'[q] = versions[q]
  /\ policies' = [q \in DOMAIN policies' |-> policies'[q]]

\* published[p] is v from now on, and nothing else changes.
Publishes(p, v) == /\ DOMAIN published' = DOMAIN published \cup {p}
                   /\ published'[p] = v
                   /\ \A q \in DOMAIN published \ {p} : published'[q] = published[q]
                   /\ published' = [q \in DOMAIN published' |-> published'[q]]

Creates(p, name, definition) ==
  /\ p \notin DOMAIN policies
  /\ Becomes(p, [name |-> name, version |-> 1, definition |-> definition,
                 status |-> "draft"], [v \in {1} |-> definition])
  /\ UNCHANGED published

\* A version is appended, as a draft or published.
Appends(p, name, definition, status) ==
  LET n == policies[p].version + 1
  IN  /\ p \in DOMAIN policies
      /\ Becomes(p, [name |-> name, version |-> n, definition |-> definition,
                     status |-> status], Put(versions[p], n, definition))
      /\ \/ status = "draft" /\ UNCHANGED published
         \/ status = "published" /\ Publishes(p, n)

\* The versions stay: a new name, or a new status.
Keeps(p, record) ==
  /\ p \in DOMAIN policies
  /\ Becomes(p, record, versions[p])
  /\ record.version = policies[p].version
  /\ record.definition = policies[p].definition
  /\ \/ record.status = policies[p].status /\ UNCHANGED published
     \/ record.status = "published" /\ Publishes(p, policies[p].version)

LEMMA CreateEffect ==
  ASSUME TypeOK, NEW p \in Policies, NEW name \in Names, NEW definition \in Definitions,
         CreatePolicy(p, name, definition)
  PROVE  Creates(p, name, definition)
BY DEF CreatePolicy, Creates, Becomes, Put, TypeOK

LEMMA UpdateEffect ==
  ASSUME TypeOK, NEW p \in Policies, NEW name \in Names, NEW definition \in Definitions,
         UpdatePolicy(p, name, definition)
  PROVE  Appends(p, name, definition, "draft")
BY DEF UpdatePolicy, UpdatedStatus, NewVersion, Appends, Becomes, TypeOK, IsStore

LEMMA RollbackEffect ==
  ASSUME TypeOK, NEW p \in Policies, NEW target \in 0..MaxVersion,
         RollbackPolicy(p, target)
  PROVE  \E v \in DOMAIN versions[p] :
           Appends(p, policies[p].name, versions[p][v], "published")
<1> DEFINE v == IF target <= 0 THEN PreviousVersion(p) ELSE target
           n == policies[p].version + 1
<1>1. /\ p \in DOMAIN policies
      /\ v \in DOMAIN versions[p]
      /\ NewVersion(p, policies[p].name, n, versions[p][v], "published")
      /\ published' = Put(published, p, n)
  BY DEF RollbackPolicy, RolledBackVersion
<1> HIDE DEF v
<1>2. Becomes(p, [name |-> policies[p].name, version |-> n,
                  definition |-> versions[p][v], status |-> "published"],
              Put(versions[p], n, versions[p][v]))
  BY <1>1 DEF NewVersion, Becomes, TypeOK, IsStore
<1>3. Publishes(p, n)
  BY <1>1 DEF Publishes, Put
<1> QED  BY <1>1, <1>2, <1>3 DEF Appends

LEMMA RenameEffect ==
  ASSUME TypeOK, NEW p \in Policies, NEW name \in Names, RenamePolicy(p, name)
  PROVE  Keeps(p, [policies[p] EXCEPT !.name = name])
BY DEF RenamePolicy, Keeps, Becomes, TypeOK, IsStore, PolicyRecord

LEMMA PublishEffect ==
  ASSUME TypeOK, NEW p \in Policies, PublishPolicy(p)
  PROVE  Keeps(p, [policies[p] EXCEPT !.status = "published"])
<1>1. /\ p \in DOMAIN policies
      /\ Becomes(p, [policies[p] EXCEPT !.status = "published"], versions[p])
  BY DEF PublishPolicy, Becomes, TypeOK, IsStore, PolicyRecord
<1>2. Publishes(p, policies[p].version)
  BY DEF PublishPolicy, Publishes, Put
<1>3. policies[p] \in PolicyRecord
  BY <1>1 DEF TypeOK, IsStore
<1> QED  BY <1>1, <1>2, <1>3 DEF Keeps, PolicyRecord

\* Every step is one of these.
LEMMA StepCases ==
  ASSUME TypeOK, [Next]_vars
  PROVE  \/ UNCHANGED vars
         \/ \E p \in Policies :
              \/ \E name \in Names, definition \in Definitions : Creates(p, name, definition)
              \/ \E name \in Names, definition \in Definitions, status \in {"draft", "published"} :
                   Appends(p, name, definition, status)
              \/ \E record \in PolicyRecord : Keeps(p, record)
<1>1. CASE UNCHANGED vars
  BY <1>1
<1>2. ASSUME NEW p \in Policies, NEW name \in Names, RenamePolicy(p, name)
      PROVE  \E record \in PolicyRecord : Keeps(p, record)
  <2>1. [policies[p] EXCEPT !.name = name] \in PolicyRecord
    BY <1>2 DEF RenamePolicy, TypeOK, IsStore, PolicyRecord
  <2> QED  BY <1>2, <2>1, RenameEffect
<1>3. ASSUME NEW p \in Policies, NEW name \in Names, NEW definition \in Definitions,
             CreatePolicy(p, name, definition)
      PROVE  Creates(p, name, definition)
  BY <1>3, CreateEffect
<1>4. ASSUME NEW p \in Policies, NEW name \in Names, NEW definition \in Definitions,
             UpdatePolicy(p, name, definition)
      PROVE  Appends(p, name, definition, "draft")
  BY <1>4, UpdateEffect
<1>5. ASSUME NEW p \in Policies, PublishPolicy(p)
      PROVE  \E record \in PolicyRecord : Keeps(p, record)
  <2>1. [policies[p] EXCEPT !.status = "published"] \in PolicyRecord
    BY <1>5 DEF PublishPolicy, TypeOK, IsStore, PolicyRecord
  <2> QED  BY <1>5, <2>1, PublishEffect
<1>6. ASSUME NEW p \in Policies, NEW target \in 0..MaxVersion, RollbackPolicy(p, target)
      PROVE  \E name \in Names, definition \in Definitions :
               Appends(p, name, definition, "published")
  <2>1. PICK v \in DOMAIN versions[p] :
               Appends(p, policies[p].name, versions[p][v], "published")
    BY <1>6, RollbackEffect
  <2>2. policies[p].name \in Names /\ versions[p][v] \in Definitions
    BY <2>1 DEF Appends, TypeOK, IsStore, PolicyRecord
  <2> QED  BY <2>1, <2>2
<1> QED
  BY <1>1, <1>2, <1>3, <1>4, <1>5, <1>6 DEF Next
-----------------------------------------------------------------------------
(* What each step preserves *)

\* The versions that exist are kept.
VersionsKept == \A p \in DOMAIN versions : \A v \in DOMAIN versions[p] :
                  versions'[p][v] = versions[p][v]

LEMMA CreatePreserves ==
  ASSUME IInv, NEW p \in Policies, NEW name \in Names, NEW definition \in Definitions,
         Creates(p, name, definition)
  PROVE  IInv' /\ VersionsKept
<1>0. /\ TypeOK /\ HistoryComplete /\ PublishedExists /\ PublishedIsCurrent
      /\ DOMAIN versions = DOMAIN policies /\ DOMAIN published \subseteq DOMAIN policies
  BY DEF IInv, TypeOK, IsStore
<1>1. /\ p \notin DOMAIN policies
      /\ DOMAIN policies' = DOMAIN policies \cup {p}
      /\ DOMAIN versions' = DOMAIN versions \cup {p}
      /\ policies'[p] = [name |-> name, version |-> 1, definition |-> definition,
                         status |-> "draft"]
      /\ versions'[p] = [v \in {1} |-> definition]
      /\ \A q \in DOMAIN policies : policies'[q] = policies[q] /\ versions'[q] = versions[q]
      /\ policies' = [q \in DOMAIN policies' |-> policies'[q]]
      /\ published' = published
  BY <1>0 DEF Creates, Becomes
<1>2. TypeOK'
  <2>1. policies'[p] \in PolicyRecord
    BY <1>1 DEF PolicyRecord
  <2>2. IsStore(policies', Policies, PolicyRecord)
    BY <1>0, <1>1, <2>1 DEF TypeOK, IsStore
  <2>3. \A q \in DOMAIN policies' : IsStore(versions'[q], Nat \ {0}, Definitions)
    BY <1>0, <1>1 DEF TypeOK, IsStore
  <2>4. IsStore(published', DOMAIN policies', Nat \ {0})
    BY <1>0, <1>1 DEF TypeOK, IsStore
  <2> QED  BY <1>0, <1>1, <2>2, <2>3, <2>4 DEF TypeOK
<1>3. HistoryComplete'
  <2>1. policies'[p].version = 1 /\ policies'[p].definition = definition
    BY <1>1
  <2>2. DOMAIN versions'[p] = {1} /\ versions'[p][1] = definition
    BY <1>1
  <2>3. {1} = 1..1
    OBVIOUS
  <2> QED  BY <1>0, <1>1, <2>1, <2>2, <2>3 DEF HistoryComplete
<1>4. PublishedExists' /\ PublishedIsCurrent'
  BY <1>0, <1>1 DEF PublishedExists, PublishedIsCurrent
<1>5. VersionsKept
  BY <1>0, <1>1 DEF VersionsKept
<1> QED  BY <1>2, <1>3, <1>4, <1>5 DEF IInv

LEMMA AppendPreserves ==
  ASSUME IInv, NEW p \in Policies, NEW name \in Names, NEW definition \in Definitions,
         NEW status \in {"draft", "published"}, Appends(p, name, definition, status)
  PROVE  IInv' /\ VersionsKept
<1> DEFINE n == policies[p].version + 1
<1>0. /\ TypeOK /\ HistoryComplete /\ PublishedExists /\ PublishedIsCurrent
      /\ DOMAIN versions = DOMAIN policies /\ DOMAIN published \subseteq DOMAIN policies
      /\ p \in DOMAIN policies
  BY DEF IInv, TypeOK, IsStore, Appends
<1>1. /\ policies[p].version \in Nat \ {0}
      /\ n \in Nat \ {0}
      /\ DOMAIN versions[p] = 1..policies[p].version
  BY <1>0 DEF TypeOK, IsStore, PolicyRecord, HistoryComplete
<1>2. /\ DOMAIN policies' = DOMAIN policies
      /\ DOMAIN versions' = DOMAIN policies
      /\ policies'[p] = [name |-> name, version |-> n, definition |-> definition,
                         status |-> status]
      /\ versions'[p] = Put(versions[p], n, definition)
      /\ \A q \in DOMAIN policies \ {p} : policies'[q] = policies[q] /\ versions'[q] = versions[q]
      /\ policies' = [q \in DOMAIN policies |-> policies'[q]]
      /\ \/ status = "draft" /\ published' = published
         \/ status = "published" /\ Publishes(p, n)
  BY <1>0 DEF Appends, Becomes
<1> HIDE DEF n
<1>3. /\ DOMAIN versions'[p] = DOMAIN versions[p] \cup {n}
      /\ versions'[p][n] = definition
      /\ \A v \in DOMAIN versions[p] : v # n => versions'[p][v] = versions[p][v]
  BY <1>2 DEF Put
<1>4. n \notin DOMAIN versions[p] /\ DOMAIN versions'[p] = 1..n
  BY <1>1, <1>3 DEF n
<1>5. TypeOK'
  <2>1. policies'[p] \in PolicyRecord
    BY <1>1, <1>2 DEF PolicyRecord
  <2>2. IsStore(policies', Policies, PolicyRecord)
    BY <1>0, <1>2, <2>1 DEF TypeOK, IsStore
  <2>3. IsStore(versions'[p], Nat \ {0}, Definitions)
    BY <1>0, <1>1, <1>2, PutStore DEF TypeOK
  <2>4. \A q \in DOMAIN policies' : IsStore(versions'[q], Nat \ {0}, Definitions)
    BY <1>0, <1>2, <2>3 DEF TypeOK
  <2>5. IsStore(published', DOMAIN policies', Nat \ {0})
    BY <1>0, <1>1, <1>2 DEF TypeOK, IsStore, Publishes
  <2> QED  BY <1>0, <1>2, <2>2, <2>4, <2>5 DEF TypeOK
<1>6. HistoryComplete'
  BY <1>0, <1>2, <1>3, <1>4 DEF HistoryComplete
<1>7. PublishedExists' /\ PublishedIsCurrent'
  <2>1. \A q \in DOMAIN published' :
          IF q = p /\ status = "published" THEN published'[q] = n
          ELSE q \in DOMAIN published /\ published'[q] = published[q]
    BY <1>2 DEF Publishes
  <2>2. \A q \in DOMAIN published \ {p} : q \in DOMAIN published' /\ published'[q] = published[q]
    BY <1>2 DEF Publishes
  <2>3. status = "published" => p \in DOMAIN published'
    BY <1>2 DEF Publishes
  <2>4. policies'[p].version = n /\ policies'[p].status = status
    BY <1>2
  <2>5. p \in DOMAIN published => published[p] \in Nat /\ published[p] < n
    BY <1>0, <1>1 DEF PublishedExists, TypeOK, IsStore, n
  <2>6. PublishedExists'
    BY <1>0, <1>1, <1>2, <2>1, <2>4, <2>5 DEF PublishedExists
  <2>7. policies'[p].status = "published" <=> p \in DOMAIN published' /\ published'[p] = n
    BY <1>1, <2>1, <2>3, <2>4, <2>5
  <2>8. PublishedIsCurrent'
    BY <1>0, <1>2, <2>1, <2>2, <2>4, <2>7 DEF PublishedIsCurrent
  <2> QED  BY <2>6, <2>8
<1>8. VersionsKept
  BY <1>0, <1>2, <1>3, <1>4 DEF VersionsKept
<1> QED  BY <1>5, <1>6, <1>7, <1>8 DEF IInv

LEMMA KeepPreserves ==
  ASSUME IInv, NEW p \in Policies, NEW record \in PolicyRecord, Keeps(p, record)
  PROVE  IInv' /\ VersionsKept
<1>0. /\ TypeOK /\ HistoryComplete /\ PublishedExists /\ PublishedIsCurrent
      /\ DOMAIN versions = DOMAIN policies /\ DOMAIN published \subseteq DOMAIN policies
      /\ p \in DOMAIN policies
  BY DEF IInv, TypeOK, IsStore, Keeps
<1>1. /\ DOMAIN policies' = DOMAIN policies
      /\ DOMAIN versions' = DOMAIN policies
      /\ policies'[p] = record
      /\ \A q \in DOMAIN policies : versions'[q] = versions[q]
      /\ \A q \in DOMAIN policies \ {p} : policies'[q] = policies[q]
      /\ policies' = [q \in DOMAIN policies |-> policies'[q]]
      /\ record.version = policies[p].version
      /\ record.definition = policies[p].definition
      /\ \/ record.status = policies[p].status /\ published' = published
         \/ record.status = "published" /\ Publishes(p, policies[p].version)
  BY <1>0 DEF Keeps, Becomes
<1>2. policies[p].version \in Nat \ {0}
  BY <1>0 DEF TypeOK, IsStore, PolicyRecord
<1>3. TypeOK'
  <2>1. IsStore(policies', Policies, PolicyRecord)
    BY <1>0, <1>1 DEF TypeOK, IsStore
  <2>2. \A q \in DOMAIN policies' : IsStore(versions'[q], Nat \ {0}, Definitions)
    BY <1>0, <1>1 DEF TypeOK
  <2>3. IsStore(published', DOMAIN policies', Nat \ {0})
    BY <1>0, <1>1, <1>2 DEF TypeOK, IsStore, Publishes
  <2> QED  BY <1>0, <1>1, <2>1, <2>2, <2>3 DEF TypeOK
<1>4. HistoryComplete'
  BY <1>0, <1>1 DEF HistoryComplete
<1>5. PublishedExists'
  BY <1>0, <1>1, <1>2 DEF PublishedExists, Publishes
<1>6. PublishedIsCurrent'
  BY <1>0, <1>1, <1>2 DEF PublishedIsCurrent, Publishes
<1>7. VersionsKept
  BY <1>0, <1>1 DEF VersionsKept
<1> QED  BY <1>3, <1>4, <1>5, <1>6, <1>7 DEF IInv

LEMMA NextInv == IInv /\ [Next]_vars => IInv' /\ VersionsKept
<1> SUFFICES ASSUME IInv, [Next]_vars PROVE IInv' /\ VersionsKept
  OBVIOUS
<1>1. CASE UNCHANGED vars
  BY <1>1 DEF IInv, vars, TypeOK, HistoryComplete, PublishedExists, PublishedIsCurrent,
              VersionsKept
<1>2. TypeOK
  BY DEF IInv
<1> QED
  BY <1>1, <1>2, StepCases, CreatePreserves, AppendPreserves, KeepPreserves

-----------------------------------------------------------------------------
(* The life cycle implements VersionLog *)

\* The log's view of the policy records.
Records == [p \in DOMAIN policies |-> [version |-> policies[p].version,
                                       definition |-> policies[p].definition,
                                       status |-> policies[p].status]]

\* By HistoryComplete the versions of a policy are a sequence.
LEMMA HistoryIsSequence ==
  ASSUME TypeOK, HistoryComplete, NEW p \in DOMAIN policies
  PROVE  /\ versions[p] \in Seq(Definitions)
         /\ Len(versions[p]) = policies[p].version
         /\ policies[p].version \in Nat \ {0}
<1>1. /\ policies[p].version \in Nat \ {0}
      /\ versions[p] \in [1..policies[p].version -> Definitions]
  BY DEF TypeOK, HistoryComplete, IsStore, PolicyRecord
<1>2. versions[p] \in Seq(Definitions)
  BY <1>1, SeqDef
<1> QED  BY <1>1, <1>2, LenProperties

\* In every state that satisfies the invariant the records are the view of
\* the log: this is what the three maps have to keep up.
LEMMA RecordsAreView == IInv => Records = Log!View(versions, published)
<1> SUFFICES ASSUME IInv PROVE Records = Log!View(versions, published)
  OBVIOUS
<1>1. TypeOK /\ HistoryComplete /\ PublishedIsCurrent /\ DOMAIN versions = DOMAIN policies
  BY DEF IInv, TypeOK
<1>2. ASSUME NEW p \in DOMAIN policies
      PROVE  /\ policies[p].version = Len(versions[p])
             /\ policies[p].definition = versions[p][Len(versions[p])]
             /\ policies[p].status = IF p \in DOMAIN published /\ published[p] = Len(versions[p])
                                       THEN "published" ELSE "draft"
  <2>1. policies[p].version = Len(versions[p])
    BY <1>1, HistoryIsSequence
  <2>2. policies[p].definition = versions[p][Len(versions[p])]
    BY <1>1, <2>1 DEF HistoryComplete
  <2>3. policies[p].status \in {"draft", "published"}
    BY <1>1 DEF TypeOK, IsStore, PolicyRecord
  <2> QED  BY <1>1, <2>1, <2>2, <2>3 DEF PublishedIsCurrent
<1> QED  BY <1>1, <1>2 DEF Records, Log!View

\* The same of the next state, which the invariant reaches as well.
LEMMA RecordsAreViewNext == IInv' => Records' = Log!View(versions', published')
<1>1. (IInv => Records = Log!View(versions, published))'
  BY RecordsAreView, PTL
<1> QED  BY <1>1 DEF Log!View

LEMMA LogStart == Init => Log!LogInit
BY DEF Init, EmptyStore, Log!LogInit, Log!EmptyStore

\* Inserting version n + 1 appends to the sequence of n versions.
LEMMA PutAppends ==
  ASSUME NEW s \in Seq(Definitions), NEW d \in Definitions
  PROVE  Put(s, Len(s) + 1, d) = Append(s, d)
<1>1. /\ DOMAIN s = 1..Len(s)
      /\ Len(s) \in Nat
  BY LenProperties
<1>2. DOMAIN s \cup {Len(s) + 1} = 1..(Len(s) + 1)
  BY <1>1
<1>3. Put(s, Len(s) + 1, d) \in [1..(Len(s) + 1) -> Definitions]
  BY <1>1, <1>2, ElementOfSeq DEF Put
<1>4. Put(s, Len(s) + 1, d) \in Seq(Definitions)
  BY <1>1, <1>3, SeqDef
<1>5. Len(Put(s, Len(s) + 1, d)) = Len(s) + 1
  BY <1>1, <1>3, <1>4, LenProperties
<1>6. \A i \in 1..(Len(s) + 1) : Put(s, Len(s) + 1, d)[i] = Append(s, d)[i]
  BY <1>1, <1>2, AppendProperties DEF Put
<1> QED  BY <1>1, <1>4, <1>5, <1>6, AppendProperties, SeqEqual

\* The first version of a policy starts its log.
LEMMA StartsLog ==
  ASSUME TypeOK, NEW p \in Policies, NEW name, NEW definition \in Definitions,
         CreatePolicy(p, name, definition)
  PROVE  Log!Start(p, definition)
<1>1. /\ p \notin DOMAIN versions
      /\ versions' = Put(versions, p, [v \in {1} |-> definition])
      /\ published' = published
  BY DEF CreatePolicy, TypeOK
<1>2. [v \in {1} |-> definition] = <<definition>>
  OBVIOUS
<1> QED  BY <1>1, <1>2 DEF Log!Start, Log!Put, Put

\* NewVersion with the next number appends.
LEMMA ExtendsLog ==
  ASSUME TypeOK, HistoryComplete, NEW p \in DOMAIN policies, NEW d \in Definitions,
         versions' = [versions EXCEPT ![p] = Put(@, policies[p].version + 1, d)]
  PROVE  Log!Extend(p, d)
<1>1. Put(versions[p], policies[p].version + 1, d) = Append(versions[p], d)
  BY HistoryIsSequence, PutAppends
<1> QED  BY <1>1 DEF Log!Extend

LEMMA RestoresEntry ==
  ASSUME TypeOK, HistoryComplete, NEW p \in Policies, NEW target \in 0..MaxVersion,
         RollbackPolicy(p, target)
  PROVE  p \in DOMAIN versions /\ \E v \in 1..Len(versions[p]) : Log!Restore(p, v)
<1> DEFINE v == IF target <= 0 THEN PreviousVersion(p) ELSE target
           n == policies[p].version + 1
<1>1. /\ p \in DOMAIN policies
      /\ v \in DOMAIN versions[p]
      /\ versions' = [versions EXCEPT ![p] = Put(@, n, versions[p][v])]
      /\ published' = Put(published, p, n)
  BY DEF RollbackPolicy, RolledBackVersion, NewVersion
<1> HIDE DEF v
<1>2. /\ DOMAIN versions[p] = 1..Len(versions[p])
      /\ n = Len(versions[p]) + 1
      /\ versions[p][v] \in Definitions
  BY <1>1, HistoryIsSequence DEF HistoryComplete, TypeOK, IsStore
<1>3. PICK d \in Definitions : d = versions[p][v]
  BY <1>2
<1>4. Log!Extend(p, d)
  BY <1>1, <1>3, ExtendsLog
<1>5. PICK w \in 1..Len(versions[p]) : w = v
  BY <1>1, <1>2
<1>6. Log!Restore(p, w)
  BY <1>1, <1>2, <1>3, <1>4, <1>5 DEF Log!Restore, Log!Extend, Log!Put, Put
<1> QED  BY <1>1, <1>5, <1>6 DEF TypeOK

LEMMA LogStep == IInv /\ [Next]_vars => [Log!LogNext]_(Log!book)
<1> SUFFICES ASSUME IInv, [Next]_vars PROVE [Log!LogNext]_(Log!book)
  OBVIOUS
<1>0. TypeOK /\ HistoryComplete /\ DOMAIN versions = DOMAIN policies
  BY DEF IInv, TypeOK
<1>a. /\ Records = Log!View(versions, published)
      /\ Records' = Log!View(versions', published')
  BY RecordsAreView, RecordsAreViewNext, NextInv
<1>1. CASE UNCHANGED <<versions, published>>
  <2>1. Records' = Records
    BY <1>a, <1>1 DEF Log!View
  <2> QED  BY <1>1, <2>1 DEF Log!book, Records
<1>2. ASSUME NEW p \in Policies, NEW name \in Names, NEW definition \in Definitions,
             CreatePolicy(p, name, definition)
      PROVE  Log!LogNext
  BY <1>0, <1>a, <1>2, StartsLog DEF Log!LogNext, Records
<1>3. ASSUME NEW p \in Policies, NEW name \in Names, NEW definition \in Definitions,
             UpdatePolicy(p, name, definition)
      PROVE  Log!LogNext
  <2>1. p \in DOMAIN versions /\ Log!Draft(p, definition)
    BY <1>0, <1>3, ExtendsLog DEF UpdatePolicy, NewVersion, Log!Draft
  <2> QED  BY <1>a, <2>1 DEF Log!LogNext, Records
<1>4. ASSUME NEW p \in Policies, PublishPolicy(p)
      PROVE  Log!LogNext
  <2>1. p \in DOMAIN versions /\ Log!Publish(p)
    BY <1>0, <1>4, HistoryIsSequence DEF PublishPolicy, Log!Publish, Log!Put, Put
  <2> QED  BY <1>a, <2>1 DEF Log!LogNext, Records
<1>5. ASSUME NEW p \in Policies, NEW target \in 0..MaxVersion, RollbackPolicy(p, target)
      PROVE  Log!LogNext
  BY <1>0, <1>a, <1>5, RestoresEntry DEF Log!LogNext, Records
<1>6. (\E p \in Policies, name \in Names : RenamePolicy(p, name)) \/ UNCHANGED vars
        => UNCHANGED <<versions, published>>
  BY DEF RenamePolicy, vars
<1> QED  BY <1>1, <1>2, <1>3, <1>4, <1>5, <1>6 DEF Next

-----------------------------------------------------------------------------
(* The theorems *)

LEMMA Invariance == Spec => []IInv
<1>1. Init => IInv
  BY InitInv
<1>2. IInv /\ [Next]_vars => IInv'
  BY NextInv
<1> QED  BY <1>1, <1>2, PTL DEF Spec

\* The three maps stay well formed.
THEOREM TypeCorrect == Spec => []TypeOK
BY Invariance, PTL DEF IInv

\* The versions of a policy are numbered without gaps up to the current one,
\* which holds the policy's definition.
THEOREM NoGaps == Spec => []HistoryComplete
BY Invariance, PTL DEF IInv

\* The status says published exactly when the published version is current.
THEOREM StatusIsRight == Spec => []PublishedIsCurrent
BY Invariance, PTL DEF IInv

\* No edit, publication or rollback changes a version that exists.
THEOREM VersionsAreImmutable == Spec => HistoryImmutable
<1>1. IInv /\ [Next]_vars =>
        [\A p \in DOMAIN versions : \A v \in DOMAIN versions[p] :
           versions'[p][v] = versions[p][v]]_vars
  BY NextInv DEF VersionsKept
<1> QED  BY <1>1, Invariance, PTL DEF HistoryImmutable, Spec

\* The three maps of the service are an append-only log with a live entry,
\* and the record callers see is the view of it.
THEOREM ImplementsTheLog == Spec => ImplementsLog
<1>1. Init => Log!LogInit
  BY LogStart
<1>2. IInv /\ [Next]_vars => [Log!LogNext]_(Log!book)
  BY LogStep
<1> QED  BY <1>1, <1>2, Invariance, PTL DEF Spec, ImplementsLog, Log!LogSpec
=============================================================================

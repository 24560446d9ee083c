--------------------------- MODULE OrganizerProofs ---------------------------
(***************************************************************************)
(* Proofs about the import of a file of guests, for any files, columns,    *)
(* requests and picks: commits that overlap leave what some order of whole *)
(* imports leaves, and the button commits the preview above it.  And about *)
(* the recommendations, for any members, profiles and goals: who is        *)
(* recommended is listed, and who is ranked comes with reasons.  And about *)
(* the lists the backfill leaves: the editors and the API take them as     *)
(* they are.                                                               *)
(***************************************************************************)
EXTENDS MCOrganizer, FiniteSetTheorems, WellFoundedInduction, TLAPS

-----------------------------------------------------------------------------
(* Types *)

Mappings == [Fields -> Columns \cup {"none"}]
Previews == [file : Files \cup {"none"}, mapping : Mappings]
Tallies == [inserts : Nat, updates : Nat, skips : Nat]

RequestRecord ==
    [at : {"new", "open", "answering", "refused", "ended"}, by : {"client", "panel"},
     mode : {"preview", "commit"}, shown : Previews, plan : Plans \cup {EmptyPlan},
     left : SUBSET Nat, found : BOOLEAN,
     wrote : SUBSET UNION {Range(plan.records) : plan \in Plans}, counts : Tallies]
PanelRecord ==
    [file : Files \cup {"none"}, text : Files \cup {"none"}, selection : Selections,
     shown : Previews, busy : BOOLEAN, raced : BOOLEAN, changed : BOOLEAN]

ImportTyped ==
    /\ DOMAIN registrations = RowKeys
    /\ held \in [RowKeys -> Imports \cup {"nobody"}]
    /\ req \in [Imports -> RequestRecord]
    /\ panel \in PanelRecord
    /\ reading \subseteq Files \X Selections

-----------------------------------------------------------------------------
(* The commits *)

WroteKeys(r) == {Key(s) : s \in req[r].wrote}

\* What an open request has written is the part of its plan that is done; it holds the rows
\* of it, and has counted them by whether the committed row was there.
Sound(r) ==
    /\ req[r].at # "open" => req[r].wrote = {} /\ ~req[r].found
    /\ req[r].at = "open" =>
          /\ req[r].plan \in Plans
          /\ req[r].left \subseteq DOMAIN req[r].plan.records
          /\ req[r].wrote = {req[r].plan.records[i] : i \in DOMAIN req[r].plan.records \ req[r].left}
          /\ req[r].counts =
                [inserts |-> Cardinality({k \in WroteKeys(r) : registrations[k] = NoRow}),
                 updates |-> Cardinality({k \in WroteKeys(r) : registrations[k] # NoRow}),
                 skips |-> req[r].plan.skips]
    /\ \A k \in WroteKeys(r) : held[k] = r
    /\ req[r].found => /\ req[r].left # {} /\ held[NextKey(r)] = r
                       /\ registrations[NextKey(r)] # NoRow

ImportInv == ImportTyped /\ \A r \in Imports : Sound(r)

-----------------------------------------------------------------------------
(* The panel *)

Flying(r) == req[r].by = "panel" /\ req[r].at \in {"open", "answering", "refused"}

\* A preview of the text with some selection.
PreviewOf(shown, f) == \E s \in Selections : Valid(f, s) /\ shown = Asked(f, s)

\* Unless something overlapped: a file is read alone, one request is under way, under a panel
\* that waits for it, and a preview asked for or shown is one of the panel's text.
PanelOK ==
    ~panel.raced =>
        /\ reading # {} => ~InFlight /\ panel.shown = NoPreview /\ \E p \in reading : reading = {p}
        /\ \A r, q \in Imports : Flying(r) /\ Flying(q) => r = q
        /\ InFlight => panel.busy
        /\ \A r \in Imports :
              Flying(r) /\ req[r].at # "refused" /\ req[r].mode = "preview"
                  => panel.text \in Files /\ PreviewOf(req[r].shown, panel.text)
        /\ panel.shown # NoPreview /\ ~panel.changed =>
              /\ panel.text \in Files /\ PreviewOf(panel.shown, panel.text)
              /\ panel.selection = SelectionFrom(panel.shown)

PanelInv == ImportTyped /\ PanelOK

-----------------------------------------------------------------------------
(* What a file and a selection come to *)

LEMMA SelectionNames ==
    /\ NoSelection \in Selections
    /\ NoPreview \in Previews
    /\ Fields = {"email", "external_id"}
BY DEF NoSelection, Selections, NoPreview, Previews, Mappings, Fields

\* A mapping sends each field to a column or to none.
LEMMA ResolvedTyped ==
    ASSUME NEW f \in Files, NEW s \in Selections
    PROVE  Resolved(f, s) \in Mappings /\ Asked(f, s) \in Previews
<1>1. \A field \in Fields : Resolved(f, s)[field] \in Columns \cup {"none"}
  <2> TAKE field \in Fields
  <2> DEFINE chosen == {c \in Columns : s[c] = field}
  <2>1. CASE chosen # {}
    BY <2>1 DEF Resolved
  <2>2. CASE chosen = {}
    <3>1. Content(f).columns \subseteq Columns
      BY DEF Columns
    <3> QED
      BY <2>2, <3>1 DEF Resolved
  <2> QED
    BY <2>1, <2>2
<1>2. Resolved(f, s) = [field \in Fields |-> Resolved(f, s)[field]]
  BY DEF Resolved
<1>3. Resolved(f, s) \in Mappings
  BY <1>1, <1>2 DEF Mappings
<1> QED
  BY <1>3 DEF Asked, Previews

\* The key of a row's record, where it has one, is one of RowKeys.
LEMMA KeysAreRowKeys ==
    ASSUME NEW f \in Files, NEW mapping, NEW i \in DOMAIN Content(f).rows,
           HasKey(Record(f, mapping, i))
    PROVE  Key(Record(f, mapping, i)) \in RowKeys
<1> DEFINE rec == Record(f, mapping, i)
           row == Content(f).rows[i]
<1>1. \A column : Cell(row, column) # "" => Cell(row, column) \in Cells \ {""}
  <2> TAKE column
  <2>1. HAVE Cell(row, column) # ""
  <2>2. column \in DOMAIN row /\ Cell(row, column) = row[column]
    BY <2>1 DEF Cell
  <2>3. Cell(row, column) \in Range(row) /\ row \in Range(Content(f).rows)
    BY <2>2 DEF Range
  <2>4. Range(row) \in {Range(x) : x \in Range(Content(f).rows)}
    BY <2>3
  <2>5. Cell(row, column) \in UNION {Range(x) : x \in Range(Content(f).rows)}
    BY <2>3, <2>4
  <2>6. UNION {Range(x) : x \in Range(Content(f).rows)} \subseteq Cells
    BY Zenon DEF Cells
  <2> QED
    BY <2>1, <2>5, <2>6
<1>2. rec.id = Cell(row, mapping["external_id"])
  BY DEF Record
<1>3. rec.email = Email(Cell(row, mapping["email"]))
  BY DEF Record
<1>4. rec.email # "" => rec.email \in Cells \ {""}
  BY <1>1, <1>3 DEF Email
<1>5. CASE rec.id # ""
  <2>1. Key(rec) = <<"external_id", rec.id>>
    BY <1>5 DEF Key
  <2>2. rec.id \in Cells \ {""}
    BY <1>1, <1>2, <1>5
  <2>3. \A id \in Cells \ {""} : <<"external_id", id>> \in RowKeys
    BY DEF RowKeys
  <2> QED
    BY <2>1, <2>2, <2>3
<1>6. CASE rec.id = "" /\ rec.email # ""
  <2>1. Key(rec) = <<"email", rec.email>>
    BY <1>6 DEF Key
  <2>2. rec.email \in Cells \ {""}
    BY <1>4, <1>6
  <2>3. \A email \in Cells \ {""} : <<"email", email>> \in RowKeys
    BY DEF RowKeys
  <2> QED
    BY <2>1, <2>2, <2>3
<1>7. CASE rec.id = "" /\ rec.email = ""
  BY <1>7 DEF Key, HasKey
<1> QED
  BY <1>5, <1>6, <1>7

\* A plan is a function of some rows of the file, with a key of its own for each.
LEMMA PlanFacts ==
    ASSUME NEW plan \in Plans
    PROVE  /\ IsFiniteSet(DOMAIN plan.records) /\ DOMAIN plan.records \subseteq Nat
           /\ \A i \in DOMAIN plan.records : Key(plan.records[i]) \in RowKeys
           /\ \A i, j \in DOMAIN plan.records :
                 Key(plan.records[i]) = Key(plan.records[j]) => i = j
           /\ plan.skips \in Nat
<1>0. PICK p \in {q \in Files \X Selections : Valid(q[1], q[2])} : plan = PlanOf(p[1], p[2])
  BY Zenon DEF Plans
<1>1. PICK f \in Files, s \in Selections : plan = PlanOf(f, s)
  BY <1>0
<1> DEFINE mapping == Resolved(f, s)
           places == DOMAIN Content(f).rows
           keyed == {i \in places : HasKey(Record(f, mapping, i))}
           chosen == {i \in keyed : First(f, mapping, i)}
<1>2. plan = [records |-> [i \in chosen |-> Record(f, mapping, i)],
              skips |-> Cardinality(places \ keyed)]
  BY <1>1 DEF PlanOf
<1>3. Len(Content(f).rows) \in Nat /\ places = 1 .. Len(Content(f).rows)
  BY ImportAssumption
<1>4. IsFiniteSet(places)
  BY <1>3, FS_Interval
<1>5. DOMAIN plan.records = chosen /\ \A i \in chosen : plan.records[i] = Record(f, mapping, i)
  BY <1>2
<1>6. IsFiniteSet(chosen) /\ chosen \subseteq Nat
  BY <1>3, <1>4, FS_Subset
<1>7. \A i \in chosen : Key(plan.records[i]) \in RowKeys
  BY <1>5, KeysAreRowKeys
<1>8. \A i, j \in chosen : i < j => Key(plan.records[i]) # Key(plan.records[j])
  BY <1>3, <1>5 DEF First
<1>9. \A i, j \in chosen : Key(plan.records[i]) = Key(plan.records[j]) => i = j
  BY <1>6, <1>8
<1>10. plan.skips \in Nat
  <2>1. IsFiniteSet(places \ keyed)
    BY <1>4, FS_Subset
  <2> QED
    BY <2>1, <1>2, FS_CardinalityType
<1> HIDE DEF chosen
<1> QED
  BY <1>5, <1>6, <1>7, <1>9, <1>10

LEMMA ValidPlans ==
    ASSUME NEW f \in Files, NEW s \in Selections, Valid(f, s)
    PROVE  PlanOf(f, s) \in Plans
<1>1. <<f, s>> \in {q \in Files \X Selections : Valid(q[1], q[2])}
  OBVIOUS
<1>2. PlanOf(<<f, s>>[1], <<f, s>>[2]) \in Plans
  BY <1>1, Zenon DEF Plans
<1> QED
  BY <1>2

\* The places left have a first one.
Below == {p \in Nat \X Nat : p[1] < p[2]}

LEMMA BelowIsWellFounded == IsWellFoundedOn(Below, Nat)
BY NatLessThanWellFounded DEF OpToRel, Below

LEMMA LeastNumber ==
    ASSUME NEW S, S \subseteq Nat, S # {}
    PROVE  Min(S) \in S /\ \A y \in S : Min(S) <= y
<1>1. PICK x \in S : \A y \in S : ~ (<<y, x>> \in Below)
  BY BelowIsWellFounded, WFMin, Zenon
<1>2. \A y \in S : ~(y < x)
  BY <1>1 DEF Below
<1>3. \A y \in S : x <= y
  BY <1>2
<1> QED
  BY <1>3 DEF Min

-----------------------------------------------------------------------------
(* Commits *)

\* A request that does not move stays sound, if the rows it has locked stay locked and as
\* they are.
LEMMA SoundStays ==
    ASSUME NEW r \in Imports, Sound(r), req'[r] = req[r],
           \A k \in RowKeys : held[k] = r => held'[k] = r /\ registrations'[k] = registrations[k],
           WroteKeys(r) \subseteq RowKeys, req[r].found => NextKey(r) \in RowKeys
    PROVE  Sound(r)'
<1>1. WroteKeys(r)' = WroteKeys(r) /\ NextKey(r)' = NextKey(r)
  BY DEF WroteKeys, NextKey, NextRecord
<1>2. \A k \in WroteKeys(r) : held[k] = r
  BY DEF Sound
<1>3. \A k \in WroteKeys(r) : held'[k] = r /\ registrations'[k] = registrations[k]
  BY <1>2
<1>4. /\ {k \in WroteKeys(r) : registrations'[k] = NoRow} = {k \in WroteKeys(r) : registrations[k] = NoRow}
      /\ {k \in WroteKeys(r) : registrations'[k] # NoRow} = {k \in WroteKeys(r) : registrations[k] # NoRow}
  BY <1>3
<1>5. req[r].found => /\ req[r].left # {} /\ held'[NextKey(r)] = r
                      /\ registrations'[NextKey(r)] # NoRow
  BY DEF Sound
<1>6. req'[r].at # "open" => req'[r].wrote = {} /\ ~req'[r].found
  BY DEF Sound
<1>7. req'[r].at = "open" =>
          /\ req'[r].plan \in Plans
          /\ req'[r].left \subseteq DOMAIN req'[r].plan.records
          /\ req'[r].wrote = {req'[r].plan.records[i] : i \in DOMAIN req'[r].plan.records \ req'[r].left}
  BY DEF Sound
<1>8. req'[r].at = "open" => req'[r].counts =
                [inserts |-> Cardinality({k \in WroteKeys(r)' : registrations'[k] = NoRow}),
                 updates |-> Cardinality({k \in WroteKeys(r)' : registrations'[k] # NoRow}),
                 skips |-> req'[r].plan.skips]
  BY <1>1, <1>4 DEF Sound
<1>9. /\ \A k \in WroteKeys(r)' : held'[k] = r
      /\ req'[r].found => /\ req'[r].left # {} /\ held'[NextKey(r)'] = r
                          /\ registrations'[NextKey(r)'] # NoRow
  BY <1>1, <1>3, <1>5
<1> QED
  BY <1>6, <1>7, <1>8, <1>9, Zenon DEF Sound

\* The records written and the next one have keys of rows.
LEMMA KeysTyped ==
    ASSUME NEW r \in Imports, Sound(r), req[r] \in RequestRecord
    PROVE  /\ WroteKeys(r) \subseteq RowKeys
           /\ req[r].found => req[r].at = "open"
           /\ req[r].at = "open" /\ req[r].left # {} =>
                 /\ Min(req[r].left) \in req[r].left
                 /\ Min(req[r].left) \in DOMAIN req[r].plan.records
                 /\ NextKey(r) \in RowKeys
<1>1. req[r].found => req[r].at = "open"
  BY DEF Sound
<1>2. CASE req[r].at # "open"
  BY <1>1, <1>2 DEF Sound, WroteKeys
<1>3. CASE req[r].at = "open"
  <2>1. /\ req[r].plan \in Plans /\ req[r].left \subseteq DOMAIN req[r].plan.records
        /\ req[r].wrote = {req[r].plan.records[i] : i \in DOMAIN req[r].plan.records \ req[r].left}
    BY <1>3 DEF Sound
  <2>2. \A i \in DOMAIN req[r].plan.records : Key(req[r].plan.records[i]) \in RowKeys
    BY <2>1, PlanFacts
  <2>3. req[r].left \subseteq Nat
    BY DEF RequestRecord
  <2>4. req[r].left # {} => Min(req[r].left) \in req[r].left
    BY <2>3, LeastNumber
  <2> QED
    BY <1>1, <2>1, <2>2, <2>4 DEF WroteKeys, NextKey, NextRecord
<1> QED
  BY <1>2, <1>3

\* A step of one request that leaves the rows others have locked as they are.
LEMMA OthersStaySound ==
    ASSUME ImportInv, NEW r \in Imports, Sound(r)',
           \A q \in Imports \ {r} : req'[q] = req[q],
           \A k \in RowKeys, q \in Imports \ {r} :
              held[k] = q => held'[k] = q /\ registrations'[k] = registrations[k]
    PROVE  \A q \in Imports : Sound(q)'
<1> SUFFICES ASSUME NEW q \in Imports \ {r} PROVE Sound(q)'
  OBVIOUS
<1>1. Sound(q) /\ req[q] \in RequestRecord
  BY DEF ImportInv, ImportTyped
<1>2. WroteKeys(q) \subseteq RowKeys /\ (req[q].found => NextKey(q) \in RowKeys)
  BY <1>1, KeysTyped DEF Sound
<1> QED
  BY <1>1, <1>2, SoundStays

LEMMA CountsTyped ==
    /\ Nothing \in Tallies
    /\ NewRequest \in RequestRecord /\ EndedRequest \in RequestRecord
    /\ \A q \in RequestRecord : Answering(q) \in RequestRecord
<1>1. Nothing \in Tallies
  BY DEF Nothing, Tallies
<1>2. NewRequest \in RequestRecord
  BY <1>1, SelectionNames DEF NewRequest, RequestRecord
<1>3. NewRequest.wrote = {} /\ NewRequest.found = FALSE
  BY DEF NewRequest
<1>4. EndedRequest \in RequestRecord
  BY <1>2 DEF EndedRequest, RequestRecord
<1>5. \A q \in RequestRecord : Answering(q) \in RequestRecord
  BY <1>2 DEF Answering, RequestRecord
<1> QED
  BY <1>1, <1>2, <1>4, <1>5

\* A request that is not open has written nothing.
LEMMA ClosedSound ==
    ASSUME NEW r \in Imports, req'[r].at # "open", req'[r].wrote = {}, req'[r].found = FALSE
    PROVE  Sound(r)'
BY DEF Sound, WroteKeys

LEMMA BlankFields ==
    /\ NewRequest.at = "new" /\ NewRequest.wrote = {} /\ NewRequest.found = FALSE
    /\ EndedRequest.at = "ended" /\ EndedRequest.wrote = {} /\ EndedRequest.found = FALSE
    /\ \A q : /\ Answering(q).at = "answering" /\ Answering(q).wrote = {}
              /\ Answering(q).found = FALSE /\ Answering(q).by = q.by
              /\ Answering(q).mode = q.mode /\ Answering(q).shown = q.shown
<1>1. /\ DOMAIN NewRequest = {"at", "by", "mode", "shown", "plan", "left", "found", "wrote", "counts"}
      /\ NewRequest.at = "new" /\ NewRequest.wrote = {} /\ NewRequest.found = FALSE
  BY DEF NewRequest
<1> QED
  BY <1>1 DEF EndedRequest, Answering

LEMMA PreviewSound ==
    ASSUME ImportInv, NEW r \in Imports, Preview(r)
    PROVE  ImportInv' /\ PreviewFile(r, req[r].plan) /\ req[r].plan \in Plans
<1>1. /\ req[r].at = "open" /\ req' = [req EXCEPT ![r] = Answering(req[r])]
      /\ UNCHANGED <<registrations, held, panel, reading>>
  BY DEF Preview
<1>2. ImportTyped /\ req[r] \in RequestRecord /\ Sound(r)
  BY DEF ImportInv, ImportTyped
<1>3. req' \in [Imports -> RequestRecord] /\ req'[r] = Answering(req[r])
      /\ \A q \in Imports \ {r} : req'[q] = req[q]
  BY <1>1, <1>2, CountsTyped DEF ImportTyped
<1>4. ImportTyped'
  BY <1>1, <1>2, <1>3 DEF ImportTyped
<1>5. Sound(r)'
  <2>1. req'[r].at = "answering" /\ req'[r].wrote = {} /\ req'[r].found = FALSE
    BY <1>3, BlankFields
  <2> QED
    BY <2>1, ClosedSound
<1>6. \A q \in Imports : Sound(q)'
  BY <1>1, <1>3, <1>5, OthersStaySound
<1>7. req[r].plan \in Plans
  BY <1>1, <1>2 DEF Sound
<1> QED
  BY <1>4, <1>6, <1>7 DEF ImportInv, Preview, PreviewFile

LEMMA SelectSound ==
    ASSUME ImportInv, NEW r \in Imports, Select(r)
    PROVE  ImportInv'
<1>1. /\ Working(r) /\ registrations[NextKey(r)] # NoRow /\ Owns(r, NextKey(r))
      /\ held' = [held EXCEPT ![NextKey(r)] = r]
      /\ req' = [req EXCEPT ![r].found = TRUE]
      /\ UNCHANGED <<registrations, panel, reading>>
  BY DEF Select, Lock
<1>2. ImportTyped /\ req[r] \in RequestRecord /\ Sound(r)
  BY DEF ImportInv, ImportTyped
<1>3. NextKey(r) \in RowKeys /\ WroteKeys(r) \subseteq RowKeys /\ req[r].at = "open" /\ req[r].left # {}
  BY <1>1, <1>2, KeysTyped DEF Working
<1>4. PICK x : x = [req[r] EXCEPT !.found = TRUE]
  OBVIOUS
<1>5. /\ x \in RequestRecord /\ x.found = TRUE /\ x.at = req[r].at /\ x.plan = req[r].plan
      /\ x.left = req[r].left /\ x.wrote = req[r].wrote /\ x.counts = req[r].counts
  BY <1>2, <1>4 DEF RequestRecord
<1>6. req' \in [Imports -> RequestRecord] /\ req'[r] = x /\ \A q \in Imports \ {r} : req'[q] = req[q]
  BY <1>1, <1>2, <1>4, <1>5 DEF ImportTyped
<1>7. held' \in [RowKeys -> Imports \cup {"nobody"}] /\ held'[NextKey(r)] = r
      /\ \A k \in RowKeys \ {NextKey(r)} : held'[k] = held[k]
  BY <1>1, <1>2, <1>3 DEF ImportTyped
<1>8. ImportTyped'
  BY <1>1, <1>2, <1>6, <1>7 DEF ImportTyped
<1>9. WroteKeys(r)' = WroteKeys(r) /\ NextKey(r)' = NextKey(r)
  BY <1>5, <1>6 DEF WroteKeys, NextKey, NextRecord
<1>10. Sound(r)'
  <2>1. /\ req'[r].at = "open" /\ req'[r].plan \in Plans
        /\ req'[r].left \subseteq DOMAIN req'[r].plan.records
        /\ req'[r].wrote = {req'[r].plan.records[i] : i \in DOMAIN req'[r].plan.records \ req'[r].left}
        /\ req'[r].counts =
                [inserts |-> Cardinality({k \in WroteKeys(r) : registrations[k] = NoRow}),
                 updates |-> Cardinality({k \in WroteKeys(r) : registrations[k] # NoRow}),
                 skips |-> req'[r].plan.skips]
    BY <1>2, <1>3, <1>5, <1>6 DEF Sound
  <2>2. \A k \in WroteKeys(r) : held'[k] = r
    BY <1>2, <1>3, <1>7 DEF Sound
  <2>3. req'[r].left # {} /\ held'[NextKey(r)] = r /\ registrations[NextKey(r)] # NoRow
    BY <1>1, <1>3, <1>5, <1>6, <1>7
  <2>4. registrations' = registrations
    BY <1>1
  <2> QED
    BY <1>9, <2>1, <2>2, <2>3, <2>4 DEF Sound
<1>11. \A k \in RowKeys, q \in Imports \ {r} : held[k] = q => held'[k] = q
  BY <1>1, <1>7, ImportAssumption DEF Owns
<1>12. \A q \in Imports : Sound(q)'
  BY <1>1, <1>6, <1>10, <1>11, OthersStaySound
<1> QED
  BY <1>8, <1>12 DEF ImportInv

\* A record is written: the row is locked, it was there or not as is counted, and it is done.
LEMMA WriteSound ==
    ASSUME ImportInv, NEW r \in Imports, NEW field \in {"inserts", "updates"}, Working(r),
           registrations[NextKey(r)] = NoRow <=> field = "inserts",
           Owns(r, NextKey(r)), held' = [held EXCEPT ![NextKey(r)] = r],
           req' = Written(r, field), UNCHANGED <<registrations, panel, reading>>
    PROVE  ImportInv'
<1> DEFINE n == Min(req[r].left)
           plan == req[r].plan
           key == NextKey(r)
           done == DOMAIN plan.records \ req[r].left
<1>1. ImportTyped /\ req[r] \in RequestRecord /\ Sound(r) /\ req[r].at = "open" /\ req[r].left # {}
  BY DEF ImportInv, ImportTyped, Working
<1>2. /\ key \in RowKeys /\ WroteKeys(r) \subseteq RowKeys /\ n \in req[r].left
      /\ n \in DOMAIN plan.records
  BY <1>1, KeysTyped
<1>3. /\ plan \in Plans /\ req[r].left \subseteq DOMAIN plan.records
      /\ req[r].wrote = {plan.records[i] : i \in done}
      /\ req[r].counts = [inserts |-> Cardinality({k \in WroteKeys(r) : registrations[k] = NoRow}),
                          updates |-> Cardinality({k \in WroteKeys(r) : registrations[k] # NoRow}),
                          skips |-> plan.skips]
      /\ \A k \in WroteKeys(r) : held[k] = r
  BY <1>1 DEF Sound
<1>4. PICK x : x = [req[r] EXCEPT !.left = req[r].left \ {n}, !.found = FALSE,
                       !.wrote = req[r].wrote \cup {plan.records[n]},
                       !.counts[field] = req[r].counts[field] + 1]
  OBVIOUS
<1>5. req' = [req EXCEPT ![r] = x]
  BY <1>4, Zenon DEF Written, NextRecord
<1>6. PICK c : c = [req[r].counts EXCEPT ![field] = req[r].counts[field] + 1]
  OBVIOUS
<1>7. req[r].counts \in Tallies
  BY <1>1 DEF RequestRecord
<1>8. /\ c \in Tallies /\ c.skips = req[r].counts.skips
      /\ field = "inserts" => c.inserts = req[r].counts.inserts + 1 /\ c.updates = req[r].counts.updates
      /\ field = "updates" => c.updates = req[r].counts.updates + 1 /\ c.inserts = req[r].counts.inserts
      /\ c = [inserts |-> c.inserts, updates |-> c.updates, skips |-> c.skips]
  <2>1. CASE field = "inserts"
    BY <1>6, <1>7, <2>1 DEF Tallies
  <2>2. CASE field = "updates"
    BY <1>6, <1>7, <2>2 DEF Tallies
  <2> QED
    BY <2>1, <2>2
<1>9. plan.records[n] \in UNION {Range(p.records) : p \in Plans}
  <2>1. plan.records[n] \in Range(plan.records)
    BY <1>2 DEF Range
  <2> QED
    BY <2>1, <1>3
<1>10. /\ x \in RequestRecord /\ x.found = FALSE /\ x.at = "open" /\ x.plan = plan
       /\ x.left = req[r].left \ {n} /\ x.wrote = req[r].wrote \cup {plan.records[n]}
       /\ x.counts = c
  BY <1>1, <1>4, <1>6, <1>8, <1>9 DEF RequestRecord
<1>11. req' \in [Imports -> RequestRecord] /\ req'[r] = x /\ \A q \in Imports \ {r} : req'[q] = req[q]
  BY <1>1, <1>5, <1>10 DEF ImportTyped
<1>12. held' \in [RowKeys -> Imports \cup {"nobody"}] /\ held'[key] = r
       /\ \A k \in RowKeys \ {key} : held'[k] = held[k]
  BY <1>1, <1>2 DEF ImportTyped
<1>13. ImportTyped'
  BY <1>1, <1>11, <1>12 DEF ImportTyped
<1>14. key = Key(plan.records[n])
  BY DEF NextKey, NextRecord
<1>15. WroteKeys(r)' = WroteKeys(r) \cup {key}
  <2>1. WroteKeys(r)' = {Key(s) : s \in x.wrote}
    BY <1>11 DEF WroteKeys
  <2>2. x.wrote = req[r].wrote \cup {plan.records[n]}
    BY <1>10
  <2> QED
    BY <2>1, <2>2, <1>14 DEF WroteKeys
<1>16. key \notin WroteKeys(r)
  <2>1. SUFFICES ASSUME NEW i \in done, key = Key(plan.records[i]) PROVE FALSE
    BY <1>3 DEF WroteKeys
  <2>2. i = n
    BY <2>1, <1>2, <1>3, <1>14, PlanFacts
  <2> QED
    BY <2>1, <2>2, <1>2
<1>17. IsFiniteSet(WroteKeys(r))
  <2>1. IsFiniteSet(done)
    BY <1>3, PlanFacts, FS_Subset
  <2>2. WroteKeys(r) = {Key(plan.records[i]) : i \in done}
    BY <1>3 DEF WroteKeys
  <2>3. PICK f : f = [i \in done |-> Key(plan.records[i])]
    OBVIOUS
  <2>4. f \in Surjection(done, WroteKeys(r))
    BY <2>2, <2>3 DEF Surjection
  <2> QED
    BY <2>1, <2>4, FS_Surjection
<1> DEFINE made == {k \in WroteKeys(r) : registrations[k] = NoRow}
           changed == {k \in WroteKeys(r) : registrations[k] # NoRow}
<1>18. IsFiniteSet(made) /\ IsFiniteSet(changed)
  BY <1>17, FS_Subset
<1>185. /\ req[r].counts.inserts = Cardinality(made) /\ req[r].counts.updates = Cardinality(changed)
        /\ req[r].counts.skips = plan.skips
  BY <1>3
<1>19. c = [inserts |-> Cardinality({k \in WroteKeys(r)' : registrations[k] = NoRow}),
            updates |-> Cardinality({k \in WroteKeys(r)' : registrations[k] # NoRow}),
            skips |-> plan.skips]
  <2>1. CASE field = "inserts"
    <3>1. /\ {k \in WroteKeys(r)' : registrations[k] = NoRow} = made \cup {key}
          /\ {k \in WroteKeys(r)' : registrations[k] # NoRow} = changed
      BY <2>1, <1>15
    <3>2. Cardinality(made \cup {key}) = Cardinality(made) + 1
      BY <1>16, <1>18, FS_AddElement
    <3>3. c.inserts = Cardinality(made \cup {key}) /\ c.updates = Cardinality(changed)
      BY <2>1, <3>2, <1>8, <1>185
    <3> QED
      BY <3>1, <3>3, <1>8, <1>185
  <2>2. CASE field = "updates"
    <3>1. /\ {k \in WroteKeys(r)' : registrations[k] # NoRow} = changed \cup {key}
          /\ {k \in WroteKeys(r)' : registrations[k] = NoRow} = made
      BY <2>2, <1>15
    <3>2. Cardinality(changed \cup {key}) = Cardinality(changed) + 1
      BY <1>16, <1>18, FS_AddElement
    <3>3. c.updates = Cardinality(changed \cup {key}) /\ c.inserts = Cardinality(made)
      BY <2>2, <3>2, <1>8, <1>185
    <3> QED
      BY <3>1, <3>3, <1>8, <1>185
  <2> QED
    BY <2>1, <2>2
<1>20. Sound(r)'
  <2>1. {plan.records[i] : i \in DOMAIN plan.records \ x.left} = x.wrote
    <3>1. DOMAIN plan.records \ x.left = done \cup {n}
      BY <1>2, <1>10
    <3> QED
      BY <3>1, <1>3, <1>10
  <2>2. \A k \in WroteKeys(r)' : held'[k] = r
    BY <1>2, <1>3, <1>12, <1>15
  <2>3. x.left \subseteq DOMAIN plan.records
    BY <1>3, <1>10
  <2> QED
    BY <1>3, <1>10, <1>11, <1>19, <2>1, <2>2, <2>3 DEF Sound
<1>21. \A k \in RowKeys, q \in Imports \ {r} : held[k] = q => held'[k] = q
  BY <1>12, ImportAssumption DEF Owns
<1>22. \A q \in Imports : Sound(q)'
  BY <1>11, <1>20, <1>21, OthersStaySound
<1> QED
  BY <1>13, <1>22 DEF ImportInv

LEMMA UpdateSound ==
    ASSUME ImportInv, NEW r \in Imports, Update(r)
    PROVE  ImportInv'
<1>1. registrations[NextKey(r)] # NoRow
  BY DEF Update, ImportInv, Sound
<1>2. /\ Working(r) /\ Owns(r, NextKey(r)) /\ held' = [held EXCEPT ![NextKey(r)] = r]
      /\ req' = Written(r, "updates") /\ UNCHANGED <<registrations, panel, reading>>
  BY <1>1 DEF Update
<1> QED
  BY <1>1, <1>2, WriteSound

LEMMA InsertSound ==
    ASSUME ImportInv, NEW r \in Imports, Insert(r)
    PROVE  ImportInv'
<1>1. /\ Working(r) /\ Owns(r, NextKey(r)) /\ held' = [held EXCEPT ![NextKey(r)] = r]
      /\ req' = Written(r, "inserts") /\ UNCHANGED <<registrations, panel, reading>>
      /\ registrations[NextKey(r)] = NoRow
  BY DEF Insert
<1> QED
  BY <1>1, WriteSound

\* The locks of a request that ends go, those of others stay.
LEMMA ReleaseTyped ==
    ASSUME ImportTyped, NEW r \in Imports, held' = Released(r)
    PROVE  /\ held' \in [RowKeys -> Imports \cup {"nobody"}]
           /\ \A k \in RowKeys, q \in Imports \ {r} : held[k] = q => held'[k] = q
BY DEF ImportTyped, Released

\* All is written: the rows and the counts are those of the whole plan.
LEMMA CommitSound ==
    ASSUME ImportInv, NEW r \in Imports, Commit(r)
    PROVE  ImportInv' /\ CommitFile(r, req[r].plan) /\ req[r].plan \in Plans
<1> DEFINE plan == req[r].plan
<1>1. /\ req[r].at = "open" /\ req[r].left = {}
      /\ registrations' = Merged(req[r].wrote, registrations)
      /\ held' = Released(r) /\ told' = [told EXCEPT ![r] = req[r].counts]
      /\ req' = [req EXCEPT ![r] = Answering(req[r])] /\ UNCHANGED <<panel, reading>>
  BY DEF Commit
<1>2. ImportTyped /\ req[r] \in RequestRecord /\ Sound(r)
  BY DEF ImportInv, ImportTyped
<1>3. /\ plan \in Plans /\ req[r].wrote = {plan.records[i] : i \in DOMAIN plan.records}
      /\ req[r].counts = [inserts |-> Cardinality({k \in WroteKeys(r) : registrations[k] = NoRow}),
                          updates |-> Cardinality({k \in WroteKeys(r) : registrations[k] # NoRow}),
                          skips |-> plan.skips]
      /\ \A k \in WroteKeys(r) : held[k] = r
  BY <1>1, <1>2 DEF Sound
<1>4. req[r].wrote = Range(plan.records)
  BY <1>3 DEF Range
<1>5. CommitFile(r, plan)
  <2>1. WroteKeys(r) = {Key(s) : s \in Range(plan.records)}
    BY <1>4 DEF WroteKeys
  <2>2. Counted(plan, registrations) = req[r].counts
    BY <2>1, <1>3 DEF Counted
  <2> QED
    BY <2>2, <1>1, <1>4 DEF CommitFile
<1>6. req' \in [Imports -> RequestRecord] /\ req'[r] = Answering(req[r])
      /\ \A q \in Imports \ {r} : req'[q] = req[q]
  BY <1>1, <1>2, CountsTyped DEF ImportTyped
<1>7. DOMAIN registrations' = RowKeys
  BY <1>1 DEF Merged
<1>8. ImportTyped'
  BY <1>1, <1>2, <1>6, <1>7, ReleaseTyped DEF ImportTyped
<1>9. Sound(r)'
  <2>1. req'[r].at = "answering" /\ req'[r].wrote = {} /\ req'[r].found = FALSE
    BY <1>6, BlankFields
  <2> QED
    BY <2>1, ClosedSound
<1>10. \A k \in RowKeys, q \in Imports \ {r} : held[k] = q => registrations'[k] = registrations[k]
  <2> SUFFICES ASSUME NEW k \in RowKeys, held[k] # r
               PROVE  registrations'[k] = registrations[k]
    OBVIOUS
  <2>1. k \notin WroteKeys(r)
    BY <1>3
  <2>2. ~\E s \in req[r].wrote : Key(s) = k
    BY <2>1 DEF WroteKeys
  <2> QED
    BY <2>2, <1>1 DEF Merged
<1>11. \A k \in RowKeys, q \in Imports \ {r} :
          held[k] = q => held'[k] = q /\ registrations'[k] = registrations[k]
  BY <1>1, <1>2, <1>10, ReleaseTyped
<1>12. \A q \in Imports : Sound(q)'
  BY <1>6, <1>9, <1>11, OthersStaySound
<1> QED
  BY <1>3, <1>5, <1>8, <1>12 DEF ImportInv

\* A request ends, or is refused, with nothing written and no lock.
LEMMA EndSound ==
    ASSUME ImportInv, NEW r \in Imports, NEW x \in RequestRecord, req' = [req EXCEPT ![r] = x],
           x.at # "open", x.wrote = {}, x.found = FALSE, UNCHANGED registrations,
           held' = held \/ held' = Released(r),
           panel' \in PanelRecord, reading' \subseteq Files \X Selections
    PROVE  ImportInv'
<1>1. ImportTyped
  BY DEF ImportInv
<1>2. req' \in [Imports -> RequestRecord] /\ req'[r] = x
      /\ \A q \in Imports \ {r} : req'[q] = req[q]
  BY <1>1 DEF ImportTyped
<1>3. /\ held' \in [RowKeys -> Imports \cup {"nobody"}]
      /\ \A k \in RowKeys, q \in Imports \ {r} : held[k] = q => held'[k] = q
  BY <1>1, ReleaseTyped DEF ImportTyped
<1>4. ImportTyped'
  BY <1>1, <1>2, <1>3 DEF ImportTyped
<1>5. Sound(r)'
  BY <1>2, ClosedSound
<1>6. \A q \in Imports : Sound(q)'
  BY <1>2, <1>3, <1>5, OthersStaySound
<1> QED
  BY <1>4, <1>6 DEF ImportInv

\* A request opens with its whole plan to write.
LEMMA OpenSound ==
    ASSUME ImportInv, NEW r \in Imports, NEW by \in {"client", "panel"},
           NEW asked \in {"preview", "commit"}, NEW shown \in Previews, NEW plan \in Plans,
           req' = [req EXCEPT ![r] = Opened(by, asked, shown, plan)],
           UNCHANGED <<registrations, held>>,
           panel' \in PanelRecord, reading' \subseteq Files \X Selections
    PROVE  ImportInv'
<1>1. ImportTyped
  BY DEF ImportInv
<1>2. PICK x : x = Opened(by, asked, shown, plan)
  OBVIOUS
<1>3. plan.skips \in Nat /\ DOMAIN plan.records \subseteq Nat
  BY PlanFacts
<1>4. PICK c : c = [inserts |-> 0, updates |-> 0, skips |-> plan.skips]
  OBVIOUS
<1>5. /\ x \in RequestRecord /\ x.at = "open" /\ x.plan = plan /\ x.left = DOMAIN plan.records
      /\ x.counts = [inserts |-> 0, updates |-> 0, skips |-> plan.skips] /\ x.wrote = {}
      /\ x.found = FALSE
  <2>1. [Nothing EXCEPT !.skips = plan.skips] = c
    BY <1>4 DEF Nothing
  <2>2. c \in Tallies
    BY <1>3, <1>4 DEF Tallies
  <2>3. x = [NewRequest EXCEPT !.at = "open", !.by = by, !.mode = asked, !.shown = shown,
                               !.plan = plan, !.left = DOMAIN plan.records, !.counts = c]
    BY <1>2, <2>1 DEF Opened
  <2>4. NewRequest \in RequestRecord /\ NewRequest.wrote = {} /\ NewRequest.found = FALSE
    BY CountsTyped, BlankFields
  <2> QED
    BY <1>3, <1>4, <2>2, <2>3, <2>4 DEF RequestRecord
<1>6. req' \in [Imports -> RequestRecord] /\ req'[r] = x
      /\ \A q \in Imports \ {r} : req'[q] = req[q]
  BY <1>1, <1>2, <1>5 DEF ImportTyped
<1>7. ImportTyped'
  BY <1>1, <1>6 DEF ImportTyped
<1>8. WroteKeys(r)' = {}
  BY <1>5, <1>6 DEF WroteKeys
<1>9. Sound(r)'
  <2>1. /\ {k \in WroteKeys(r)' : registrations'[k] = NoRow} = {}
        /\ {k \in WroteKeys(r)' : registrations'[k] # NoRow} = {}
    BY <1>8
  <2>2. Cardinality({}) = 0
    BY FS_EmptySet
  <2>3. {plan.records[i] : i \in DOMAIN plan.records \ DOMAIN plan.records} = {}
    OBVIOUS
  <2> QED
    BY <2>1, <2>2, <2>3, <1>5, <1>6, <1>8 DEF Sound
<1>10. \A q \in Imports : Sound(q)'
  BY <1>6, <1>9, OthersStaySound
<1> QED
  BY <1>7, <1>10 DEF ImportInv

\* What reaches the route from the panel, opened or refused.
LEMMA AskSound ==
    ASSUME ImportInv, NEW r \in Imports, NEW asked \in {"preview", "commit"},
           NEW f \in Files, NEW s \in Selections, Ask(r, asked, f, s),
           UNCHANGED <<registrations, held>>,
           panel' \in PanelRecord, reading' \subseteq Files \X Selections
    PROVE  ImportInv'
<1>1. CASE Valid(f, s)
  <2>1. req' = [req EXCEPT ![r] = Opened("panel", asked, Asked(f, s), PlanOf(f, s))]
    BY <1>1 DEF Ask
  <2>2. PlanOf(f, s) \in Plans /\ Asked(f, s) \in Previews
    BY <1>1, ValidPlans, ResolvedTyped
  <2> QED
    BY <2>1, <2>2, OpenSound
<1>2. CASE ~Valid(f, s)
  <2>1. PICK x : x = [NewRequest EXCEPT !.at = "refused", !.by = "panel"]
    OBVIOUS
  <2>2. req' = [req EXCEPT ![r] = x]
    BY <1>2, <2>1 DEF Ask
  <2>3. NewRequest \in RequestRecord /\ NewRequest.wrote = {} /\ NewRequest.found = FALSE
    BY CountsTyped, BlankFields
  <2>4. x \in RequestRecord /\ x.at = "refused" /\ x.wrote = {} /\ x.found = FALSE
    BY <2>1, <2>3 DEF RequestRecord
  <2> QED
    BY <2>2, <2>4, EndSound
<1> QED
  BY <1>1, <1>2

LEMMA FailSound ==
    ASSUME ImportInv, NEW r \in Imports, Fail(r)
    PROVE  ImportInv'
<1>1. PICK x : x = [NewRequest EXCEPT !.at = "refused", !.by = req[r].by]
  OBVIOUS
<1>2. /\ req' = [req EXCEPT ![r] = x] /\ held' = Released(r)
      /\ UNCHANGED <<registrations, panel, reading>>
  BY <1>1 DEF Fail
<1>3. NewRequest \in RequestRecord /\ NewRequest.wrote = {} /\ NewRequest.found = FALSE
  BY CountsTyped, BlankFields
<1>4. req[r].by \in {"client", "panel"}
  BY DEF ImportInv, ImportTyped, RequestRecord
<1>5. x \in RequestRecord /\ x.at = "refused" /\ x.wrote = {} /\ x.found = FALSE
  BY <1>1, <1>3, <1>4 DEF RequestRecord
<1> QED
  BY <1>2, <1>5, EndSound DEF ImportInv, ImportTyped

LEMMA RetentionSound ==
    ASSUME ImportInv, NEW k \in RowKeys, Retention(k)
    PROVE  ImportInv'
<1>1. /\ held[k] = "nobody" /\ registrations' = [registrations EXCEPT ![k] = NoRow]
      /\ UNCHANGED <<held, req, panel, reading>>
  BY DEF Retention, Expire
<1>2. ImportTyped
  BY DEF ImportInv
<1>3. ImportTyped'
  BY <1>1, <1>2 DEF ImportTyped
<1>4. ASSUME NEW r \in Imports PROVE Sound(r)'
  <2>1. Sound(r) /\ req[r] \in RequestRecord /\ req'[r] = req[r]
    BY <1>1 DEF ImportInv, ImportTyped
  <2>2. \A i \in RowKeys : held[i] = r => held'[i] = r /\ registrations'[i] = registrations[i]
    BY <1>1, <1>2, ImportAssumption DEF ImportTyped
  <2>3. WroteKeys(r) \subseteq RowKeys /\ (req[r].found => NextKey(r) \in RowKeys)
    BY <2>1, KeysTyped DEF Sound
  <2> QED
    BY <2>1, <2>2, <2>3, SoundStays
<1> QED
  BY <1>3, <1>4 DEF ImportInv

\* A step of the panel alone.
LEMMA PanelAloneSound ==
    ASSUME ImportInv, UNCHANGED <<registrations, held, req>>, panel' \in PanelRecord,
           reading' \subseteq Files \X Selections
    PROVE  ImportInv'
<1>1. ImportTyped'
  BY DEF ImportInv, ImportTyped
<1>2. ASSUME NEW r \in Imports PROVE Sound(r)'
  <2>1. Sound(r) /\ req[r] \in RequestRecord /\ req'[r] = req[r]
    BY DEF ImportInv, ImportTyped
  <2>2. WroteKeys(r) \subseteq RowKeys /\ (req[r].found => NextKey(r) \in RowKeys)
    BY <2>1, KeysTyped DEF Sound
  <2> QED
    BY <2>1, <2>2, SoundStays
<1> QED
  BY <1>1, <1>2 DEF ImportInv

-----------------------------------------------------------------------------
(* The panel's types *)

LEMMA SelectionFromTyped ==
    ASSUME NEW shown PROVE SelectionFrom(shown) \in Selections
BY DEF SelectionFrom, Selections, Fields

LEMMA ClearedTyped ==
    ASSUME panel \in PanelRecord
    PROVE  /\ Cleared \in PanelRecord /\ Cleared.shown = NoPreview /\ Cleared.busy = panel.busy
           /\ Cleared.raced = panel.raced /\ Cleared.changed = panel.changed
           /\ Cleared.text = panel.text
BY SelectionNames DEF Cleared, PanelRecord

LEMMA PanelTypes ==
    ASSUME ImportTyped
    PROVE  /\ \A f \in Files : Pick(f) => panel' \in PanelRecord
           /\ PickNothing => panel' \in PanelRecord
           /\ \A r \in Imports : ReadDone(r) => panel' \in PanelRecord
           /\ \A r \in Imports, asked \in {"preview", "commit"} :
                 Press(r, asked) => panel' \in PanelRecord
           /\ \A c \in Columns, field \in Fields \cup {"ignore"} :
                 Choose(c, field) => panel' \in PanelRecord
           /\ \A r \in Imports : Land(r) => panel' \in PanelRecord
<1>0. panel \in PanelRecord /\ reading \subseteq Files \X Selections
      /\ \A r \in Imports : req[r] \in RequestRecord
  BY DEF ImportTyped
<1>1. ASSUME NEW f \in Files, Pick(f) PROVE panel' \in PanelRecord
  <2>1. panel' = [Cleared EXCEPT !.file = f, !.raced = InFlight \/ reading # {}, !.changed = FALSE]
    BY <1>1 DEF Pick
  <2>2. (InFlight \/ reading # {}) \in BOOLEAN
    OBVIOUS
  <2> QED
    BY <1>0, <2>1, <2>2, ClearedTyped DEF PanelRecord
<1>2. ASSUME PickNothing PROVE panel' \in PanelRecord
  <2>1. panel' = [Cleared EXCEPT !.file = "none", !.text = "none",
                                 !.raced = InFlight \/ reading # {}, !.changed = FALSE]
    BY <1>2 DEF PickNothing
  <2>2. (InFlight \/ reading # {}) \in BOOLEAN
    OBVIOUS
  <2> QED
    BY <1>0, <2>1, <2>2, ClearedTyped DEF PanelRecord
<1>3. ASSUME NEW r \in Imports, ReadDone(r) PROVE panel' \in PanelRecord
  <2>1. PICK p \in reading : panel' = [panel EXCEPT !.text = p[1], !.busy = TRUE]
    BY <1>3 DEF ReadDone
  <2>2. p[1] \in Files
    BY <1>0, <2>1
  <2> QED
    BY <1>0, <2>1, <2>2 DEF PanelRecord
<1>4. ASSUME NEW r \in Imports, NEW asked \in {"preview", "commit"}, Press(r, asked)
      PROVE  panel' \in PanelRecord
  <2>1. panel' = [panel EXCEPT !.busy = TRUE, !.raced = panel.raced \/ reading # {}]
    BY <1>4 DEF Press
  <2>2. (panel.raced \/ reading # {}) \in BOOLEAN
    OBVIOUS
  <2> QED
    BY <1>0, <2>1, <2>2 DEF PanelRecord
<1>5. ASSUME NEW c \in Columns, NEW field \in Fields \cup {"ignore"}, Choose(c, field)
      PROVE  panel' \in PanelRecord
  <2>1. panel' = [panel EXCEPT !.selection[c] = field, !.changed = TRUE]
    BY <1>5 DEF Choose
  <2>2. panel.selection \in Selections
    BY <1>0 DEF PanelRecord
  <2>3. [panel.selection EXCEPT ![c] = field] \in Selections
    BY <2>2 DEF Selections
  <2>4. panel' = [panel EXCEPT !.selection = [panel.selection EXCEPT ![c] = field], !.changed = TRUE]
    BY <1>0, <2>1 DEF PanelRecord
  <2> QED
    BY <1>0, <2>3, <2>4 DEF PanelRecord
<1>6. ASSUME NEW r \in Imports, Land(r) PROVE panel' \in PanelRecord
  <2>1. CASE panel' = [panel EXCEPT !.shown = req[r].shown, !.changed = FALSE, !.busy = FALSE,
                                    !.selection = SelectionFrom(req[r].shown)]
    <3>1. req[r].shown \in Previews /\ SelectionFrom(req[r].shown) \in Selections
      BY <1>0, SelectionFromTyped DEF RequestRecord
    <3> QED
      BY <1>0, <2>1, <3>1 DEF PanelRecord
  <2>2. CASE panel' = [Cleared EXCEPT !.text = "none", !.busy = FALSE]
    BY <1>0, <2>2, ClearedTyped DEF PanelRecord
  <2>3. CASE panel' = [panel EXCEPT !.busy = FALSE]
    BY <1>0, <2>3 DEF PanelRecord
  <2> QED
    BY <1>6, <2>1, <2>2, <2>3 DEF Land
<1> QED
  BY <1>1, <1>2, <1>3, <1>4, <1>5, <1>6

-----------------------------------------------------------------------------
(* Every step keeps the invariant and is a step of the promise *)

LEMMA InitImport == FileImportInit => ImportInv
<1> SUFFICES ASSUME FileImportInit PROVE ImportInv
  OBVIOUS
<1>1. ImportTyped
  BY SelectionNames, CountsTyped
     DEF FileImportInit, ImportInit, ImportTyped, EmptyPanel, PanelRecord
<1>2. ASSUME NEW r \in Imports PROVE Sound(r)
  BY BlankFields DEF FileImportInit, Sound, WroteKeys
<1> QED
  BY <1>1, <1>2 DEF ImportInv

\* Neither the rows nor what was counted changes: a stutter of the promise.
RowsKept == UNCHANGED <<registrations, told>>

LEMMA ImportStep ==
    ASSUME ImportInv, [FileImportNext]_importVars
    PROVE  ImportInv' /\ [ImportNext]_<<registrations, told>>
<1> USE DEF RowsKept
<1>0. panel \in PanelRecord /\ reading \subseteq Files \X Selections
      /\ req \in [Imports -> RequestRecord]
  BY DEF ImportInv, ImportTyped
<1>1. ASSUME NEW r \in Imports, Preview(r) PROVE ImportInv' /\ ImportNext
  <2>1. ImportInv' /\ PreviewFile(r, req[r].plan) /\ req[r].plan \in Plans
    BY <1>1, PreviewSound
  <2> QED
    BY <2>1 DEF ImportNext
<1>2. ASSUME NEW r \in Imports, Select(r) PROVE ImportInv' /\ RowsKept
  BY <1>2, SelectSound DEF Select
<1>3. ASSUME NEW r \in Imports, Update(r) PROVE ImportInv' /\ RowsKept
  BY <1>3, UpdateSound DEF Update
<1>4. ASSUME NEW r \in Imports, Insert(r) PROVE ImportInv' /\ RowsKept
  BY <1>4, InsertSound DEF Insert
<1>5. ASSUME NEW r \in Imports, Commit(r) PROVE ImportInv' /\ ImportNext
  <2>1. ImportInv' /\ CommitFile(r, req[r].plan) /\ req[r].plan \in Plans
    BY <1>5, CommitSound
  <2> QED
    BY <2>1 DEF ImportNext
<1>6. ASSUME NEW r \in Imports, Fail(r) PROVE ImportInv' /\ RowsKept
  BY <1>6, FailSound DEF Fail
<1>7. ASSUME NEW r \in Imports, ReadDone(r) PROVE ImportInv' /\ RowsKept
  <2>1. PICK p \in reading : /\ Ask(r, "preview", p[1], p[2]) /\ reading' = reading \ {p}
                             /\ UNCHANGED <<registrations, told, held>>
    BY <1>7 DEF ReadDone
  <2>2. p[1] \in Files /\ p[2] \in Selections /\ reading' \subseteq Files \X Selections
    BY <1>0, <2>1
  <2>3. panel' \in PanelRecord
    BY <1>7, PanelTypes DEF ImportInv
  <2> QED
    BY <2>1, <2>2, <2>3, AskSound
<1>8. ASSUME NEW r \in Imports, NEW asked \in {"preview", "commit"}, Press(r, asked)
      PROVE  ImportInv' /\ RowsKept
  <2>1. /\ Ask(r, asked, panel.text, panel.selection) /\ panel.text # "none"
        /\ UNCHANGED <<registrations, told, held, reading>>
    BY <1>8 DEF Press
  <2>2. panel.text \in Files /\ panel.selection \in Selections
    BY <1>0, <2>1 DEF PanelRecord
  <2>3. panel' \in PanelRecord
    BY <1>8, PanelTypes DEF ImportInv
  <2> QED
    BY <1>0, <2>1, <2>2, <2>3, AskSound
<1>9. ASSUME NEW r \in Imports, NEW asked \in {"preview", "commit"}, NEW plan \in Plans,
             Call(r, asked, plan)
      PROVE  ImportInv' /\ RowsKept
  <2>1. /\ req' = [req EXCEPT ![r] = Opened("client", asked, NoPreview, plan)]
        /\ UNCHANGED <<registrations, told, held, panel, reading>>
    BY <1>9 DEF Call
  <2> QED
    BY <1>0, <2>1, SelectionNames, OpenSound
<1>10. ASSUME NEW r \in Imports, Land(r) PROVE ImportInv' /\ RowsKept
  <2>1. req' = [req EXCEPT ![r] = EndedRequest] /\ UNCHANGED <<registrations, told, held, reading>>
    BY <1>10 DEF Land
  <2>2. panel' \in PanelRecord
    BY <1>10, PanelTypes DEF ImportInv
  <2>3. EndedRequest \in RequestRecord /\ EndedRequest.at # "open" /\ EndedRequest.wrote = {}
        /\ EndedRequest.found = FALSE
    BY CountsTyped, BlankFields
  <2> QED
    BY <1>0, <2>1, <2>2, <2>3, EndSound
<1>11. ASSUME NEW r \in Imports, Return(r) PROVE ImportInv' /\ RowsKept
  <2>1. req' = [req EXCEPT ![r] = EndedRequest]
        /\ UNCHANGED <<registrations, told, held, panel, reading>>
    BY <1>11 DEF Return
  <2>2. EndedRequest \in RequestRecord /\ EndedRequest.at # "open" /\ EndedRequest.wrote = {}
        /\ EndedRequest.found = FALSE
    BY CountsTyped, BlankFields
  <2> QED
    BY <1>0, <2>1, <2>2, EndSound
<1>12. ASSUME NEW k \in RowKeys, Retention(k) PROVE ImportInv' /\ ImportNext
  BY <1>12, RetentionSound DEF Retention, ImportNext
<1>13. ASSUME NEW f \in Files, Pick(f) PROVE ImportInv' /\ RowsKept
  <2>1. /\ UNCHANGED <<registrations, told, held, req>>
        /\ reading' = reading \cup {<<f, panel.selection>>}
    BY <1>13 DEF Pick
  <2>2. reading' \subseteq Files \X Selections
    BY <1>0, <2>1 DEF PanelRecord
  <2>3. panel' \in PanelRecord
    BY <1>13, PanelTypes DEF ImportInv
  <2> QED
    BY <2>1, <2>2, <2>3, PanelAloneSound
<1>14. ASSUME PickNothing PROVE ImportInv' /\ RowsKept
  <2>1. UNCHANGED <<registrations, told, held, req, reading>>
    BY <1>14 DEF PickNothing
  <2>2. panel' \in PanelRecord
    BY <1>14, PanelTypes DEF ImportInv
  <2> QED
    BY <1>0, <2>1, <2>2, PanelAloneSound
<1>15. ASSUME NEW c \in Columns, NEW field \in Fields \cup {"ignore"}, Choose(c, field)
       PROVE  ImportInv' /\ RowsKept
  <2>1. UNCHANGED <<registrations, told, held, req, reading>>
    BY <1>15 DEF Choose
  <2>2. panel' \in PanelRecord
    BY <1>15, PanelTypes DEF ImportInv
  <2> QED
    BY <1>0, <2>1, <2>2, PanelAloneSound
<1>16. ASSUME UNCHANGED importVars PROVE ImportInv' /\ RowsKept
  <2>1. UNCHANGED <<registrations, told, held, req, panel, reading>>
    BY <1>16 DEF importVars
  <2> QED
    BY <1>0, <2>1, PanelAloneSound
<1> QED
  BY <1>1, <1>2, <1>3, <1>4, <1>5, <1>6, <1>7, <1>8, <1>9, <1>10, <1>11, <1>12, <1>13, <1>14,
     <1>15, <1>16 DEF FileImportNext

\* Commits that overlap each other, previews and the retention pass are some order of whole
\* imports (route.ts:161-207), for any files, selections and number of requests.
THEOREM ImportsAreAtomic == FileImportSpec => ImplementsAtomicImport
<1>1. FileImportInit => ImportInit
  BY DEF FileImportInit
<1>2. FileImportInit => ImportInv
  BY InitImport
<1>3. ImportInv /\ [FileImportNext]_importVars => ImportInv' /\ [ImportNext]_<<registrations, told>>
  BY ImportStep
<1> QED
  BY <1>1, <1>2, <1>3, PTL DEF FileImportSpec, ImplementsAtomicImport, ImportSpec

-----------------------------------------------------------------------------
(* The panel's invariant *)

\* The route goes on with a request of the panel or of a program.
LEMMA RouteKeepsPanel ==
    ASSUME PanelOK, NEW r \in Imports, \A q \in Imports \ {r} : req'[q] = req[q],
           UNCHANGED <<panel, reading>>, Flying(r)' <=> Flying(r),
           Flying(r) /\ req'[r].at # "refused" =>
              req[r].at # "refused" /\ req'[r].mode = req[r].mode /\ req'[r].shown = req[r].shown
    PROVE  PanelOK'
<1>1. \A q \in Imports : Flying(q)' <=> Flying(q)
  BY DEF Flying
<1>2. InFlight' <=> InFlight
  BY <1>1 DEF InFlight, Flying
<1>3. SUFFICES ASSUME ~panel.raced PROVE PanelOK'
  BY DEF PanelOK
<1>4. ASSUME NEW q \in Imports, Flying(q)', req'[q].at # "refused", req'[q].mode = "preview"
      PROVE  panel.text \in Files /\ PreviewOf(req'[q].shown, panel.text)
  <2>1. Flying(q) /\ req[q].at # "refused" /\ req[q].mode = "preview" /\ req'[q].shown = req[q].shown
    BY <1>1, <1>4
  <2> QED
    BY <1>3, <2>1 DEF PanelOK
<1>5. /\ reading' # {} => ~InFlight' /\ panel'.shown = NoPreview /\ \E p \in reading' : reading' = {p}
      /\ InFlight' => panel'.busy
      /\ \A q, p \in Imports : Flying(q)' /\ Flying(p)' => q = p
  BY <1>1, <1>2, <1>3 DEF PanelOK
<1>6. panel'.shown # NoPreview /\ ~panel'.changed =>
              /\ panel'.text \in Files /\ PreviewOf(panel'.shown, panel'.text)
              /\ panel'.selection = SelectionFrom(panel'.shown)
  BY <1>3 DEF PanelOK
<1>7. \A q \in Imports :
          Flying(q)' /\ req'[q].at # "refused" /\ req'[q].mode = "preview"
              => panel'.text \in Files /\ PreviewOf(req'[q].shown, panel'.text)
  BY <1>4
<1> QED
  BY <1>5, <1>6, <1>7, Zenon DEF PanelOK, PreviewOf, SelectionFrom

\* A step of the panel alone, with every request as it was.
LEMMA SameFlights ==
    ASSUME UNCHANGED req
    PROVE  (InFlight' <=> InFlight) /\ \A r \in Imports : Flying(r)' <=> Flying(r)
BY DEF InFlight, Flying

LEMMA FlightsAre == InFlight <=> \E r \in Imports : Flying(r)
BY DEF InFlight, Flying

LEMMA PickKeepsPanel ==
    ASSUME PanelOK, ImportTyped, NEW f \in Files, Pick(f) PROVE PanelOK'
<1>1. /\ panel' = [Cleared EXCEPT !.file = f, !.raced = InFlight \/ reading # {}, !.changed = FALSE]
      /\ reading' = reading \cup {<<f, panel.selection>>} /\ req' = req
  BY DEF Pick
<1>2. panel'.raced = (InFlight \/ reading # {}) /\ panel'.shown = NoPreview
  BY <1>1, ClearedTyped DEF ImportTyped, PanelRecord
<1>3. SUFFICES ASSUME ~InFlight, reading = {} PROVE PanelOK'
  BY <1>2 DEF PanelOK
<1>4. ~InFlight' /\ \A r \in Imports : ~Flying(r)'
  BY <1>1, <1>3, SameFlights, FlightsAre
<1>5. reading' = {<<f, panel.selection>>} /\ \E p \in reading' : reading' = {p}
  BY <1>1, <1>3
<1> QED
  BY <1>2, <1>4, <1>5 DEF PanelOK

LEMMA NothingKeepsPanel ==
    ASSUME PanelOK, ImportTyped, PickNothing PROVE PanelOK'
<1>1. /\ panel' = [Cleared EXCEPT !.file = "none", !.text = "none",
                                  !.raced = InFlight \/ reading # {}, !.changed = FALSE]
      /\ reading' = reading /\ req' = req
  BY DEF PickNothing
<1>2. panel'.raced = (InFlight \/ reading # {}) /\ panel'.shown = NoPreview
  BY <1>1, ClearedTyped DEF ImportTyped, PanelRecord
<1>3. SUFFICES ASSUME ~InFlight, reading = {} PROVE PanelOK'
  BY <1>2 DEF PanelOK
<1>4. ~InFlight' /\ \A r \in Imports : ~Flying(r)'
  BY <1>1, <1>3, SameFlights, FlightsAre
<1> QED
  BY <1>1, <1>2, <1>3, <1>4 DEF PanelOK

LEMMA ChooseKeepsPanel ==
    ASSUME PanelOK, ImportTyped, NEW c \in Columns, NEW field, Choose(c, field) PROVE PanelOK'
<1>1. /\ panel' = [panel EXCEPT !.selection[c] = field, !.changed = TRUE]
      /\ reading' = reading /\ req' = req
  BY DEF Choose
<1>2. panel'.raced = panel.raced /\ panel'.shown = panel.shown /\ panel'.changed = TRUE
      /\ panel'.text = panel.text /\ panel'.busy = panel.busy
  BY <1>1 DEF ImportTyped, PanelRecord
<1>3. (InFlight' <=> InFlight) /\ \A r \in Imports : Flying(r)' <=> Flying(r)
  BY <1>1, SameFlights
<1>4. SUFFICES ASSUME ~panel.raced PROVE PanelOK'
  BY <1>2 DEF PanelOK
<1>5. /\ reading' # {} => ~InFlight' /\ panel'.shown = NoPreview /\ \E p \in reading' : reading' = {p}
      /\ InFlight' => panel'.busy
      /\ \A q, p \in Imports : Flying(q)' /\ Flying(p)' => q = p
  BY <1>1, <1>2, <1>3, <1>4 DEF PanelOK
<1>6. ASSUME NEW q \in Imports, Flying(q)', req'[q].at # "refused", req'[q].mode = "preview"
      PROVE  panel'.text \in Files /\ PreviewOf(req'[q].shown, panel'.text)
  BY <1>1, <1>2, <1>3, <1>4, <1>6 DEF PanelOK
<1> QED
  BY <1>2, <1>5, <1>6 DEF PanelOK

\* What the panel asks: the only request under way is the new one.
LEMMA AskKeepsPanel ==
    ASSUME ImportTyped, NEW r \in Imports, NEW asked \in {"preview", "commit"}, NEW f \in Files,
           NEW s \in Selections, Ask(r, asked, f, s), ~InFlight
    PROVE  /\ \A q \in Imports : Flying(q)' => q = r
           /\ Flying(r)' /\ req'[r].at # "refused" => PreviewOf(req'[r].shown, f)
<1>1. \A q \in Imports \ {r} : req'[q] = req[q]
  BY DEF Ask, ImportTyped
<1>2. \A q \in Imports : Flying(q)' => q = r
  BY <1>1, FlightsAre DEF Flying
<1>3. CASE Valid(f, s)
  <2>1. req'[r] = Opened("panel", asked, Asked(f, s), PlanOf(f, s))
    BY <1>3 DEF Ask, ImportTyped
  <2>2. "shown" \in DOMAIN NewRequest
    BY DEF NewRequest
  <2>3. req'[r].shown = Asked(f, s)
    BY <2>1, <2>2 DEF Opened
  <2> QED
    BY <1>2, <1>3, <2>3 DEF PreviewOf
<1>4. CASE ~Valid(f, s)
  <2>1. req'[r] = [NewRequest EXCEPT !.at = "refused", !.by = "panel"]
    BY <1>4 DEF Ask, ImportTyped
  <2>2. req'[r].at = "refused"
    BY <2>1 DEF NewRequest
  <2> QED
    BY <1>2, <2>2
<1> QED
  BY <1>3, <1>4

LEMMA ReadKeepsPanel ==
    ASSUME PanelOK, ImportTyped, NEW r \in Imports, ReadDone(r) PROVE PanelOK'
<1>1. PICK p \in reading : /\ Ask(r, "preview", p[1], p[2])
                           /\ panel' = [panel EXCEPT !.text = p[1], !.busy = TRUE]
                           /\ reading' = reading \ {p}
  BY DEF ReadDone
<1>2. panel'.raced = panel.raced /\ panel'.shown = panel.shown /\ panel'.text = p[1] /\ panel'.busy
  BY <1>1 DEF ImportTyped, PanelRecord
<1>3. SUFFICES ASSUME ~panel.raced PROVE PanelOK'
  BY <1>2 DEF PanelOK
<1>4. ~InFlight /\ panel.shown = NoPreview /\ reading' = {}
  BY <1>1, <1>3 DEF PanelOK
<1>5. p[1] \in Files /\ p[2] \in Selections
  BY <1>1 DEF ImportTyped
<1>6. /\ \A q \in Imports : Flying(q)' => q = r
      /\ Flying(r)' /\ req'[r].at # "refused" => PreviewOf(req'[r].shown, p[1])
  BY <1>1, <1>4, <1>5, AskKeepsPanel
<1> QED
  BY <1>2, <1>4, <1>5, <1>6 DEF PanelOK

LEMMA PressKeepsPanel ==
    ASSUME PanelOK, ImportTyped, NEW r \in Imports, NEW asked \in {"preview", "commit"},
           Press(r, asked)
    PROVE  PanelOK'
<1>1. /\ Ask(r, asked, panel.text, panel.selection) /\ ~panel.busy /\ panel.text # "none"
      /\ panel' = [panel EXCEPT !.busy = TRUE, !.raced = panel.raced \/ reading # {}]
      /\ reading' = reading
  BY DEF Press
<1>2. /\ panel'.raced = (panel.raced \/ reading # {}) /\ panel'.shown = panel.shown
      /\ panel'.text = panel.text /\ panel'.busy /\ panel'.changed = panel.changed
      /\ panel'.selection = panel.selection
  BY <1>1 DEF ImportTyped, PanelRecord
<1>3. SUFFICES ASSUME ~panel.raced, reading = {} PROVE PanelOK'
  BY <1>2 DEF PanelOK
<1>4. ~InFlight
  BY <1>1, <1>3 DEF PanelOK
<1>5. panel.text \in Files /\ panel.selection \in Selections
  BY <1>1 DEF ImportTyped, PanelRecord
<1>6. /\ \A q \in Imports : Flying(q)' => q = r
      /\ Flying(r)' /\ req'[r].at # "refused" => PreviewOf(req'[r].shown, panel.text)
  BY <1>1, <1>4, <1>5, AskKeepsPanel
<1>7. panel'.shown # NoPreview /\ ~panel'.changed =>
              /\ panel'.text \in Files /\ PreviewOf(panel'.shown, panel'.text)
              /\ panel'.selection = SelectionFrom(panel'.shown)
  BY <1>2, <1>3 DEF PanelOK
<1> QED
  BY <1>1, <1>2, <1>3, <1>5, <1>6, <1>7 DEF PanelOK

LEMMA LandKeepsPanel ==
    ASSUME PanelOK, ImportTyped, NEW r \in Imports, Land(r) PROVE PanelOK'
<1>1. /\ req' = [req EXCEPT ![r] = EndedRequest] /\ reading' = reading /\ Flying(r)
  BY DEF Land, Flying
<1>2. panel'.raced = panel.raced
  BY ClearedTyped DEF Land, ImportTyped, PanelRecord
<1>3. SUFFICES ASSUME ~panel.raced PROVE PanelOK'
  BY <1>2 DEF PanelOK
<1>4. req'[r] = EndedRequest /\ \A q \in Imports \ {r} : req'[q] = req[q]
  BY <1>1 DEF ImportTyped
<1>5. \A q \in Imports : ~Flying(q)'
  <2>1. ~Flying(r)'
    BY <1>4, BlankFields DEF Flying
  <2>2. \A q \in Imports \ {r} : ~Flying(q)
    BY <1>1, <1>3 DEF PanelOK
  <2> QED
    BY <1>4, <2>1, <2>2 DEF Flying
<1>6. ~InFlight' /\ reading' = {}
  <2>1. InFlight
    BY <1>1, FlightsAre
  <2> QED
    BY <1>1, <1>3, <1>5, <2>1 DEF PanelOK, InFlight, Flying
<1>7. panel'.shown # NoPreview /\ ~panel'.changed =>
              /\ panel'.text \in Files /\ PreviewOf(panel'.shown, panel'.text)
              /\ panel'.selection = SelectionFrom(panel'.shown)
  <2>1. CASE /\ req[r].at = "answering" /\ req[r].mode = "preview"
             /\ panel' = [panel EXCEPT !.shown = req[r].shown, !.changed = FALSE, !.busy = FALSE,
                                       !.selection = SelectionFrom(req[r].shown)]
    <3>1. panel'.shown = req[r].shown /\ panel'.selection = SelectionFrom(req[r].shown)
          /\ panel'.text = panel.text
      BY <2>1 DEF ImportTyped, PanelRecord
    <3>2. panel.text \in Files /\ PreviewOf(req[r].shown, panel.text)
      BY <1>1, <1>3, <2>1 DEF PanelOK
    <3> QED
      BY <3>1, <3>2
  <2>2. CASE panel' = [Cleared EXCEPT !.text = "none", !.busy = FALSE]
    <3>1. panel'.shown = NoPreview
      BY <2>2, ClearedTyped DEF ImportTyped, PanelRecord
    <3> QED
      BY <3>1
  <2>3. CASE panel' = [panel EXCEPT !.busy = FALSE]
    <3>1. /\ panel'.shown = panel.shown /\ panel'.selection = panel.selection
          /\ panel'.text = panel.text /\ panel'.changed = panel.changed
      BY <2>3 DEF ImportTyped, PanelRecord
    <3> QED
      BY <3>1, <1>3 DEF PanelOK
  <2> QED
    BY <2>1, <2>2, <2>3 DEF Land
<1> QED
  BY <1>5, <1>6, <1>7 DEF PanelOK

LEMMA RouteSteps ==
    ASSUME ImportTyped, PanelOK, NEW r \in Imports,
           \/ Preview(r) \/ Select(r) \/ Update(r) \/ Insert(r) \/ Commit(r) \/ Fail(r)
    PROVE  PanelOK'
<1>1. req \in [Imports -> RequestRecord] /\ UNCHANGED <<panel, reading>>
  BY DEF ImportTyped, Preview, Select, Update, Insert, Commit, Fail
<1>2. req[r].at = "open"
  BY DEF Preview, Select, Update, Insert, Commit, Fail, Working
<1>3. PICK x : req' = [req EXCEPT ![r] = x] /\ x.by = req[r].by
                  /\ \/ x.at \in {"open", "answering"} /\ x.mode = req[r].mode /\ x.shown = req[r].shown
                     \/ x.at = "refused"
  <2>1. CASE Preview(r) \/ Commit(r)
    BY <2>1, BlankFields DEF Preview, Commit
  <2>2. CASE Select(r)
    <3>1. PICK x : x = [req[r] EXCEPT !.found = TRUE]
      OBVIOUS
    <3>2. req' = [req EXCEPT ![r] = x]
      BY <1>1, <2>2, <3>1 DEF Select
    <3>3. x.by = req[r].by /\ x.at = req[r].at /\ x.mode = req[r].mode /\ x.shown = req[r].shown
      BY <1>1, <3>1 DEF RequestRecord
    <3> QED
      BY <1>2, <3>2, <3>3
  <2>3. ASSUME NEW field, req' = Written(r, field) \/ req' = [Written(r, field) EXCEPT ![r].wrote = req[r].wrote]
        PROVE  \E x : req' = [req EXCEPT ![r] = x] /\ x.by = req[r].by /\ x.at = "open"
                         /\ x.mode = req[r].mode /\ x.shown = req[r].shown
    <3>1. PICK y : y = [req[r] EXCEPT !.left = req[r].left \ {Min(req[r].left)}, !.found = FALSE,
                            !.wrote = req[r].wrote \cup {NextRecord(r)},
                            !.counts[field] = req[r].counts[field] + 1]
      OBVIOUS
    <3>2. y.by = req[r].by /\ y.at = req[r].at /\ y.mode = req[r].mode /\ y.shown = req[r].shown
      BY <1>1, <3>1 DEF RequestRecord
    <3>3. Written(r, field) = [req EXCEPT ![r] = y]
      BY <3>1, Zenon DEF Written
    <3>4. CASE req' = [req EXCEPT ![r] = y]
      BY <1>2, <3>2, <3>4
    <3>5. CASE req' = [[req EXCEPT ![r] = y] EXCEPT ![r].wrote = req[r].wrote]
      <4>1. PICK z : z = [y EXCEPT !.wrote = req[r].wrote]
        OBVIOUS
      <4>2. z.by = y.by /\ z.at = y.at /\ z.mode = y.mode /\ z.shown = y.shown
        BY <1>1, <3>1, <4>1 DEF RequestRecord
      <4>3. req' = [req EXCEPT ![r] = z]
        BY <1>1, <3>5, <4>1
      <4> QED
        BY <1>2, <3>2, <4>2, <4>3
    <3> QED
      BY <2>3, <3>3, <3>4, <3>5
  <2>4. CASE Update(r)
    BY <2>3, <2>4 DEF Update
  <2>5. CASE Insert(r)
    BY <2>3, <2>5 DEF Insert
  <2>6. CASE Fail(r)
    <3>1. PICK x : x = [NewRequest EXCEPT !.at = "refused", !.by = req[r].by]
      OBVIOUS
    <3>2. x.at = "refused" /\ x.by = req[r].by
      BY <3>1 DEF NewRequest
    <3> QED
      BY <2>6, <3>1, <3>2 DEF Fail
  <2> QED
    BY <2>1, <2>2, <2>4, <2>5, <2>6
<1>4. req'[r] = x /\ \A q \in Imports \ {r} : req'[q] = req[q]
  BY <1>1, <1>3
<1>5. Flying(r)' <=> Flying(r)
  BY <1>2, <1>3, <1>4 DEF Flying
<1>6. Flying(r) /\ req'[r].at # "refused" =>
         req[r].at # "refused" /\ req'[r].mode = req[r].mode /\ req'[r].shown = req[r].shown
  BY <1>2, <1>3, <1>4
<1> QED
  BY <1>1, <1>4, <1>5, <1>6, RouteKeepsPanel

LEMMA PanelStep ==
    ASSUME ImportTyped, PanelOK, [FileImportNext]_importVars
    PROVE  PanelOK'
<1>1. ASSUME NEW r \in Imports,
             \/ Preview(r) \/ Select(r) \/ Update(r) \/ Insert(r) \/ Commit(r) \/ Fail(r)
      PROVE  PanelOK'
  BY <1>1, RouteSteps
<1>2. ASSUME NEW r \in Imports, ReadDone(r) PROVE PanelOK'
  BY <1>2, ReadKeepsPanel
<1>3. ASSUME NEW r \in Imports, Land(r) PROVE PanelOK'
  BY <1>3, LandKeepsPanel
<1>4. ASSUME NEW r \in Imports, Return(r) PROVE PanelOK'
  <2>1. req'[r] = EndedRequest /\ \A q \in Imports \ {r} : req'[q] = req[q]
    BY <1>4 DEF Return, ImportTyped
  <2>2. ~Flying(r) /\ ~Flying(r)' /\ UNCHANGED <<panel, reading>>
    BY <1>4, <2>1, BlankFields DEF Flying, Return
  <2> QED
    BY <2>1, <2>2, RouteKeepsPanel
<1>5. ASSUME NEW r \in Imports, NEW asked \in {"preview", "commit"}, Press(r, asked) PROVE PanelOK'
  BY <1>5, PressKeepsPanel
<1>6. ASSUME NEW r \in Imports, NEW asked \in {"preview", "commit"}, NEW plan \in Plans,
             Call(r, asked, plan)
      PROVE  PanelOK'
  <2>1. req[r] = NewRequest /\ req'[r] = Opened("client", asked, NoPreview, plan)
        /\ \A q \in Imports \ {r} : req'[q] = req[q]
    BY <1>6 DEF Call, ImportTyped
  <2>2. req'[r].by = "client"
    BY <2>1 DEF Opened, NewRequest
  <2>3. ~Flying(r) /\ ~Flying(r)' /\ UNCHANGED <<panel, reading>>
    BY <1>6, <2>1, <2>2, BlankFields DEF Flying, Call
  <2> QED
    BY <2>1, <2>3, RouteKeepsPanel
<1>7. ASSUME UNCHANGED <<req, panel, reading>> PROVE PanelOK'
  <2>1. (InFlight' <=> InFlight) /\ \A r \in Imports : Flying(r)' <=> Flying(r)
    BY <1>7, SameFlights
  <2>2. SUFFICES ASSUME ~panel.raced PROVE PanelOK'
    BY <1>7 DEF PanelOK
  <2>3. /\ reading' # {} => ~InFlight' /\ panel'.shown = NoPreview /\ \E p \in reading' : reading' = {p}
        /\ InFlight' => panel'.busy
        /\ \A q, p \in Imports : Flying(q)' /\ Flying(p)' => q = p
    BY <1>7, <2>1, <2>2 DEF PanelOK
  <2>4. ASSUME NEW q \in Imports, Flying(q)', req'[q].at # "refused", req'[q].mode = "preview"
        PROVE  panel'.text \in Files /\ PreviewOf(req'[q].shown, panel'.text)
    BY <1>7, <2>1, <2>2, <2>4 DEF PanelOK
  <2>5. panel'.shown # NoPreview /\ ~panel'.changed =>
              /\ panel'.text \in Files /\ PreviewOf(panel'.shown, panel'.text)
              /\ panel'.selection = SelectionFrom(panel'.shown)
    BY <1>7, <2>2 DEF PanelOK
  <2> QED
    BY <2>3, <2>4, <2>5 DEF PanelOK
<1>8. ASSUME NEW k \in RowKeys, Retention(k) PROVE PanelOK'
  BY <1>7, <1>8 DEF Retention
<1>9. ASSUME NEW f \in Files, Pick(f) PROVE PanelOK'
  BY <1>9, PickKeepsPanel
<1>10. ASSUME PickNothing PROVE PanelOK'
  BY <1>10, NothingKeepsPanel
<1>11. ASSUME NEW c \in Columns, NEW field \in Fields \cup {"ignore"}, Choose(c, field) PROVE PanelOK'
  BY <1>11, ChooseKeepsPanel
<1>12. ASSUME UNCHANGED importVars PROVE PanelOK'
  BY <1>7, <1>12 DEF importVars
<1> QED
  BY <1>1, <1>2, <1>3, <1>4, <1>5, <1>6, <1>8, <1>9, <1>10, <1>11, <1>12 DEF FileImportNext

\* The selects show a mapping that asks for itself again, if no column feeds both fields.
LEMMA SelectsAskTheSame ==
    ASSUME NEW f \in Files, NEW s \in Selections, Valid(f, s), OneFieldPerColumn(Asked(f, s))
    PROVE  LET shown == Asked(f, s) IN
           /\ Valid(f, SelectionFrom(shown))
           /\ Asked(f, SelectionFrom(shown)) = shown
<1> DEFINE m == Resolved(f, s)
           t == SelectionFrom(Asked(f, s))
<1>1. m \in Mappings /\ m["email"] # m["external_id"] /\ Asked(f, s) = [file |-> f, mapping |-> m]
  BY ResolvedTyped DEF Asked, OneFieldPerColumn
<1>2. t \in Selections
  BY SelectionFromTyped
<1>3. Fields = {"email", "external_id"}
  BY DEF Fields
<1>4. \A c \in Columns, field \in Fields : t[c] = field <=> m[field] = c
  BY <1>1, <1>3 DEF SelectionFrom
<1>5. \A field \in Fields : m[field] \in Content(f).columns \cup {"none"}
  <2> SUFFICES ASSUME NEW field \in Fields PROVE m[field] \in Content(f).columns \cup {"none"}
    OBVIOUS
  <2> DEFINE chosen == {c \in Columns : s[c] = field}
  <2>1. CASE chosen # {}
    <3>1. m[field] \in chosen
      BY <2>1 DEF Resolved
    <3>2. chosen \subseteq {c \in Columns : s[c] # "ignore"}
      BY <1>3
    <3> QED
      BY <3>1, <3>2 DEF Valid
  <2>2. CASE chosen = {}
    BY <2>2 DEF Resolved
  <2> QED
    BY <2>1, <2>2
<1>6. "none" \notin Columns /\ Content(f).columns \subseteq Columns
  BY ImportAssumption DEF Columns
<1>7. \A c \in Columns : t[c] \in Fields \cup {"ignore"}
  BY <1>2 DEF Selections
<1>8. Valid(f, t)
  <2>1. \A c \in Columns : t[c] # "ignore" => c \in Content(f).columns
    <3> SUFFICES ASSUME NEW c \in Columns, t[c] # "ignore" PROVE c \in Content(f).columns
      OBVIOUS
    <3>1. t[c] \in Fields /\ m[t[c]] = c
      BY <1>4, <1>7
    <3> QED
      BY <3>1, <1>5, <1>6
  <2>2. \A c, d \in Columns : t[c] # "ignore" /\ t[c] = t[d] => c = d
    BY <1>4, <1>7
  <2> HIDE DEF t
  <2> QED
    BY <2>1, <2>2 DEF Valid
<1>9. \A field \in Fields : Resolved(f, t)[field] = m[field]
  <2> SUFFICES ASSUME NEW field \in Fields PROVE Resolved(f, t)[field] = m[field]
    OBVIOUS
  <2> DEFINE taken == {c \in Columns : t[c] = field}
  <2>1. taken = {c \in Columns : m[field] = c}
    BY <1>4
  <2>2. CASE m[field] \in Columns
    <3>1. taken = {m[field]}
      BY <2>1, <2>2
    <3> HIDE DEF t, m
    <3>2. Resolved(f, t)[field] = CHOOSE c \in taken : TRUE
      BY <3>1 DEF Resolved
    <3> QED
      BY <3>1, <3>2
  <2>3. CASE m[field] \notin Columns
    <3>1. m[field] = "none" /\ taken = {}
      BY <2>1, <2>3, <1>5, <1>6
    <3>2. field \notin Content(f).columns
      <4> DEFINE chosen == {c \in Columns : s[c] = field}
      <4>1. CASE chosen # {}
        <5>1. m[field] \in chosen
          BY <4>1 DEF Resolved
        <5> QED
          BY <5>1, <2>3
      <4>2. CASE chosen = {} /\ field \in Content(f).columns
        <5>1. m[field] = field
          BY <4>2 DEF Resolved
        <5> QED
          BY <5>1, <4>2, <2>3, <1>6
      <4> QED
        BY <4>1, <4>2
    <3> HIDE DEF t, m
    <3>3. Resolved(f, t)[field] = "none"
      BY <3>1, <3>2 DEF Resolved
    <3> QED
      BY <3>1, <3>3
  <2> QED
    BY <2>2, <2>3
<1>10. Resolved(f, t) \in Mappings
  BY <1>2, ResolvedTyped
<1>11. Resolved(f, t) = m
  BY <1>1, <1>9, <1>10 DEF Mappings
<1> QED
  BY <1>1, <1>8, <1>11 DEF Asked

\* What the commit button sends is what the preview above it was of (import-panel.tsx:192),
\* unless a pick, a reading or a request overlapped another or a select was changed: for any
\* files, columns, selections and requests.
THEOREM CommitIsOfItsPreview == FileImportSpec => []PreviewedIsCommitted
<1>1. FileImportInit => PanelOK
  <2> SUFFICES ASSUME FileImportInit PROVE PanelOK
    OBVIOUS
  <2>1. panel.shown = NoPreview /\ reading = {} /\ \A r \in Imports : ~Flying(r)
    BY BlankFields DEF FileImportInit, EmptyPanel, Flying
  <2>2. ~InFlight
    BY <2>1, FlightsAre
  <2> QED
    BY <2>1, <2>2 DEF PanelOK
<1>2. ImportInv /\ PanelOK /\ [FileImportNext]_importVars => ImportInv' /\ PanelOK'
  BY ImportStep, PanelStep DEF ImportInv
<1>3. PanelOK => PreviewedIsCommitted
  <2> SUFFICES ASSUME PanelOK, panel.shown # NoPreview, ~panel.raced, ~panel.changed,
                      OneFieldPerColumn(panel.shown)
               PROVE  /\ Valid(panel.text, panel.selection)
                      /\ Asked(panel.text, panel.selection) = panel.shown
    BY DEF PreviewedIsCommitted
  <2>1. /\ panel.text \in Files /\ panel.selection = SelectionFrom(panel.shown)
        /\ PreviewOf(panel.shown, panel.text)
    BY DEF PanelOK
  <2>2. PICK s \in Selections : Valid(panel.text, s) /\ panel.shown = Asked(panel.text, s)
    BY <2>1 DEF PreviewOf
  <2> QED
    BY <2>1, <2>2, SelectsAskTheSame
<1>4. FileImportInit => ImportInv
  BY InitImport
<1> QED
  BY <1>1, <1>2, <1>3, <1>4, PTL DEF FileImportSpec

-----------------------------------------------------------------------------
(* Finite orders *)

\* Those before one in an order R on S; an order puts no two alike and nobody before itself.
BeforeIn(R, S, x) == {y \in S : <<y, x>> \in R}
StrictOrder(R, S) ==
    /\ \A x \in S : <<x, x>> \notin R
    /\ \A x, y \in S : x = y \/ <<x, y>> \in R \/ <<y, x>> \in R
    /\ \A x, y, z \in S : <<x, y>> \in R /\ <<y, z>> \in R => <<x, z>> \in R

LEMMA FewerBefore ==
    ASSUME NEW S, IsFiniteSet(S), NEW R, StrictOrder(R, S)
    PROVE  /\ \A x \in S : IsFiniteSet(BeforeIn(R, S, x)) /\ Cardinality(BeforeIn(R, S, x)) \in Nat
           /\ \A x, y \in S : <<y, x>> \in R =>
                 Cardinality(BeforeIn(R, S, y)) < Cardinality(BeforeIn(R, S, x))
<1>1. \A x \in S : IsFiniteSet(BeforeIn(R, S, x)) /\ Cardinality(BeforeIn(R, S, x)) \in Nat
  BY FS_Subset, FS_CardinalityType DEF BeforeIn
<1>2. ASSUME NEW x \in S, NEW y \in S, <<y, x>> \in R
      PROVE  Cardinality(BeforeIn(R, S, y)) < Cardinality(BeforeIn(R, S, x))
  <2>1. BeforeIn(R, S, y) \subseteq BeforeIn(R, S, x)
    BY <1>2 DEF BeforeIn, StrictOrder
  <2>2. y \in BeforeIn(R, S, x) /\ y \notin BeforeIn(R, S, y)
    BY <1>2 DEF BeforeIn, StrictOrder
  <2>3. /\ Cardinality(BeforeIn(R, S, y)) <= Cardinality(BeforeIn(R, S, x))
        /\ Cardinality(BeforeIn(R, S, y)) # Cardinality(BeforeIn(R, S, x))
    BY <1>1, <2>1, <2>2, FS_Subset
  <2> QED
    BY <1>1, <2>3
<1> QED
  BY <1>1, <1>2

\* A finite order has a first one ...
LEMMA FirstInOrder ==
    ASSUME NEW S, IsFiniteSet(S), S # {}, NEW R, StrictOrder(R, S)
    PROVE  \E x \in S : \A y \in S \ {x} : <<x, y>> \in R
<1> DEFINE Counts == {n \in Nat : \E x \in S : n = Cardinality(BeforeIn(R, S, x))}
<1>1. Counts # {} /\ Counts \subseteq Nat
  BY FewerBefore
<1>2. PICK x \in S : Min(Counts) = Cardinality(BeforeIn(R, S, x))
  <2> HIDE DEF Counts
  <2>1. Min(Counts) \in Counts
    BY <1>1, LeastNumber
  <2> QED
    BY <2>1 DEF Counts
<1>3. \A y \in S : Min(Counts) <= Cardinality(BeforeIn(R, S, y))
  <2> TAKE y \in S
  <2>1. Cardinality(BeforeIn(R, S, y)) \in Counts
    BY FewerBefore
  <2> HIDE DEF Counts
  <2> QED
    BY <1>1, <2>1, LeastNumber
<1>4. \A y \in S : ~(<<y, x>> \in R)
  <2> SUFFICES ASSUME NEW y \in S, <<y, x>> \in R PROVE FALSE
    OBVIOUS
  <2> HIDE DEF Counts
  <2>1. Cardinality(BeforeIn(R, S, y)) < Cardinality(BeforeIn(R, S, x))
    BY FewerBefore
  <2>2. Cardinality(BeforeIn(R, S, x)) <= Cardinality(BeforeIn(R, S, y))
    BY <1>2, <1>3
  <2>3. Cardinality(BeforeIn(R, S, x)) \in Nat /\ Cardinality(BeforeIn(R, S, y)) \in Nat
    BY FewerBefore
  <2> QED
    BY <2>1, <2>2, <2>3
<1> QED
  BY <1>4 DEF StrictOrder

\* ... and one at every place: the ranks of n members are the numbers from 0 to n - 1.
LEMMA EveryRankIsTaken ==
    ASSUME NEW S, IsFiniteSet(S), NEW R, StrictOrder(R, S), NEW i \in 1 .. Cardinality(S)
    PROVE  \E x \in S : Cardinality(BeforeIn(R, S, x)) = i - 1
<1>1. PICK n \in Nat : n = Cardinality(S)
  BY FS_CardinalityType
<1> DEFINE Rank == [x \in S |-> Cardinality(BeforeIn(R, S, x))]
<1>2. \A x \in S : Rank[x] \in 0 .. n - 1
  <2> TAKE x \in S
  <2>1. BeforeIn(R, S, x) \subseteq S /\ x \notin BeforeIn(R, S, x)
    BY DEF BeforeIn, StrictOrder
  <2>2. Cardinality(BeforeIn(R, S, x)) <= n /\ Cardinality(BeforeIn(R, S, x)) # n
    BY <1>1, <2>1, FS_Subset
  <2>3. Cardinality(BeforeIn(R, S, x)) \in Nat
    BY FewerBefore
  <2> QED
    BY <2>2, <2>3
<1>3. \A x, y \in S : Rank[x] = Rank[y] => x = y
  <2> SUFFICES ASSUME NEW x \in S, NEW y \in S, Rank[x] = Rank[y], x # y PROVE FALSE
    OBVIOUS
  <2>1. PICK a, b \in Nat : a = Rank[x] /\ b = Rank[y]
    BY FewerBefore
  <2>2. a < b \/ b < a
    BY <2>1, FewerBefore DEF StrictOrder
  <2> QED
    BY <2>1, <2>2
<1>4. Rank \in Injection(S, 0 .. n - 1)
  BY <1>2, <1>3 DEF Injection, IsInjective
<1>5. IsFiniteSet(0 .. n - 1) /\ Cardinality(0 .. n - 1) = n
  BY FS_Interval
<1>6. Rank \in Surjection(S, 0 .. n - 1)
  BY <1>1, <1>4, <1>5, FS_Injection
<1>7. i - 1 \in 0 .. n - 1
  BY <1>1
<1> QED
  BY <1>6, <1>7 DEF Surjection

\* A finite set of numbers has a greatest.
LEMMA GreatestNumber ==
    ASSUME NEW S, S \subseteq Int, IsFiniteSet(S), S # {}
    PROVE  Max(S) \in S
<1> DEFINE Greater == {p \in Int \X Int : p[1] > p[2]}
<1>1. StrictOrder(Greater, S)
  BY DEF StrictOrder
<1>2. PICK x \in S : \A y \in S \ {x} : <<x, y>> \in Greater
  BY <1>1, FirstInOrder
<1>3. \A y \in S : x >= y
  <2> TAKE y \in S
  <2>1. CASE y = x
    BY <2>1
  <2>2. CASE y # x
    <3>1. <<x, y>> \in Greater
      BY <1>2, <2>2
    <3> QED
      BY <3>1
  <2> QED
    BY <2>1, <2>2
<1> QED
  BY <1>3 DEF Max
-----------------------------------------------------------------------------
(* Scores are numbers *)

Scorable(c) ==
    /\ IsFiniteSet(c.needs) /\ IsFiniteSet(c.interests)
    /\ c.id \in Nat /\ c.recency \in Nat

LEMMA ShareIsNumber ==
    ASSUME NEW hits \in Nat, NEW whole \in Nat
    PROVE  Share(hits, whole) \in Int
BY DEF Share

LEMMA CoveredCounts ==
    ASSUME NEW a, NEW b, IsFiniteSet(a.needs)
    PROVE  IsFiniteSet(Covered(a, b)) /\ Cardinality(Covered(a, b)) \in Nat
BY FS_Subset, FS_CardinalityType DEF Covered

LEMMA SharedCounts ==
    ASSUME NEW a, NEW b, IsFiniteSet(a.interests), IsFiniteSet(b.interests)
    PROVE  /\ Cardinality(a.interests) \in Nat /\ Cardinality(b.interests) \in Nat
           /\ Cardinality(a.interests \cap b.interests) \in Nat
           /\ Cardinality(a.interests \cup b.interests) \in Nat
BY FS_Union, FS_Subset, FS_CardinalityType

LEMMA OverlapIsNumber ==
    ASSUME NEW a, NEW b, IsFiniteSet(a.interests), IsFiniteSet(b.interests)
    PROVE  Overlap(a, b) \in Int
<1>1. LesserOf(Cardinality(a.interests), Cardinality(b.interests)) \in Nat
  BY SharedCounts DEF LesserOf
<1>2. Cardinality(a.interests \cap b.interests) \in Nat
  BY SharedCounts
<1> QED
  BY <1>1, <1>2, ShareIsNumber DEF Overlap

LEMMA SimilarityIsNumber ==
    ASSUME NEW a, NEW b, IsFiniteSet(a.interests), IsFiniteSet(b.interests)
    PROVE  Similarity(a, b) \in Int
<1>1. Share(Cardinality(a.interests \cap b.interests), Cardinality(a.interests \cup b.interests)) \in Int
  BY SharedCounts, ShareIsNumber
<1> QED
  BY <1>1 DEF Similarity

LEMMA WeighedShareIsNumber ==
    ASSUME NEW values, \A i \in DOMAIN values : values[i] \in {0, 30, 60}
    PROVE  WeighedShare(values) \in Int
<1> DEFINE At(i) == IF i \in DOMAIN values THEN Weight(i) ELSE 0
           Of(i) == IF i \in DOMAIN values THEN Weight(i) * values[i] ELSE 0
<1>1. Weight(1) = 6 /\ Weight(2) = 3 /\ Weight(3) = 2
  BY DEF Weight
<1>2. \A i \in {1, 2, 3} : At(i) \in Nat /\ Of(i) \in Nat
  BY <1>1
<1>3. WeighedShare(values) = Share(Of(1) + Of(2) + Of(3), 60 * (At(1) + At(2) + At(3)))
  BY Zenon DEF WeighedShare
<1> HIDE DEF At, Of
<1>4. Of(1) + Of(2) + Of(3) \in Nat /\ 60 * (At(1) + At(2) + At(3)) \in Nat
  BY <1>2
<1> QED
  BY <1>3, <1>4, ShareIsNumber

LEMMA ComplementarityIsNumber ==
    ASSUME NEW a, NEW b, Scorable(a), Scorable(b)
    PROVE  Complementarity(a, b) \in Int
<1>1. /\ Share(Cardinality(Covered(a, b)), Cardinality(a.needs)) \in Int
      /\ Share(Cardinality(Covered(b, a)), Cardinality(b.needs)) \in Int
  <2>1. /\ Cardinality(Covered(a, b)) \in Nat /\ Cardinality(Covered(b, a)) \in Nat
        /\ Cardinality(a.needs) \in Nat /\ Cardinality(b.needs) \in Nat
    BY CoveredCounts, FS_CardinalityType DEF Scorable
  <2> QED
    BY <2>1, ShareIsNumber
<1> QED
  BY <1>1 DEF Complementarity, GreaterOf

LEMMA FocusIsNumber ==
    ASSUME NEW m, NEW a, NEW b
    PROVE  Focus(m, a, b) \in Int
BY DEF Focus, PeerFit, OutsideFit, LearningFit, Half

\* A score is a number: the greedy pick compares any two.
LEMMA UsefulnessIsNumber ==
    ASSUME NEW m \in Modes, NEW a, NEW b, Scorable(a), Scorable(b), NEW novelty \in Int
    PROVE  Usefulness(m, a, b, novelty) \in Int
<1>1. IntentFit(a, b) \in Int
  BY WeighedShareIsNumber DEF IntentFit
<1>2. GoalAlignment(a, b) \in Int
  BY WeighedShareIsNumber DEF GoalAlignment, GoalScore
<1>3. Overlap(a, b) \in Int /\ Complementarity(a, b) \in Int /\ Focus(m, a, b) \in Int
  BY OverlapIsNumber, ComplementarityIsNumber, FocusIsNumber DEF Scorable
<1>4. /\ ModeWeights[m].intent \in Int /\ ModeWeights[m].interest \in Int
      /\ ModeWeights[m].complement \in Int /\ ModeWeights[m].goal \in Int
      /\ ModeWeights[m].focus \in Int /\ ModeWeights[m].novelty \in Int
  BY DEF Modes, ModeWeights
<1> QED
  BY <1>1, <1>2, <1>3, <1>4 DEF Usefulness

LEMMA NoveltyIsNumber ==
    ASSUME NEW b, Scorable(b), NEW shown, IsFiniteSet(shown), \A s \in shown : Scorable(s)
    PROVE  Novelty(b, shown) \in Int
<1> DEFINE Near == {Similarity(b, s) : s \in shown}
           F == [s \in shown |-> Similarity(b, s)]
<1>1. Near \subseteq Int
  BY SimilarityIsNumber DEF Scorable
<1>2. IsFiniteSet(Near)
  <2>1. F \in Surjection(shown, Near)
    BY DEF Surjection
  <2> HIDE DEF F, Near
  <2> QED
    BY <2>1, FS_Surjection
<1>3. IsFiniteSet({0} \cup Near)
  BY <1>2, FS_Singleton, FS_Union
<1>4. Max({0} \cup Near) \in Int
  <2> HIDE DEF Near
  <2>1. {0} \cup Near \subseteq Int /\ {0} \cup Near # {}
    BY <1>1
  <2>2. Max({0} \cup Near) \in {0} \cup Near
    BY <2>1, <1>3, GreatestNumber
  <2> QED
    BY <2>1, <2>2
<1>5. Novelty(b, shown) = 60 - Max({0} \cup Near)
  BY Zenon DEF Novelty
<1> HIDE DEF Near
<1> QED
  BY <1>4, <1>5
-----------------------------------------------------------------------------
(* The greedy ranking *)

\* Whom a ranking may choose from: finitely many with an id of their own each.
Rankable(pool) ==
    /\ IsFiniteSet(pool) /\ \A c \in pool : Scorable(c)
    /\ \A b, c \in pool : b.id = c.id => b = c

\* The pick is one of the pool: of any two, one beats the other, and beating is transitive.
LEMMA PickIsOfPool ==
    ASSUME NEW m \in Modes, NEW a, Scorable(a), NEW pool, Rankable(pool), pool # {},
           NEW shown, IsFiniteSet(shown), \A s \in shown : Scorable(s)
    PROVE  PickOf(m, a, pool, shown) \in pool
<1> DEFINE worth == [b \in pool |-> Usefulness(m, a, b, Novelty(b, shown))]
           Better == {p \in pool \X pool : Beats(worth[p[1]], p[1], worth[p[2]], p[2])}
<1>1. \A b \in pool : worth[b] \in Int /\ b.id \in Nat /\ b.recency \in Nat
  <2> TAKE b \in pool
  <2>1. Scorable(b)
    BY DEF Rankable
  <2>2. Usefulness(m, a, b, Novelty(b, shown)) \in Int
    BY <2>1, NoveltyIsNumber, UsefulnessIsNumber
  <2> QED
    BY <2>1, <2>2 DEF Scorable
<1>2. StrictOrder(Better, pool)
  <2> HIDE DEF worth
  <2>1. \A b \in pool : <<b, b>> \notin Better
    BY <1>1 DEF Beats, TieBreak
  <2>2. \A b, c \in pool : b = c \/ <<b, c>> \in Better \/ <<c, b>> \in Better
    <3> TAKE b, c \in pool
    <3>1. b.id = c.id => b = c
      BY DEF Rankable
    <3> QED
      BY <1>1, <3>1 DEF Beats, TieBreak
  <2>3. \A b, c, d \in pool : <<b, c>> \in Better /\ <<c, d>> \in Better => <<b, d>> \in Better
    BY <1>1 DEF Beats, TieBreak
  <2> HIDE DEF Better
  <2> QED
    BY <2>1, <2>2, <2>3 DEF StrictOrder
<1>3. IsFiniteSet(pool)
  BY DEF Rankable
<1>4. PICK b \in pool : \A c \in pool \ {b} : <<b, c>> \in Better
  <2> HIDE DEF Better
  <2> QED
    BY <1>2, <1>3, FirstInOrder
<1>5. \A c \in pool \ {b} : Beats(worth[b], b, worth[c], c)
  BY <1>4
<1>6. PickOf(m, a, pool, shown) =
        CHOOSE x \in pool : \A c \in pool \ {x} : Beats(worth[x], x, worth[c], c)
  BY Zenon DEF PickOf
<1> HIDE DEF worth
<1> QED
  BY <1>5, <1>6

\* Those at the first n places of a list.
AtFirst(list, n) == {list[j] : j \in 1 .. n}

\* As long as somebody is left the list can be continued.
LEMMA RankingIsContinued ==
    ASSUME NEW m \in Modes, NEW a, Scorable(a), NEW pool, Rankable(pool),
           NEW n \in Nat, n < Cardinality(pool),
           NEW list \in [1 .. n -> pool], IsRanking(list, m, a, pool),
           IsFiniteSet(AtFirst(list, n)), Cardinality(AtFirst(list, n)) <= n
    PROVE  \E longer \in [1 .. n + 1 -> pool] :
              /\ IsRanking(longer, m, a, pool)
              /\ IsFiniteSet(AtFirst(longer, n + 1))
              /\ Cardinality(AtFirst(longer, n + 1)) <= n + 1
<1> DEFINE shown == AtFirst(list, n)
           next == PickOf(m, a, pool \ shown, shown)
           longer == [i \in 1 .. n + 1 |-> IF i = n + 1 THEN next ELSE list[i]]
<1>1. shown \subseteq pool /\ pool \ shown # {}
  <2>1. shown \subseteq pool
    BY DEF AtFirst
  <2>2. Cardinality(shown) <= n /\ Cardinality(pool) \in Nat
    BY FS_CardinalityType DEF Rankable
  <2> HIDE DEF shown
  <2>3. shown # pool
    BY <2>2
  <2> QED
    BY <2>1, <2>3
<1>2. next \in pool
  <2> HIDE DEF shown
  <2>1. Rankable(pool \ shown) /\ IsFiniteSet(shown) /\ \A s \in shown : Scorable(s)
    BY <1>1, FS_Subset DEF Rankable
  <2>2. next \in pool \ shown
    BY <1>1, <2>1, PickIsOfPool
  <2> QED
    BY <2>2
<1>3. longer \in [1 .. n + 1 -> pool] /\ longer[n + 1] = next
  <2> HIDE DEF next
  <2> QED
    BY <1>2
<1>4. \A i \in 1 .. n : longer[i] = list[i]
  BY DEF longer
<1>5. \A i \in 1 .. n + 1 : {longer[j] : j \in 1 .. i - 1} = {list[j] : j \in 1 .. i - 1}
  <2> HIDE DEF longer
  <2> QED
    BY <1>4
<1>6. IsRanking(longer, m, a, pool)
  <2>1. ASSUME NEW i \in 1 .. n + 1
        PROVE  longer[i] = PickOf(m, a, pool \ {longer[j] : j \in 1 .. i - 1}, {longer[j] : j \in 1 .. i - 1})
    <3>1. CASE i = n + 1
      <4> HIDE DEF longer, next
      <4>1. i - 1 = n
        BY <3>1
      <4>2. {longer[j] : j \in 1 .. i - 1} = shown
        BY <1>5, <4>1 DEF AtFirst
      <4>3. longer[i] = next
        BY <1>3, <3>1
      <4>4. longer[i] = PickOf(m, a, pool \ shown, shown)
        BY <4>3 DEF next
      <4> QED
        BY <4>2, <4>4
    <3>2. CASE i # n + 1
      <4>1. i \in 1 .. n /\ longer[i] = list[i]
        BY <3>2, <1>4
      <4>2. list[i] = PickOf(m, a, pool \ {list[j] : j \in 1 .. i - 1}, {list[j] : j \in 1 .. i - 1})
        BY <4>1 DEF IsRanking
      <4> HIDE DEF longer
      <4> QED
        BY <4>1, <4>2, <1>5
    <3> QED
      BY <3>1, <3>2
  <2>2. DOMAIN longer = 1 .. n + 1
    OBVIOUS
  <2> HIDE DEF longer
  <2> QED
    BY <2>1, <2>2, Zenon DEF IsRanking
<1>7. AtFirst(longer, n + 1) = shown \cup {next}
  <2> HIDE DEF longer
  <2>1. 1 .. n + 1 = (1 .. n) \cup {n + 1}
    OBVIOUS
  <2>2. {longer[j] : j \in 1 .. n + 1} = {longer[j] : j \in 1 .. n} \cup {longer[n + 1]}
    BY <2>1
  <2>3. {longer[j] : j \in 1 .. n} = {list[j] : j \in 1 .. n}
    BY <1>4
  <2> QED
    BY <1>3, <2>2, <2>3, Zenon DEF AtFirst
<1>8. IsFiniteSet(shown \cup {next}) /\ Cardinality(shown \cup {next}) <= n + 1
  <2> HIDE DEF shown, next
  <2>1. IsFiniteSet(shown) /\ Cardinality(shown) <= n
    BY DEF shown
  <2>2. PICK k \in Nat : k = Cardinality(shown)
    BY <2>1, FS_CardinalityType
  <2>3. /\ IsFiniteSet(shown \cup {next})
        /\ Cardinality(shown \cup {next}) = IF next \in shown THEN k ELSE k + 1
    BY <2>1, <2>2, FS_AddElement
  <2> QED
    BY <2>1, <2>2, <2>3
<1> HIDE DEF longer, shown, next
<1> QED
  BY <1>3, <1>6, <1>7, <1>8

LEMMA SetInduction ==
    ASSUME NEW S, 0 \in S, \A n \in Nat : n \in S => n + 1 \in S
    PROVE  Nat \subseteq S
<1>1. SUFFICES ASSUME Nat \ S # {} PROVE FALSE
  OBVIOUS
<1>2. PICK x \in Nat \ S : \A y \in Nat \ S : x <= y
  <2> DEFINE T == Nat \ S
  <2>1. T \subseteq Nat /\ T # {}
    BY <1>1
  <2> HIDE DEF T
  <2>2. Min(T) \in T /\ \A y \in T : Min(T) <= y
    BY <2>1, LeastNumber
  <2> QED
    BY <2>2 DEF T
<1>3. x # 0 /\ x - 1 \in Nat /\ x - 1 \in S
  BY <1>2
<1> QED
  BY <1>2, <1>3

LEMMA RankingExists ==
    ASSUME NEW m \in Modes, NEW a, Scorable(a), NEW pool, Rankable(pool),
           NEW n \in Nat, n <= Cardinality(pool)
    PROVE  \E list \in [1 .. n -> pool] : IsRanking(list, m, a, pool)
<1> DEFINE Listed(list, k) == /\ IsRanking(list, m, a, pool)
                              /\ IsFiniteSet(AtFirst(list, k))
                              /\ Cardinality(AtFirst(list, k)) <= k
           Sizes == {k \in Nat : k <= Cardinality(pool) => \E list \in [1 .. k -> pool] : Listed(list, k)}
<1>1. 0 \in Sizes
  <2> DEFINE none == [i \in 1 .. 0 |-> CHOOSE p \in pool : TRUE]
  <2>1. none \in [1 .. 0 -> pool] /\ IsRanking(none, m, a, pool)
    BY DEF IsRanking
  <2>2. AtFirst(none, 0) = {}
    BY DEF AtFirst
  <2> HIDE DEF none
  <2>3. IsFiniteSet(AtFirst(none, 0)) /\ Cardinality(AtFirst(none, 0)) <= 0
    BY <2>2, FS_EmptySet
  <2> QED
    BY <2>1, <2>3 DEF Listed
<1>2. ASSUME NEW k \in Nat, k \in Sizes PROVE k + 1 \in Sizes
  <2> HIDE DEF Listed
  <2> SUFFICES ASSUME k + 1 <= Cardinality(pool)
               PROVE  \E list \in [1 .. k + 1 -> pool] : Listed(list, k + 1)
    OBVIOUS
  <2>1. k < Cardinality(pool) /\ k <= Cardinality(pool)
    BY FS_CardinalityType DEF Rankable
  <2>2. PICK list \in [1 .. k -> pool] : Listed(list, k)
    BY <1>2, <2>1
  <2>3. /\ IsRanking(list, m, a, pool)
        /\ IsFiniteSet(AtFirst(list, k)) /\ Cardinality(AtFirst(list, k)) <= k
    BY <2>2 DEF Listed
  <2>4. \E longer \in [1 .. k + 1 -> pool] :
           /\ IsRanking(longer, m, a, pool)
           /\ IsFiniteSet(AtFirst(longer, k + 1))
           /\ Cardinality(AtFirst(longer, k + 1)) <= k + 1
    BY <2>1, <2>3, RankingIsContinued
  <2> QED
    BY <2>4, Zenon DEF Listed
<1>3. n \in Sizes
  <2> HIDE DEF Sizes
  <2> QED
    BY <1>1, <1>2, SetInduction
<1> QED
  BY <1>3

\* Only candidates are ranked.
LEMMA RankedAreCandidates ==
    ASSUME NEW m \in Modes, NEW a, Scorable(a), NEW candidates, Rankable(candidates),
           NEW limit \in Nat
    PROVE  RankedCandidates(m, a, candidates, limit) \in Seq(candidates)
<1> DEFINE pool == Gated(m, a, candidates)
           size == LesserOf(limit, Cardinality(pool))
<1>1. pool \subseteq candidates
  BY DEF Gated
<1> HIDE DEF pool
<1>2. Rankable(pool) /\ Cardinality(pool) \in Nat
  BY <1>1, FS_Subset, FS_CardinalityType DEF Rankable
<1>3. size \in Nat /\ size <= Cardinality(pool)
  BY <1>2 DEF LesserOf
<1>4. RankedCandidates(m, a, candidates, limit) =
        CHOOSE list \in [1 .. size -> pool] : IsRanking(list, m, a, pool)
  BY Zenon DEF RankedCandidates, pool
<1> HIDE DEF size
<1>5. \E list \in [1 .. size -> pool] : IsRanking(list, m, a, pool)
  BY <1>2, <1>3, RankingExists
<1>6. RankedCandidates(m, a, candidates, limit) \in [1 .. size -> pool]
  BY <1>4, <1>5
<1> QED
  BY <1>1, <1>3, <1>6

-----------------------------------------------------------------------------
(* The recommendations *)

LEMMA MatchingTypesInit == MatchingInit => MatchingTypeOK
BY DEF MatchingInit, MatchingTypeOK, Memberships, Joined, IntroStates

LEMMA MatchingTypesStep == MatchingTypeOK /\ [MatchingNext]_matchingVars => MatchingTypeOK'
<1> SUFFICES ASSUME MatchingTypeOK, [MatchingNext]_matchingVars PROVE MatchingTypeOK'
  OBVIOUS
<1> USE DEF MatchingTypeOK
<1>1. ASSUME NEW p \in Persons, NEW list \in GoalLists, SetGoals(p, list) PROVE MatchingTypeOK'
  BY <1>1 DEF SetGoals, Changed
<1>2. ASSUME NEW p \in Persons, NEW new \in Profiles, EditProfile(p, new) PROVE MatchingTypeOK'
  BY <1>2 DEF EditProfile, Changed
<1>3. ASSUME NEW p \in Persons, EditMembership(p) PROVE MatchingTypeOK'
  <2>1. member' \in [Persons -> Memberships]
    <3>1. ASSUME NEW flag \in {"active", "visible", "matching", "account"},
                 member' = [member EXCEPT ![p][flag] = ~@]
          PROVE  member' \in [Persons -> Memberships]
      <4>1. member[p] \in Memberships
        OBVIOUS
      <4>2. [member[p] EXCEPT ![flag] = ~@] \in Memberships
        BY <4>1 DEF Memberships
      <4> QED
        BY <3>1, <4>2
    <3>2. ASSUME NEW interests \in SUBSET {"hiring", "climate"},
                 member' = [member EXCEPT ![p].interests = interests]
          PROVE  member' \in [Persons -> Memberships]
      <4>1. member[p] \in Memberships
        OBVIOUS
      <4>2. [member[p] EXCEPT !.interests = interests] \in Memberships
        BY <4>1 DEF Memberships
      <4> QED
        BY <3>2, <4>2
    <3> QED
      BY <1>3, <3>1, <3>2 DEF EditMembership
  <2> QED
    BY <1>3, <2>1 DEF EditMembership, Changed
<1>4. ASSUME NEW p \in Persons, BeSeen(p) PROVE MatchingTypeOK'
  BY <1>4 DEF BeSeen, Changed
<1>5. ASSUME NEW p \in Persons, NEW q \in Persons \ {p}, ToggleBlock(p, q) PROVE MatchingTypeOK'
  BY <1>5 DEF ToggleBlock, Changed
<1>6. ASSUME NEW couple \in Couples, MoveIntro(couple) PROVE MatchingTypeOK'
  <2>1. PICK state \in IntroStates : intro' = [intro EXCEPT ![couple] = state]
    BY <1>6 DEF MoveIntro, IntroStates
  <2>2. UNCHANGED <<mode, profile, goals, member, recency, blocks, closed>> /\ changes' = changes + 1
    BY <1>6 DEF MoveIntro, Changed
  <2> QED
    BY <2>1, <2>2
<1>7. CASE Close
  BY <1>7 DEF Close
<1>8. CASE UNCHANGED matchingVars
  BY <1>8 DEF matchingVars
<1> QED
  BY <1>1, <1>2, <1>3, <1>4, <1>5, <1>6, <1>7, <1>8 DEF MatchingNext

LEMMA KindIsFinite ==
    ASSUME NEW ids, IsFiniteSet(ids), NEW kind
    PROVE  IsFiniteSet(OfKind(ids, kind))
<1> DEFINE F == [i \in ids |-> IF (i \in Offers) <=> (kind = "offer") THEN i ELSE ComplementOf(i)]
<1>1. F \in Surjection(ids, OfKind(ids, kind))
  BY DEF OfKind, Surjection
<1> HIDE DEF F
<1> QED
  BY <1>1, FS_Surjection

\* What the ranking gets of each member can be compared.
LEMMA CandidatesAreScorable ==
    ASSUME MatchingTypeOK, NEW p \in Persons
    PROVE  /\ Scorable(Candidate(p)) /\ Candidate(p).id = p
           /\ Scorable(Viewer(p))
<1>1. IsFiniteSet(profile[p].needs) /\ IsFiniteSet(profile[p].interests)
  BY MatchingAssumption DEF MatchingTypeOK
<1>2. IsFiniteSet(OfKind(profile[p].needs, "need"))
  BY <1>1, KindIsFinite
<1>3. IsFiniteSet(Interests(p))
  <2>1. member[p].interests \subseteq {"hiring", "climate"}
    BY DEF MatchingTypeOK, Memberships
  <2>2. IsFiniteSet({"hiring"} \cup {"climate"})
    BY FS_Singleton, FS_Union
  <2>3. IsFiniteSet(member[p].interests)
    BY <2>1, <2>2, FS_Subset
  <2> QED
    BY <1>1, <2>3 DEF Interests
<1>4. /\ Candidate(p).needs = OfKind(profile[p].needs, "need")
      /\ Candidate(p).interests = Interests(p)
      /\ Candidate(p).id = p /\ Candidate(p).recency = recency[p]
  BY DEF Candidate, NormalProfile
<1>5. /\ Viewer(p).needs = OfKind(profile[p].needs, "need")
      /\ Viewer(p).interests = Interests(p)
      /\ Viewer(p).id = p /\ Viewer(p).recency = 0
  BY DEF Viewer, Candidate, NormalProfile
<1>6. recency[p] \in Nat /\ p \in Nat
  BY MatchingAssumption DEF MatchingTypeOK
<1> QED
  BY <1>1, <1>2, <1>3, <1>4, <1>5, <1>6 DEF Scorable

LEMMA RankedAreEligible ==
    ASSUME MatchingTypeOK
    PROVE  Ranked \in Seq({Candidate(q) : q \in Eligible(Me)})
<1> DEFINE candidates == {Candidate(q) : q \in Eligible(Me)}
           F == [q \in Eligible(Me) |-> Candidate(q)]
<1>1. Eligible(Me) \subseteq Persons /\ IsFiniteSet(Eligible(Me))
  BY MatchingAssumption, FS_Subset DEF Eligible
<1>2. IsFiniteSet(candidates)
  <2>1. F \in Surjection(Eligible(Me), candidates)
    BY DEF Surjection
  <2> HIDE DEF F, candidates
  <2> QED
    BY <1>1, <2>1, FS_Surjection
<1>3. Rankable(candidates)
  BY <1>1, <1>2, CandidatesAreScorable DEF Rankable
<1>4. mode \in Modes /\ Scorable(Viewer(Me)) /\ ListLimit \in Nat
  BY CandidatesAreScorable, MatchingAssumption DEF MatchingTypeOK
<1>5. Ranked = RankedCandidates(mode, Viewer(Me), candidates, ListLimit)
  BY DEF Ranked
<1> HIDE DEF candidates
<1>6. Ranked \in Seq(candidates)
  BY <1>3, <1>4, <1>5, RankedAreCandidates
<1> QED
  BY <1>6 DEF candidates

LEMMA TagScoresAreNumbers ==
    ASSUME MatchingTypeOK, NEW p \in Persons, NEW q \in Persons
    PROVE  TagScore(profile[p], profile[q]) \in Int
<1>1. \A r \in Persons : IsFiniteSet(profile[r].wants) /\ IsFiniteSet(profile[r].has)
  BY MatchingAssumption DEF MatchingTypeOK
<1>2. \A r, s \in Persons : Share(Cardinality(profile[r].wants \cap profile[s].has),
                                 Cardinality(profile[r].wants)) \in Int
  <2> TAKE r, s \in Persons
  <2>1. /\ Cardinality(profile[r].wants \cap profile[s].has) \in Nat
        /\ Cardinality(profile[r].wants) \in Nat
    BY <1>1, FS_Subset, FS_CardinalityType
  <2> QED
    BY <2>1, ShareIsNumber
<1> DEFINE ab == Share(Cardinality(profile[p].wants \cap profile[q].has), Cardinality(profile[p].wants))
           ba == Share(Cardinality(profile[q].wants \cap profile[p].has), Cardinality(profile[q].wants))
<1>3. ab \in Int /\ ba \in Int
  BY <1>2
<1>4. TagScore(profile[p], profile[q]) = (6 * LesserOf(ab, ba) + 2 * (ab + ba) + 3) \div 6
  BY Zenon DEF TagScore
<1> HIDE DEF ab, ba
<1> QED
  BY <1>3, <1>4 DEF LesserOf

\* The tag matches are those whose tags fit, one at each place.
LEMMA TagMatchesAreEligible ==
    ASSUME MatchingTypeOK, NEW ranked
    PROVE  TagMatches(ranked) \in Seq(Eligible(Me))
<1> DEFINE fits == Fitting(ranked)
           R == {x \in fits \X fits : Before(x[1], x[2])}
<1>1. fits \subseteq Eligible(Me) /\ fits \subseteq Persons /\ IsFiniteSet(fits)
  BY MatchingAssumption, FS_Subset DEF Fitting, Eligible
<1> HIDE DEF fits
<1>2. \A p \in fits : p \in Nat /\ Pending(p) \in Nat /\ TagScore(profile[Me], profile[p]) \in Int
  <2> TAKE p \in fits
  <2>1. IsFiniteSet(Couples)
    <3>1. IsFiniteSet(SUBSET Persons)
      BY MatchingAssumption, FS_SUBSET
    <3>2. Couples \subseteq SUBSET Persons
      BY DEF Couples
    <3> QED
      BY <3>1, <3>2, FS_Subset
  <2>2. IsFiniteSet({couple \in Couples : p \in couple /\ intro[couple] = "pending"})
    BY <2>1, FS_Subset
  <2>3. Pending(p) \in Nat
    BY <2>2, FS_CardinalityType DEF Pending
  <2> QED
    BY <1>1, <2>3, TagScoresAreNumbers, MatchingAssumption
<1>3. StrictOrder(R, fits)
  <2>1. \A p \in fits : <<p, p>> \notin R
    BY <1>2 DEF Before
  <2>2. \A p, q \in fits : p = q \/ <<p, q>> \in R \/ <<q, p>> \in R
    BY <1>2 DEF Before
  <2>3. \A p, q, r \in fits : <<p, q>> \in R /\ <<q, r>> \in R => <<p, r>> \in R
    BY <1>2 DEF Before
  <2> HIDE DEF R
  <2> QED
    BY <2>1, <2>2, <2>3 DEF StrictOrder
<1>4. \A q \in fits : BeforeIn(R, fits, q) = {p \in fits : Before(p, q)}
  BY DEF BeforeIn
<1>5. ASSUME NEW i \in 1 .. Cardinality(fits)
      PROVE  \E q \in fits : Cardinality({p \in fits : Before(p, q)}) = i - 1
  <2> HIDE DEF R
  <2>1. PICK q \in fits : Cardinality(BeforeIn(R, fits, q)) = i - 1
    BY <1>1, <1>3, EveryRankIsTaken
  <2> QED
    BY <1>4, <2>1
<1>6. TagMatches(ranked) =
        [i \in 1 .. Cardinality(fits) |->
            CHOOSE q \in fits : Cardinality({p \in fits : Before(p, q)}) = i - 1]
  BY Zenon DEF TagMatches, fits
<1>7. ASSUME NEW i \in 1 .. Cardinality(fits)
      PROVE  (CHOOSE q \in fits : Cardinality({p \in fits : Before(p, q)}) = i - 1) \in fits
  BY <1>5
<1>8. TagMatches(ranked) \in [1 .. Cardinality(fits) -> Eligible(Me)]
  BY <1>1, <1>6, <1>7
<1>9. Cardinality(fits) \in Nat
  BY <1>1, FS_CardinalityType
<1> QED
  BY <1>8, <1>9

LEMMA RecommendedAreEligible ==
    ASSUME MatchingTypeOK
    PROVE  Recommended \in Seq(Eligible(Me))
<1> DEFINE ranked == Ranked
           first == [i \in DOMAIN ranked |-> ranked[i].id]
           list == first \o TagMatches(ranked)
<1>1. first \in Seq(Eligible(Me))
  <2>1. PICK n \in Nat : ranked \in [1 .. n -> {Candidate(q) : q \in Eligible(Me)}]
    BY RankedAreEligible
  <2>2. ASSUME NEW i \in 1 .. n PROVE ranked[i].id \in Eligible(Me)
    <3>1. PICK q \in Eligible(Me) : ranked[i] = Candidate(q)
      BY <2>1
    <3>2. Candidate(q).id = q
      BY CandidatesAreScorable DEF Eligible
    <3> QED
      BY <3>1, <3>2
  <2>3. first \in [1 .. n -> Eligible(Me)]
    BY <2>1, <2>2
  <2> HIDE DEF first
  <2> QED
    BY <2>3
<1>2. list \in Seq(Eligible(Me))
  <2> HIDE DEF first, ranked
  <2> QED
    BY <1>1, TagMatchesAreEligible
<1>3. Recommended = SubSeq(list, 1, LesserOf(ListLimit, Len(list)))
  BY Zenon DEF Recommended
<1> HIDE DEF list
<1> QED
  BY <1>2, <1>3, MatchingAssumption DEF LesserOf

\* Nobody is recommended whom the open directory does not show, whatever the profiles, goals,
\* blocks and memberships, and however many are listed.
THEOREM RecommendedFromDirectory == MatchingSpec => []RecommendedAreListed
<1>1. MatchingTypeOK => RecommendedAreListed
  <2> SUFFICES ASSUME MatchingTypeOK, ~closed, NEW q \in Range(Recommended)
               PROVE  q \in Directory(Me)
    BY DEF RecommendedAreListed
  <2>1. q \in Eligible(Me)
    BY RecommendedAreEligible DEF Range
  <2> QED
    BY <2>1 DEF Eligible, Directory, HiddenFrom
<1> QED
  BY <1>1, MatchingTypesInit, MatchingTypesStep, PTL DEF MatchingSpec
-----------------------------------------------------------------------------
(* The reasons *)

Codes == {"goal_advanced", "need_covered", "mutual_needs", "shared_interests",
          "complementary_functions", "same_context", "can_teach", "wants_your_help",
          "different_context", "outside_circle"}

LEMMA EachIsLine ==
    ASSUME NEW s, IsFiniteSet(s), NEW code \in Codes
    PROVE  Each(s, code) \in Seq(Codes)
<1>1. PICK n \in Nat : n = Cardinality(s)
  BY FS_CardinalityType
<1>2. Each(s, code) = [i \in 1 .. n |-> code]
  BY <1>1 DEF Each
<1> QED
  BY <1>2

LEMMA IfIsLine ==
    ASSUME NEW condition, NEW code \in Codes
    PROVE  If(condition, code) \in Seq(Codes)
<1>1. If(condition, code) = <<code>> \/ If(condition, code) = <<>>
  BY Zenon DEF If
<1>2. <<code>> \in Seq(Codes) /\ <<>> \in Seq(Codes)
  OBVIOUS
<1> QED
  BY <1>1, <1>2, Zenon

\* A line shows something of any codes there are.
LEMMA LineShows ==
    ASSUME NEW codes \in Seq(Codes), Len(codes) > 0
    PROVE  Line(codes) # <<>>
<1>1. LesserOf(3, Len(codes)) \in 1 .. Len(codes)
  BY DEF LesserOf
<1>2. Len(Line(codes)) = LesserOf(3, Len(codes))
  BY <1>1 DEF Line
<1> QED
  BY <1>1, <1>2

\* Two people who share no context are told so; two who do have that for a reason.
LEMMA AnyPairHasReasons ==
    ASSUME NEW a, NEW b, IsFiniteSet(a.needs), IsFiniteSet(b.needs), IsFiniteSet(DOMAIN a.goals)
    PROVE  UsefulReasons(a, b) # <<>> \/ GrowthReasons(a, b) # <<>>
<1>1. IsFiniteSet(Covered(a, b)) /\ IsFiniteSet(Covered(b, a))
  BY CoveredCounts
<1> DEFINE useful == Each({i \in DOMAIN a.goals : GoalScore(a.goals[i], b) = 60}, "goal_advanced")
                     \o Each(Covered(a, b), "need_covered") \o Each(Covered(b, a), "mutual_needs")
                     \o If(a.interests \cap b.interests # {}, "shared_interests")
                     \o If(Pairs(UsefulFunctions, a, b), "complementary_functions")
                     \o If(SameIndustry(a, b) \/ SameFunction(a, b), "same_context")
           growth == Each(b.offers \cap TeachingOffers, "can_teach")
                     \o Each({n \in Covered(b, a) : n \in HelpableNeeds}, "wants_your_help")
                     \o LastReason(a, b)
<1>2. UsefulReasons(a, b) = Line(useful) /\ GrowthReasons(a, b) = Line(growth)
  BY Zenon DEF UsefulReasons, GrowthReasons
<1>3. CASE FunctionMatch(a, b) \/ SameIndustry(a, b)
  <2> DEFINE before == Each({i \in DOMAIN a.goals : GoalScore(a.goals[i], b) = 60}, "goal_advanced")
                       \o Each(Covered(a, b), "need_covered") \o Each(Covered(b, a), "mutual_needs")
                       \o If(a.interests \cap b.interests # {}, "shared_interests")
             functions == If(Pairs(UsefulFunctions, a, b), "complementary_functions")
             context == If(SameIndustry(a, b) \/ SameFunction(a, b), "same_context")
  <2>1. before \in Seq(Codes)
    <3>1. IsFiniteSet({i \in DOMAIN a.goals : GoalScore(a.goals[i], b) = 60})
      BY FS_Subset
    <3>2. /\ Each({i \in DOMAIN a.goals : GoalScore(a.goals[i], b) = 60}, "goal_advanced") \in Seq(Codes)
          /\ Each(Covered(a, b), "need_covered") \in Seq(Codes)
          /\ Each(Covered(b, a), "mutual_needs") \in Seq(Codes)
          /\ If(a.interests \cap b.interests # {}, "shared_interests") \in Seq(Codes)
      BY <1>1, <3>1, EachIsLine, IfIsLine DEF Codes
    <3> QED
      BY <3>2
  <2>2. functions \in Seq(Codes) /\ context \in Seq(Codes)
    BY IfIsLine DEF Codes
  <2>3. Len(functions) = 1 \/ Len(context) = 1
    <3>1. Pairs(UsefulFunctions, a, b) \/ SameIndustry(a, b) \/ SameFunction(a, b)
      BY <1>3 DEF FunctionMatch
    <3>2. functions = <<"complementary_functions">> \/ context = <<"same_context">>
      BY <3>1, Zenon DEF If
    <3> HIDE DEF functions, context
    <3> QED
      BY <3>2
  <2>4. useful = before \o functions \o context
    OBVIOUS
  <2> HIDE DEF before, functions, context, useful
  <2>5. useful \in Seq(Codes) /\ Len(useful) > 0
    BY <2>1, <2>2, <2>3, <2>4
  <2> QED
    BY <1>2, <2>5, LineShows
<1>4. CASE ~FunctionMatch(a, b) /\ ~SameIndustry(a, b)
  <2> DEFINE before == Each(b.offers \cap TeachingOffers, "can_teach")
                       \o Each({n \in Covered(b, a) : n \in HelpableNeeds}, "wants_your_help")
  <2>1. before \in Seq(Codes)
    <3>1. IsFiniteSet(b.offers \cap TeachingOffers)
      BY FS_Singleton, FS_Subset DEF TeachingOffers
    <3>2. IsFiniteSet({n \in Covered(b, a) : n \in HelpableNeeds})
      BY <1>1, FS_Subset
    <3>3. /\ Each(b.offers \cap TeachingOffers, "can_teach") \in Seq(Codes)
          /\ Each({n \in Covered(b, a) : n \in HelpableNeeds}, "wants_your_help") \in Seq(Codes)
      BY <3>1, <3>2, EachIsLine DEF Codes
    <3> QED
      BY <3>3
  <2>2. LastReason(a, b) \in Seq(Codes) /\ Len(LastReason(a, b)) = 1
    <3>1. LastReason(a, b) = <<"different_context">> \/ LastReason(a, b) = <<"outside_circle">>
      BY <1>4, Zenon DEF LastReason, If
    <3>2. /\ <<"different_context">> \in Seq(Codes) /\ <<"outside_circle">> \in Seq(Codes)
          /\ Len(<<"different_context">>) = 1 /\ Len(<<"outside_circle">>) = 1
      BY DEF Codes
    <3> QED
      BY <3>1, <3>2, Zenon
  <2>3. growth = before \o LastReason(a, b)
    OBVIOUS
  <2> HIDE DEF before, growth
  <2>4. PICK last \in Seq(Codes) : last = LastReason(a, b) /\ Len(last) = 1
    BY <2>2
  <2>5. growth = before \o last
    BY <2>3, <2>4
  <2>6. growth \in Seq(Codes) /\ Len(growth) > 0
    <3>1. PICK first \in Seq(Codes) : first = before
      BY <2>1
    <3>2. growth = first \o last
      BY <2>5, <3>1
    <3>3. first \o last \in Seq(Codes) /\ Len(first \o last) = Len(first) + Len(last)
      OBVIOUS
    <3>4. Len(first) \in Nat
      OBVIOUS
    <3> QED
      BY <2>4, <3>2, <3>3, <3>4
  <2> QED
    BY <1>2, <2>6, LineShows
<1> QED
  BY <1>3, <1>4

\* Whoever the ranking lets through, in whatever mode, comes with a reason: the gates, the
\* scores and the two lines of reasons agree for any profiles and goals.
THEOREM PicksComeWithReasons == MatchingSpec => []PicksExplained
<1>1. MatchingTypeOK => PicksExplained
  <2> SUFFICES ASSUME MatchingTypeOK, NEW c \in Range(Ranked)
               PROVE  UsefulReasons(Viewer(Me), c) # <<>> \/ GrowthReasons(Viewer(Me), c) # <<>>
    BY Zenon DEF PicksExplained
  <2>1. PICK q \in Eligible(Me) : c = Candidate(q)
    BY RankedAreEligible DEF Range
  <2>2. IsFiniteSet(c.needs) /\ IsFiniteSet(Viewer(Me).needs)
    BY <2>1, CandidatesAreScorable, MatchingAssumption DEF Eligible, Scorable
  <2>3. Viewer(Me).goals = goals[Me]
    BY DEF Viewer, Candidate
  <2>4. IsFiniteSet(DOMAIN goals[Me])
    <3>1. goals[Me] \in GoalLists \/ goals[Me] = <<>>
      BY MatchingAssumption DEF MatchingTypeOK
    <3>2. DOMAIN <<>> = {}
      OBVIOUS
    <3> QED
      BY <3>1, <3>2, FS_EmptySet, MatchingAssumption
  <2> QED
    BY <2>2, <2>3, <2>4, AnyPairHasReasons
<1> QED
  BY <1>1, MatchingTypesInit, MatchingTypesStep, PTL DEF MatchingSpec

-----------------------------------------------------------------------------
(* Lists by their places *)

Less == {p \in Nat \X Nat : p[1] < p[2]}

\* The places of a list have a first, a second and so on, and each is one of these.
LEMMA PlacesInOrder ==
    ASSUME NEW n \in Nat, NEW places \in SUBSET (1 .. n)
    PROVE  /\ IsFiniteSet(places) /\ Cardinality(places) \in Nat /\ Cardinality(places) <= n
           /\ \A i \in 1 .. Cardinality(places) :
                 /\ PlaceAt(places, i) \in places
                 /\ Cardinality({j \in places : j < PlaceAt(places, i)}) = i - 1
           /\ \A k \in places : \E i \in 1 .. Cardinality(places) : PlaceAt(places, i) = k
<1>1. IsFiniteSet(places) /\ Cardinality(places) \in Nat /\ Cardinality(places) <= n
  <2>1. IsFiniteSet(1 .. n) /\ Cardinality(1 .. n) = n
    BY FS_Interval
  <2> QED
    BY <2>1, FS_Subset, FS_CardinalityType
<1>2. StrictOrder(Less, places)
  BY DEF StrictOrder, Less
<1>3. \A k \in places : BeforeIn(Less, places, k) = {j \in places : j < k}
  <2> TAKE k \in places
  <2>1. \A j \in places : <<j, k>> \in Less <=> j < k
    BY DEF Less
  <2> QED
    BY <2>1 DEF BeforeIn
<1>4. ASSUME NEW i \in 1 .. Cardinality(places)
      PROVE  /\ PlaceAt(places, i) \in places
             /\ Cardinality({j \in places : j < PlaceAt(places, i)}) = i - 1
  <2>1. PICK k \in places : Cardinality(BeforeIn(Less, places, k)) = i - 1
    BY <1>1, <1>2, EveryRankIsTaken
  <2>2. Cardinality({j \in places : j < k}) = i - 1
    BY <1>3, <2>1
  <2> QED
    BY <2>2 DEF PlaceAt
<1>5. ASSUME NEW k \in places PROVE \E i \in 1 .. Cardinality(places) : PlaceAt(places, i) = k
  <2>1. PICK r \in Nat : r = Cardinality({j \in places : j < k})
    BY <1>1, <1>3, <1>2, FewerBefore
  <2>2. r + 1 \in 1 .. Cardinality(places)
    <3>1. {j \in places : j < k} \subseteq places /\ {j \in places : j < k} # places
      OBVIOUS
    <3>2. r <= Cardinality(places) /\ r # Cardinality(places)
      BY <1>1, <2>1, <3>1, FS_Subset
    <3> QED
      BY <1>1, <3>2
  <2> DEFINE l == PlaceAt(places, r + 1)
  <2>3. l \in places /\ Cardinality({j \in places : j < l}) = r
    BY <1>4, <2>2
  <2> HIDE DEF l
  <2>4. Cardinality(BeforeIn(Less, places, l)) = r /\ Cardinality(BeforeIn(Less, places, k)) = r
    BY <1>3, <2>1, <2>3
  <2>5. ~(<<l, k>> \in Less) /\ ~(<<k, l>> \in Less)
    BY <1>1, <1>2, <2>3, <2>4, FewerBefore
  <2>6. l = k
    BY <2>3, <2>5, <1>2 DEF StrictOrder
  <2> QED
    BY <2>2, <2>6 DEF l
<1> QED
  BY <1>1, <1>4, <1>5

\* What a list has at some places.
LEMMA AtPlacesIsList ==
    ASSUME NEW S, NEW list \in Seq(S), NEW places \in SUBSET DOMAIN list
    PROVE  /\ AtPlaces(list, places) \in Seq(S)
           /\ Len(AtPlaces(list, places)) = Cardinality(places)
           /\ Len(AtPlaces(list, places)) <= Len(list)
           /\ \A i \in DOMAIN AtPlaces(list, places) :
                 /\ PlaceAt(places, i) \in places
                 /\ AtPlaces(list, places)[i] = list[PlaceAt(places, i)]
<1>1. PICK n \in Nat : n = Len(list) /\ list \in [1 .. n -> S]
  OBVIOUS
<1>2. places \in SUBSET (1 .. n)
  BY <1>1
<1>3. PICK m \in Nat : m = Cardinality(places) /\ m <= n
  BY <1>2, PlacesInOrder
<1>4. \A i \in 1 .. m : PlaceAt(places, i) \in places
  BY <1>2, <1>3, PlacesInOrder
<1>5. AtPlaces(list, places) = [i \in 1 .. m |-> list[PlaceAt(places, i)]]
  BY <1>3 DEF AtPlaces
<1>6. AtPlaces(list, places) \in [1 .. m -> S]
  BY <1>1, <1>2, <1>4, <1>5
<1>7. /\ AtPlaces(list, places) \in Seq(S) /\ Len(AtPlaces(list, places)) = m
      /\ DOMAIN AtPlaces(list, places) = 1 .. m
  BY <1>6
<1>8. \A i \in 1 .. m : AtPlaces(list, places)[i] = list[PlaceAt(places, i)]
  BY <1>5
<1> QED
  BY <1>1, <1>3, <1>4, <1>7, <1>8

\* All places are the list itself.
LEMMA AllPlaces ==
    ASSUME NEW S, NEW list \in Seq(S)
    PROVE  AtPlaces(list, DOMAIN list) = list
<1>1. PICK n \in Nat : n = Len(list) /\ list \in [1 .. n -> S]
  OBVIOUS
<1>2. Cardinality(1 .. n) = n
  BY FS_Interval
<1>3. ASSUME NEW i \in 1 .. n PROVE PlaceAt(1 .. n, i) = i
  <2> DEFINE k == PlaceAt(1 .. n, i)
  <2>1. k \in 1 .. n /\ Cardinality({j \in 1 .. n : j < k}) = i - 1
    BY <1>2, PlacesInOrder
  <2> HIDE DEF k
  <2>2. {j \in 1 .. n : j < k} = 1 .. k - 1
    BY <2>1
  <2>3. Cardinality(1 .. k - 1) = k - 1
    BY <2>1, FS_Interval
  <2>4. k - 1 = i - 1
    BY <2>1, <2>2, <2>3
  <2>5. k = i
    BY <2>1, <2>4
  <2> QED
    BY <2>5 DEF k
<1>4. AtPlaces(list, DOMAIN list) = [i \in 1 .. n |-> list[PlaceAt(1 .. n, i)]]
  BY <1>1, <1>2 DEF AtPlaces
<1> QED
  BY <1>1, <1>3, <1>4

Distinct(list) == \A i, j \in DOMAIN list : list[i] = list[j] => i = j

\* Different places of the result are different places of the list.
LEMMA PlacesDiffer ==
    ASSUME NEW S, NEW list \in Seq(S), NEW places \in SUBSET DOMAIN list,
           \A k, l \in places : list[k] = list[l] => k = l
    PROVE  Distinct(AtPlaces(list, places))
<1> DEFINE picked == AtPlaces(list, places)
<1> SUFFICES ASSUME NEW i \in DOMAIN picked, NEW j \in DOMAIN picked, picked[i] = picked[j]
             PROVE  i = j
  BY DEF Distinct
<1>1. PICK n \in Nat : n = Len(list) /\ places \in SUBSET (1 .. n)
  OBVIOUS
<1>2. i \in 1 .. Cardinality(places) /\ j \in 1 .. Cardinality(places)
  BY DEF AtPlaces
<1>3. PlaceAt(places, i) = PlaceAt(places, j)
  BY AtPlacesIsList
<1>4. /\ Cardinality({k \in places : k < PlaceAt(places, i)}) = i - 1
      /\ Cardinality({k \in places : k < PlaceAt(places, j)}) = j - 1
  BY <1>1, <1>2, PlacesInOrder
<1>5. i \in Nat /\ j \in Nat
  BY <1>2
<1> QED
  BY <1>3, <1>4, <1>5

LEMMA DedupeFacts ==
    ASSUME NEW S, NEW list \in Seq(S)
    PROVE  /\ Dedupe(list) \in Seq(S) /\ Distinct(Dedupe(list)) /\ Len(Dedupe(list)) <= Len(list)
           /\ Distinct(list) => Dedupe(list) = list
<1> DEFINE first == {i \in DOMAIN list : \A j \in 1 .. i - 1 : list[j] # list[i]}
<1>1. first \in SUBSET DOMAIN list /\ Dedupe(list) = AtPlaces(list, first)
  BY DEF Dedupe
<1>2. \A k, l \in first : list[k] = list[l] => k = l
  <2> SUFFICES ASSUME NEW k \in first, NEW l \in first, k < l, list[k] = list[l] PROVE FALSE
    OBVIOUS
  <2>1. k \in 1 .. l - 1
    OBVIOUS
  <2> QED
    BY <2>1
<1>3. Distinct(list) => first = DOMAIN list
  <2> SUFFICES ASSUME Distinct(list), NEW i \in DOMAIN list, NEW j \in 1 .. i - 1
               PROVE  list[j] # list[i]
    OBVIOUS
  <2>1. j \in DOMAIN list /\ j # i
    OBVIOUS
  <2> QED
    BY <2>1 DEF Distinct
<1> HIDE DEF first
<1>4. AtPlaces(list, first) \in Seq(S) /\ Len(AtPlaces(list, first)) <= Len(list)
  BY <1>1, AtPlacesIsList
<1>5. Distinct(AtPlaces(list, first))
  BY <1>1, <1>2, PlacesDiffer
<1> QED
  BY <1>1, <1>3, <1>4, <1>5, AllPlaces

LEMMA AmongFacts ==
    ASSUME NEW S, NEW list \in Seq(S), NEW T
    PROVE  /\ Among(list, T) \in Seq(S \cap T) /\ Len(Among(list, T)) <= Len(list)
           /\ Distinct(list) => Distinct(Among(list, T))
           /\ Range(list) \subseteq T => Among(list, T) = list
<1> DEFINE in == {i \in DOMAIN list : list[i] \in T}
<1>1. in \in SUBSET DOMAIN list /\ Among(list, T) = AtPlaces(list, in)
  BY DEF Among
<1>2. Among(list, T) \in Seq(S \cap T)
  <2> DEFINE picked == AtPlaces(list, in)
  <2> HIDE DEF in
  <2>0. /\ picked \in Seq(S)
        /\ \A i \in DOMAIN picked : PlaceAt(in, i) \in in /\ picked[i] = list[PlaceAt(in, i)]
    BY <1>1, AtPlacesIsList
  <2> HIDE DEF picked
  <2>1. PICK m \in Nat : picked \in [1 .. m -> S]
    BY <2>0
  <2>2. \A i \in 1 .. m : picked[i] \in T
    BY <2>0, <2>1 DEF in
  <2>3. picked \in [1 .. m -> S \cap T]
    BY <2>1, <2>2
  <2> QED
    BY <1>1, <2>3 DEF picked
<1>3. Distinct(list) => Distinct(Among(list, T))
  BY <1>1, PlacesDiffer DEF Distinct
<1>4. Range(list) \subseteq T => in = DOMAIN list
  BY DEF Range
<1> HIDE DEF in
<1> QED
  BY <1>1, <1>2, <1>3, <1>4, AtPlacesIsList, AllPlaces

LEMMA FirstOfFacts ==
    ASSUME NEW S, NEW list \in Seq(S), NEW n \in Nat
    PROVE  /\ FirstOf(list, n) \in Seq(S) /\ Len(FirstOf(list, n)) <= n
           /\ Distinct(list) => Distinct(FirstOf(list, n))
<1> DEFINE m == IF n < Len(list) THEN n ELSE Len(list)
<1>1. m \in 0 .. Len(list) /\ m <= n /\ FirstOf(list, n) = SubSeq(list, 1, m)
  BY DEF FirstOf
<1> HIDE DEF m
<1>2. /\ SubSeq(list, 1, m) \in Seq(S) /\ Len(SubSeq(list, 1, m)) = m
      /\ \A i \in 1 .. m : SubSeq(list, 1, m)[i] = list[i]
  BY <1>1
<1> QED
  BY <1>1, <1>2 DEF Distinct

LEMMA ItemsOf ==
    ASSUME NEW S, NEW list \in Seq(S)
    PROVE  (\A i \in DOMAIN list : list[i] \in S) /\ Range(list) \subseteq S
BY DEF Range

LEMMA ListOf ==
    ASSUME NEW S, NEW T, NEW list \in Seq(S), Range(list) \subseteq T
    PROVE  list \in Seq(T)
<1>1. PICK n \in Nat : list \in [1 .. n -> S]
  OBVIOUS
<1>2. \A i \in 1 .. n : list[i] \in T
  BY <1>1 DEF Range
<1> QED
  BY <1>1, <1>2

-----------------------------------------------------------------------------
(* Words *)

\* Words that normalising leaves as they are, and those a picker takes.
PlainWords == {w \in Words : Plain(w) = w /\ w # "" /\ ~TooLong(w)}
TakenWords == {w \in Words : w # "  " /\ ~TooLong(w)}

IdLists == {l \in Seq(InterestIds) : Distinct(l) /\ Len(l) <= MaxInterests}
WordLists == {l \in Seq(PlainWords) : Distinct(l) /\ Len(l) <= MaxKeywords}
TakenLists == {l \in Seq(TakenWords) : Len(l) <= MaxKeywords}

LEMMA IdsAre == InterestIds = {"climate", "edtech", "fintech"}
BY DEF InterestIds, InterestOrder, Range

LEMMA WordsAre ==
    Words = {"climate", "edtech", "fintech", "Klima", "own word", "own  word", "  ",
             "some very long words", "some very long"}
BY IdsAre DEF Words, AliasOf

LEMMA WordFacts ==
    /\ \A id \in InterestIds : NormalizeInterest(id) = id /\ id # Unknown
    /\ \A w \in Words : NormalizeInterest(w) \in InterestIds \cup {Unknown}
    /\ \A w \in Words : Plain(w) # "" => Plain(w) \in Words
    /\ \A w \in Words : Plain(w) # "" /\ ~TooLong(Plain(w)) => Plain(w) \in PlainWords
    /\ \A w \in Words : Plain(w) # "" => Cut(Plain(w)) \in PlainWords
    /\ \A w \in TakenWords : Plain(w) \in PlainWords
    /\ PlainWords \subseteq TakenWords
<1>1. \A w \in Words : w = "own  word" \/ w = "  " \/ Plain(w) = w
  BY DEF Plain
<1>2. Plain("own  word") = "own word" /\ Plain("  ") = "" /\ Plain("own word") = "own word"
  BY DEF Plain
<1>3. \A id \in InterestIds : NormalizeInterest(id) = id /\ id # Unknown
  BY IdsAre DEF NormalizeInterest, Plain, Unknown, AliasOf
<1>4. \A w \in Words : NormalizeInterest(w) \in InterestIds \cup {Unknown}
  BY IdsAre DEF NormalizeInterest, AliasOf
<1>5. \A w \in Words : Plain(w) # "" => Plain(w) \in Words
  BY <1>1, <1>2, WordsAre
<1>6. \A w \in Words : Plain(w) # "" /\ ~TooLong(Plain(w)) => Plain(w) \in PlainWords
  BY <1>1, <1>2, WordsAre DEF PlainWords, TooLong
<1>7. \A w \in Words : Plain(w) # "" => Cut(Plain(w)) \in PlainWords
  BY <1>1, <1>2, <1>6, WordsAre DEF Cut, PlainWords, TooLong
<1>8. \A w \in TakenWords : Plain(w) \in PlainWords
  BY <1>1, <1>2, <1>6, WordsAre DEF TakenWords, TooLong
<1>9. PlainWords \subseteq TakenWords
  BY <1>2 DEF PlainWords, TakenWords
<1> QED
  BY <1>3, <1>4, <1>5, <1>6, <1>7, <1>8, <1>9

\* The API takes a list of ids as it is ...
LEMMA IdsAccepted ==
    ASSUME NEW l \in IdLists
    PROVE  ValidateInterests(l) = Accepted(l)
<1> DEFINE ids == [i \in DOMAIN l |-> NormalizeInterest(l[i])]
<1>1. l \in Seq(InterestIds) /\ Distinct(l) /\ Len(l) <= MaxInterests
  BY DEF IdLists
<1>2. ids = l
  <2>1. \A i \in DOMAIN l : NormalizeInterest(l[i]) = l[i]
    BY <1>1, ItemsOf, WordFacts
  <2> QED
    BY <1>1, <2>1
<1>3. Unknown \notin Range(ids)
  <2>1. Range(l) \subseteq InterestIds /\ Unknown \notin InterestIds
    BY <1>1, ItemsOf, WordFacts
  <2> QED
    BY <1>2, <2>1
<1>4. Dedupe(l) = l
  BY <1>1, DedupeFacts
<1>5. ValidateInterests(l) =
        IF Unknown \in Range(ids) THEN Refused ELSE WithinLimit(Dedupe(ids), MaxInterests)
  BY Zenon DEF ValidateInterests
<1> HIDE DEF ids
<1> QED
  BY <1>1, <1>2, <1>3, <1>4, <1>5, BackfillAssumption DEF WithinLimit

\* ... and what it takes as it is, is such a list.
LEMMA AcceptedIds ==
    ASSUME NEW l \in Seq(InterestIds), ValidateInterests(l) = Accepted(l)
    PROVE  l \in IdLists
<1> DEFINE ids == [i \in DOMAIN l |-> NormalizeInterest(l[i])]
<1>1. ids = l
  <2>1. \A i \in DOMAIN l : NormalizeInterest(l[i]) = l[i]
    BY ItemsOf, WordFacts
  <2> QED
    BY <2>1
<1>2. ValidateInterests(l) =
        IF Unknown \in Range(ids) THEN Refused ELSE WithinLimit(Dedupe(ids), MaxInterests)
  BY Zenon DEF ValidateInterests
<1> HIDE DEF ids
<1>3. Refused # Accepted(l)
  BY DEF Refused, Accepted
<1>4. WithinLimit(Dedupe(l), MaxInterests) = Accepted(l)
  BY <1>1, <1>2, <1>3
<1>5. Accepted(Dedupe(l)) = Accepted(l) /\ ~(Len(Dedupe(l)) > MaxInterests)
  BY <1>3, <1>4 DEF WithinLimit
<1>6. Dedupe(l) = l
  BY <1>5 DEF Accepted
<1> QED
  BY <1>5, <1>6, DedupeFacts, BackfillAssumption DEF IdLists

\* What the API makes of a list of words.
Keys(l) ==
    LET plain == [i \in DOMAIN l |-> Plain(l[i])] IN Among(plain, Range(plain) \ {""})

LEMMA KeywordsAre ==
    ASSUME NEW l
    PROVE  ValidateKeywords(l) = IF \E key \in Range(Keys(l)) : TooLong(key) THEN Refused
                                 ELSE WithinLimit(Dedupe(Keys(l)), MaxKeywords)
BY Zenon DEF ValidateKeywords, Keys

LEMMA KeysFacts ==
    ASSUME NEW l \in Seq(Words)
    PROVE  /\ Keys(l) \in Seq(Words) /\ Len(Keys(l)) <= Len(l)
           /\ (\A key \in Range(Keys(l)) : ~TooLong(key)) => Keys(l) \in Seq(PlainWords)
           /\ l \in Seq(TakenWords) => Keys(l) \in Seq(PlainWords)
           /\ l \in Seq(PlainWords) => Keys(l) = l
<1> DEFINE plain == [i \in DOMAIN l |-> Plain(l[i])]
           PlainOfWords == {Plain(w) : w \in Words}
           nonempty == Range(plain) \ {""}
<1>1. plain \in Seq(PlainOfWords) /\ Len(plain) = Len(l) /\ DOMAIN plain = DOMAIN l
  OBVIOUS
<1>2. Keys(l) = Among(plain, nonempty)
  BY Zenon DEF Keys
<1>3. Keys(l) \in Seq(PlainOfWords \cap nonempty) /\ Len(Keys(l)) <= Len(l)
  <2> HIDE DEF plain, nonempty, PlainOfWords
  <2> QED
    BY <1>1, <1>2, AmongFacts
<1>4. Keys(l) \in Seq(Words)
  <2>1. \A w \in Words : Plain(w) # "" => Plain(w) \in Words
    BY WordFacts
  <2>2. PlainOfWords \cap nonempty \subseteq Words
    BY <2>1
  <2> HIDE DEF nonempty, PlainOfWords
  <2> QED
    BY <1>3, <2>2, ItemsOf, ListOf
<1>5. ASSUME \A key \in Range(Keys(l)) : ~TooLong(key) PROVE Keys(l) \in Seq(PlainWords)
  <2>1. Range(Keys(l)) \subseteq PlainOfWords \cap nonempty
    <3> HIDE DEF nonempty, PlainOfWords
    <3> QED
      BY <1>3, ItemsOf
  <2>2. \A w \in Words : Plain(w) # "" /\ ~TooLong(Plain(w)) => Plain(w) \in PlainWords
    BY WordFacts
  <2>3. Range(Keys(l)) \subseteq PlainWords
    <3> SUFFICES ASSUME NEW key \in Range(Keys(l)) PROVE key \in PlainWords
      OBVIOUS
    <3>1. PICK w \in Words : key = Plain(w) /\ key # ""
      BY <2>1
    <3> QED
      BY <1>5, <2>2, <3>1
  <2> QED
    BY <1>4, <2>3, ListOf
<1>6. ASSUME l \in Seq(TakenWords) PROVE Keys(l) \in Seq(PlainWords)
  <2>1. \A i \in DOMAIN l : Plain(l[i]) \in PlainWords
    BY <1>6, ItemsOf, WordFacts
  <2>2. Range(plain) \subseteq PlainWords
    BY <2>1 DEF Range
  <2>3. Range(Keys(l)) \subseteq nonempty
    <3> HIDE DEF nonempty, PlainOfWords
    <3> QED
      BY <1>3, ItemsOf
  <2> HIDE DEF plain
  <2>4. Range(Keys(l)) \subseteq PlainWords
    BY <2>2, <2>3
  <2> QED
    BY <1>4, <2>4, ListOf
<1>7. ASSUME l \in Seq(PlainWords) PROVE Keys(l) = l
  <2>1. \A i \in DOMAIN l : l[i] \in PlainWords
    BY <1>7, ItemsOf
  <2>2. \A i \in DOMAIN l : Plain(l[i]) = l[i] /\ l[i] # ""
    BY <2>1 DEF PlainWords
  <2>3. plain = l
    <3>1. l = [i \in DOMAIN l |-> l[i]]
      BY <1>7
    <3> QED
      BY <2>2, <3>1
  <2>4. Range(l) \subseteq Range(l) \ {""}
    BY <2>2 DEF Range
  <2> HIDE DEF plain
  <2> QED
    BY <1>2, <2>3, <2>4, AmongFacts
<1> QED
  BY <1>3, <1>4, <1>5, <1>6, <1>7

LEMMA WordsAccepted ==
    ASSUME NEW l \in WordLists
    PROVE  ValidateKeywords(l) = Accepted(l)
<1>1. l \in Seq(PlainWords) /\ Distinct(l) /\ Len(l) <= MaxKeywords
  BY DEF WordLists
<1>2. l \in Seq(Words) /\ \A key \in Range(l) : ~TooLong(key)
  <2>1. Range(l) \subseteq PlainWords
    BY <1>1, ItemsOf
  <2>2. \A key \in Range(l) : key \in Words /\ ~TooLong(key)
    BY <2>1 DEF PlainWords
  <2> QED
    BY <1>1, <2>2, ListOf
<1>3. Keys(l) = l /\ Dedupe(l) = l
  BY <1>1, <1>2, KeysFacts, DedupeFacts
<1> QED
  BY <1>1, <1>2, <1>3, KeywordsAre, BackfillAssumption DEF WithinLimit

LEMMA AcceptedWords ==
    ASSUME NEW l \in Seq(Words), ValidateKeywords(l) = Accepted(l)
    PROVE  l \in WordLists
<1>1. Refused # Accepted(l)
  BY DEF Refused, Accepted
<1>2. \A key \in Range(Keys(l)) : ~TooLong(key)
  BY <1>1, KeywordsAre
<1>3. Accepted(Dedupe(Keys(l))) = Accepted(l) /\ ~(Len(Dedupe(Keys(l))) > MaxKeywords)
  BY <1>1, <1>2, KeywordsAre DEF WithinLimit
<1>4. Dedupe(Keys(l)) = l
  BY <1>3 DEF Accepted
<1>5. l \in Seq(PlainWords) /\ Distinct(l)
  BY <1>2, <1>4, KeysFacts, DedupeFacts
<1> QED
  BY <1>3, <1>4, <1>5, BackfillAssumption DEF WordLists

\* What the picker lets one choose is accepted, and is a list of words then.
LEMMA TakenAccepted ==
    ASSUME NEW l \in TakenLists
    PROVE  \E value \in WordLists : ValidateKeywords(l) = Accepted(value)
<1>1. l \in Seq(TakenWords) /\ l \in Seq(Words) /\ Len(l) <= MaxKeywords
  <2>1. l \in Seq(TakenWords) /\ Len(l) <= MaxKeywords
    BY DEF TakenLists
  <2>2. Range(l) \subseteq TakenWords
    BY <2>1, ItemsOf
  <2>3. Range(l) \subseteq Words
    BY <2>2 DEF TakenWords
  <2> QED
    BY <2>1, <2>3, ListOf
<1>2. Keys(l) \in Seq(PlainWords) /\ Len(Keys(l)) <= MaxKeywords
  BY <1>1, KeysFacts, BackfillAssumption
<1>3. \A key \in Range(Keys(l)) : ~TooLong(key)
  <2>1. Range(Keys(l)) \subseteq PlainWords
    BY <1>2, ItemsOf
  <2> QED
    BY <2>1 DEF PlainWords
<1>4. Dedupe(Keys(l)) \in WordLists
  BY <1>2, DedupeFacts, BackfillAssumption DEF WordLists
<1>5. ValidateKeywords(l) = Accepted(Dedupe(Keys(l)))
  BY <1>3, <1>4, KeywordsAre, BackfillAssumption DEF WithinLimit, WordLists
<1> QED
  BY <1>4, <1>5

-----------------------------------------------------------------------------
(* The backfill and the editors *)

Rows == [tags : Seq(Words), interests : IdLists, keywords : WordLists]
PlanRecord == [interests : IdLists, keywords : WordLists]

\* Whatever a row, a plan and a form hold is what the API takes, or a picker.
BackfillInv ==
    /\ stored \in [Range(Tables) -> Rows]
    /\ script \in [at : {"off", "planned"}, table : 1 .. 2, plan : PlanRecord,
                   changed : BOOLEAN, passes : Nat]
    /\ form \in [table : Range(Tables) \cup {"none"}, interests : IdLists,
                 keywords : TakenLists, opened : Nat]

LEMMA EmptyLists == <<>> \in IdLists /\ <<>> \in WordLists /\ <<>> \in TakenLists
BY BackfillAssumption DEF IdLists, WordLists, TakenLists, Distinct

LEMMA WordListsAreTaken == WordLists \subseteq TakenLists
<1> SUFFICES ASSUME NEW l \in WordLists PROVE l \in TakenLists
  OBVIOUS
<1>1. l \in Seq(PlainWords) /\ Len(l) <= MaxKeywords
  BY DEF WordLists
<1>2. Range(l) \subseteq TakenWords
  BY <1>1, ItemsOf, WordFacts
<1>3. l \in Seq(TakenWords)
  BY <1>1, <1>2, ListOf
<1> QED
  BY <1>1, <1>3 DEF TakenLists

LEMMA TablesAre == Range(Tables) = {"profiles", "event_memberships"} /\ \A i \in 1 .. 2 : Tables[i] \in Range(Tables)
BY DEF Tables, Range

\* The plan of a row is a row's lists.
LEMMA PlanIsAccepted ==
    ASSUME NEW r \in Rows
    PROVE  PlanRow(r) \in PlanRecord
<1>1. r.tags \in Seq(Words) /\ r.interests \in Seq(InterestIds) /\ r.keywords \in Seq(PlainWords)
  BY DEF Rows, IdLists, WordLists
<1>2. Mapped(r.tags) \in Seq(InterestIds)
  <2>1. InterestOrder \in Seq(InterestIds)
    BY DEF InterestOrder, InterestIds, Range
  <2> DEFINE known == {NormalizeInterest(tag) : tag \in Range(r.tags)}
  <2>2. Mapped(r.tags) = Among(InterestOrder, known)
    BY DEF Mapped
  <2> HIDE DEF known
  <2>3. Mapped(r.tags) \in Seq(InterestIds \cap known)
    BY <2>1, <2>2, AmongFacts
  <2>4. Range(Mapped(r.tags)) \subseteq InterestIds
    BY <2>3, ItemsOf
  <2> QED
    BY <2>3, <2>4, ListOf
<1>3. Demoted(r.tags) \in Seq(PlainWords)
  <2> DEFINE free == {tag \in Range(r.tags) : NormalizeInterest(tag) = Unknown /\ Plain(tag) # ""}
             own == Among(r.tags, free)
             words == [i \in DOMAIN own |-> Cut(Plain(own[i]))]
  <2>1. own \in Seq(Words \cap free)
    <3> HIDE DEF free
    <3> QED
      BY <1>1, AmongFacts
  <2>2. Demoted(r.tags) = words
    BY Zenon DEF Demoted
  <2> HIDE DEF own, free
  <2>3. PICK n \in Nat : own \in [1 .. n -> Words \cap free]
    BY <2>1
  <2>4. \A w \in Words \cap free : Cut(Plain(w)) \in PlainWords
    BY WordFacts DEF free
  <2>5. words \in [1 .. n -> PlainWords]
    BY <2>3, <2>4
  <2> HIDE DEF words
  <2> QED
    BY <2>2, <2>5
<1>4. Among(r.interests, InterestIds) \in Seq(InterestIds)
  BY <1>1, AmongFacts
<1> DEFINE interests == Among(r.interests, InterestIds) \o Mapped(r.tags)
           keywords == r.keywords \o Demoted(r.tags)
<1>5. interests \in Seq(InterestIds) /\ keywords \in Seq(PlainWords)
  BY <1>1, <1>2, <1>3, <1>4
<1>6. PlanRow(r) = [interests |-> FirstOf(Dedupe(interests), MaxInterests),
                    keywords |-> FirstOf(Dedupe(keywords), MaxKeywords)]
  BY Zenon DEF PlanRow
<1> HIDE DEF interests, keywords
<1>7. FirstOf(Dedupe(interests), MaxInterests) \in IdLists
  BY <1>5, DedupeFacts, FirstOfFacts, BackfillAssumption DEF IdLists
<1>8. FirstOf(Dedupe(keywords), MaxKeywords) \in WordLists
  BY <1>5, DedupeFacts, FirstOfFacts, BackfillAssumption DEF WordLists
<1> QED
  BY <1>6, <1>7, <1>8 DEF PlanRecord

\* Each press of a picker leaves a list it may hold.
LEMMA ToggledIsTaken ==
    ASSUME NEW l \in IdLists, NEW id \in InterestIds
    PROVE  Toggled(l, id) \in IdLists
<1>1. l \in Seq(InterestIds) /\ Distinct(l) /\ Len(l) <= MaxInterests
  BY DEF IdLists
<1>2. CASE id \in Range(l)
  <2> DEFINE others == Range(l) \ {id}
  <2>1. Toggled(l, id) = Among(l, others)
    BY <1>2 DEF Toggled
  <2> HIDE DEF others
  <2>2. /\ Among(l, others) \in Seq(InterestIds \cap others) /\ Distinct(Among(l, others))
        /\ Len(Among(l, others)) <= Len(l)
    BY <1>1, AmongFacts
  <2>3. Range(Among(l, others)) \subseteq InterestIds
    BY <2>2, ItemsOf
  <2>4. Among(l, others) \in Seq(InterestIds)
    BY <2>2, <2>3, ListOf
  <2> QED
    BY <1>1, <2>1, <2>2, <2>4, BackfillAssumption DEF IdLists
<1>3. CASE id \notin Range(l) /\ Len(l) < MaxInterests
  <2>1. Toggled(l, id) = Append(l, id)
    BY <1>3 DEF Toggled
  <2>2. Append(l, id) \in Seq(InterestIds) /\ Len(Append(l, id)) = Len(l) + 1
    BY <1>1
  <2>3. Distinct(Append(l, id))
    BY <1>1, <1>3 DEF Distinct, Range
  <2> QED
    BY <1>1, <1>3, <2>1, <2>2, <2>3, BackfillAssumption DEF IdLists
<1>4. CASE id \notin Range(l) /\ ~(Len(l) < MaxInterests)
  BY <1>4 DEF Toggled
<1> QED
  BY <1>2, <1>3, <1>4

LEMMA WordIsTaken ==
    ASSUME NEW l \in TakenLists, NEW w \in Words
    PROVE  WithKeyword(l, w) \in TakenLists
<1>1. l \in Seq(TakenWords) /\ Len(l) <= MaxKeywords
  BY DEF TakenLists
<1>2. CASE w = "  " \/ TooLong(w) \/ w \in Range(l) \/ Len(l) >= MaxKeywords
  BY <1>2 DEF WithKeyword
<1>3. CASE ~(w = "  " \/ TooLong(w) \/ w \in Range(l) \/ Len(l) >= MaxKeywords)
  <2>1. w \in TakenWords
    BY <1>3 DEF TakenWords
  <2>2. WithKeyword(l, w) = Append(l, w)
    BY <1>3 DEF WithKeyword
  <2>3. Len(l) < MaxKeywords /\ Len(Append(l, w)) = Len(l) + 1 /\ Append(l, w) \in Seq(TakenWords)
    <3>1. ~(Len(l) >= MaxKeywords)
      BY <1>3, Zenon
    <3> QED
      BY <1>1, <2>1, <3>1, BackfillAssumption
  <2> QED
    BY <1>1, <2>2, <2>3, BackfillAssumption DEF TakenLists
<1> QED
  BY <1>2, <1>3

LEMMA WithoutIsTaken ==
    ASSUME NEW l \in TakenLists, NEW w
    PROVE  Among(l, Range(l) \ {w}) \in TakenLists
<1> DEFINE others == Range(l) \ {w}
<1>1. l \in Seq(TakenWords) /\ Len(l) <= MaxKeywords
  BY DEF TakenLists
<1> HIDE DEF others
<1>2. Among(l, others) \in Seq(TakenWords \cap others) /\ Len(Among(l, others)) <= Len(l)
  BY <1>1, AmongFacts
<1>3. Range(Among(l, others)) \subseteq TakenWords
  BY <1>2, ItemsOf
<1>4. Among(l, others) \in Seq(TakenWords)
  BY <1>2, <1>3, ListOf
<1>5. Among(l, others) \in TakenLists
  BY <1>1, <1>2, <1>4, BackfillAssumption DEF TakenLists
<1> QED
  BY <1>5 DEF others

LEMMA BackfillStarts == BackfillInit => BackfillInv
<1> SUFFICES ASSUME BackfillInit PROVE BackfillInv
  OBVIOUS
<1>1. stored \in [Range(Tables) -> Rows]
  <2>1. ASSUME NEW t \in TagLists, NEW l \in FirstLists
        PROVE  [tags |-> t, interests |-> l.interests, keywords |-> l.keywords] \in Rows
    BY AcceptedIds, AcceptedWords, BackfillAssumption DEF Rows
  <2> QED
    BY <2>1 DEF BackfillInit
<1> QED
  BY <1>1, EmptyLists DEF BackfillInit, BackfillInv, NoScript, NoForm, NoPlan, PlanRecord

LEMMA BackfillKeeps == BackfillInv /\ [BackfillNext]_backfillVars => BackfillInv'
<1> SUFFICES ASSUME BackfillInv, [BackfillNext]_backfillVars PROVE BackfillInv'
  OBVIOUS
<1>0. /\ stored \in [Range(Tables) -> Rows]
      /\ script \in [at : {"off", "planned"}, table : 1 .. 2, plan : PlanRecord,
                     changed : BOOLEAN, passes : Nat]
      /\ form \in [table : Range(Tables) \cup {"none"}, interests : IdLists,
                   keywords : TakenLists, opened : Nat]
  BY DEF BackfillInv
<1>1. CASE ReadTable
  <2>1. PlanRow(stored[Current]) \in PlanRecord
    BY <1>0, TablesAre, PlanIsAccepted DEF Current
  <2> DEFINE changed == PlanRow(stored[Current]) # Lists(stored[Current])
             passes == IF script.table = 1 THEN script.passes + 1 ELSE script.passes
  <2>2. changed \in BOOLEAN /\ passes \in Nat
    BY <1>0
  <2>3. script' = [script EXCEPT !.at = "planned", !.plan = PlanRow(stored[Current]),
                                 !.changed = changed, !.passes = passes]
    BY <1>1 DEF ReadTable
  <2> HIDE DEF changed, passes
  <2>4. script' \in [at : {"off", "planned"}, table : 1 .. 2, plan : PlanRecord,
                     changed : BOOLEAN, passes : Nat]
    BY <1>0, <2>1, <2>2, <2>3
  <2>5. UNCHANGED <<stored, form>>
    BY <1>1 DEF ReadTable
  <2> QED
    BY <1>0, <2>4, <2>5 DEF BackfillInv
<1>2. CASE WriteTable
  <2>1. stored' \in [Range(Tables) -> Rows]
    <3>1. script.plan.interests \in IdLists /\ script.plan.keywords \in WordLists
      BY <1>0 DEF PlanRecord
    <3> DEFINE row == [[stored[Current] EXCEPT !.interests = script.plan.interests]
                           EXCEPT !.keywords = script.plan.keywords]
    <3>2. Current \in Range(Tables)
      BY <1>0, TablesAre DEF Current
    <3>3. row \in Rows
      BY <1>0, <3>1, <3>2 DEF Rows
    <3>4. stored' = [stored EXCEPT ![Current] = row] \/ stored' = stored
      BY <1>0, <1>2, <3>2 DEF WriteTable
    <3> HIDE DEF row
    <3> QED
      BY <1>0, <3>2, <3>3, <3>4
  <2>2. script' = [at |-> "off", table |-> 3 - script.table, plan |-> NoPlan, changed |-> FALSE,
                   passes |-> script.passes]
    BY <1>2 DEF WriteTable, NoScript
  <2>3. 3 - script.table \in 1 .. 2 /\ script.passes \in Nat /\ NoPlan \in PlanRecord
    BY <1>0, EmptyLists DEF NoPlan, PlanRecord
  <2>4. script' \in [at : {"off", "planned"}, table : 1 .. 2, plan : PlanRecord,
                     changed : BOOLEAN, passes : Nat]
    BY <2>2, <2>3
  <2>5. UNCHANGED form
    BY <1>2 DEF WriteTable
  <2> QED
    BY <1>0, <2>1, <2>4, <2>5 DEF BackfillInv
<1>3. CASE StopScript
  <2>1. script' = [at |-> "off", table |-> 1, plan |-> NoPlan, changed |-> FALSE,
                   passes |-> script.passes]
    BY <1>3 DEF StopScript, NoScript
  <2>2. script.passes \in Nat /\ NoPlan \in PlanRecord
    BY <1>0, EmptyLists DEF NoPlan, PlanRecord
  <2>3. script' \in [at : {"off", "planned"}, table : 1 .. 2, plan : PlanRecord,
                     changed : BOOLEAN, passes : Nat]
    BY <2>1, <2>2
  <2>4. UNCHANGED <<stored, form>>
    BY <1>3 DEF StopScript
  <2> QED
    BY <1>0, <2>3, <2>4 DEF BackfillInv
<1>4. ASSUME NEW t \in Range(Tables), OpenForm(t) PROVE BackfillInv'
  BY <1>0, <1>4, WordListsAreTaken DEF OpenForm, BackfillInv, Rows
<1>5. ASSUME NEW id \in InterestIds, Toggle(id) PROVE BackfillInv'
  BY <1>0, <1>5, ToggledIsTaken DEF Toggle, BackfillInv
<1>6. CASE ClearChips
  BY <1>0, <1>6, EmptyLists DEF ClearChips, BackfillInv
<1>7. ASSUME NEW w \in NewWords, AddWord(w) PROVE BackfillInv'
  BY <1>0, <1>7, WordIsTaken, BackfillAssumption DEF AddWord, BackfillInv
<1>8. ASSUME NEW w \in Words, RemoveWord(w) PROVE BackfillInv'
  BY <1>0, <1>8, WithoutIsTaken DEF RemoveWord, BackfillInv
<1>9. CASE SaveForm
  <2>1. stored' \in [Range(Tables) -> Rows]
    <3>1. ValidateInterests(form.interests).value \in IdLists
      BY <1>0, IdsAccepted DEF Accepted
    <3>2. ValidateKeywords(form.keywords).value \in WordLists
      BY <1>0, TakenAccepted DEF Accepted
    <3> DEFINE interests == ValidateInterests(form.interests)
               keywords == ValidateKeywords(form.keywords)
    <3>3. \/ stored' = [stored EXCEPT ![form.table].interests = interests.value,
                                      ![form.table].keywords = keywords.value]
          \/ stored' = stored
      BY <1>9 DEF SaveForm
    <3>4. interests.value \in IdLists /\ keywords.value \in WordLists
      BY <3>1, <3>2
    <3>5. form.table \in Range(Tables)
      BY <1>0, <1>9 DEF SaveForm
    <3> HIDE DEF interests, keywords
    <3>6. CASE stored' = [stored EXCEPT ![form.table].interests = interests.value,
                                        ![form.table].keywords = keywords.value]
      <4>1. [[stored[form.table] EXCEPT !.interests = interests.value]
                EXCEPT !.keywords = keywords.value] \in Rows
        BY <1>0, <3>4, <3>5 DEF Rows
      <4>2. stored' = [stored EXCEPT ![form.table] =
                          [[stored[form.table] EXCEPT !.interests = interests.value]
                              EXCEPT !.keywords = keywords.value]]
        BY <1>0, <3>5, <3>6
      <4> QED
        BY <1>0, <3>5, <4>1, <4>2
    <3> QED
      BY <1>0, <3>3, <3>6
  <2> QED
    BY <1>0, <1>9, <2>1, EmptyLists DEF SaveForm, BackfillInv, NoForm
<1>10. CASE UNCHANGED backfillVars
  BY <1>0, <1>10 DEF backfillVars, BackfillInv
<1> QED
  BY <1>1, <1>2, <1>3, <1>4, <1>5, <1>6, <1>7, <1>8, <1>9, <1>10 DEF BackfillNext

\* A profile that is opened and saved stays what it was, whatever the script, the pickers and
\* the API made of it, for any old tags, lists and limits.
THEOREM ListsRoundTrip == BackfillSpec => []RoundTrips
<1>1. BackfillInv => RoundTrips
  <2> SUFFICES ASSUME BackfillInv PROVE RoundTrips
    OBVIOUS
  <2>1. \A t \in Range(Tables) : stored[t].interests \in IdLists /\ stored[t].keywords \in WordLists
    BY DEF BackfillInv, Rows
  <2>2. form.interests \in IdLists /\ form.keywords \in TakenLists
    BY DEF BackfillInv
  <2>3. ValidateInterests(form.interests).ok
    BY <2>2, IdsAccepted DEF Accepted
  <2>4. ValidateKeywords(form.keywords).ok
    BY <2>2, TakenAccepted DEF Accepted
  <2> QED
    BY <2>1, <2>3, <2>4, IdsAccepted, WordsAccepted DEF RoundTrips
<1> QED
  BY <1>1, BackfillStarts, BackfillKeeps, PTL DEF BackfillSpec

LEMMA BackfillTyped == BackfillInv => BackfillTypeOK
<1> SUFFICES ASSUME BackfillInv PROVE BackfillTypeOK
  OBVIOUS
<1>1. WordLists \subseteq Seq(Words)
  BY ItemsOf, ListOf DEF WordLists, PlainWords
<1>2. IdLists \subseteq Seq(InterestIds)
  BY DEF IdLists
<1> QED
  BY <1>1, <1>2 DEF BackfillInv, BackfillTypeOK, Rows

-----------------------------------------------------------------------------
(* The places of an address book *)

Triples == Nat \X Nat \X Nat
SoonerPairs == {e \in Triples \X Triples : Sooner(e[1], e[2])}

\* The places are in order: page, line, cell.
LEMMA SoonerOrders ==
    ASSUME NEW S, S \subseteq Triples
    PROVE  /\ StrictOrder(SoonerPairs, S)
           /\ \A p \in S : BeforeIn(SoonerPairs, S, p) = {q \in S : Sooner(q, p)}
<1>1. \A p, q \in Triples : <<p, q>> \in SoonerPairs <=> Sooner(p, q)
  BY DEF SoonerPairs
<1>2. \A p \in Triples : ~Sooner(p, p)
  BY DEF Triples, Sooner
<1>3. \A p, q \in Triples : p = q \/ Sooner(p, q) \/ Sooner(q, p)
  BY DEF Triples, Sooner
<1>4. \A p, q, s \in Triples : Sooner(p, q) /\ Sooner(q, s) => Sooner(p, s)
  BY DEF Triples, Sooner
<1>5. StrictOrder(SoonerPairs, S)
  BY <1>1, <1>2, <1>3, <1>4 DEF StrictOrder
<1>6. \A p \in S : BeforeIn(SoonerPairs, S, p) = {q \in S : Sooner(q, p)}
  BY <1>1 DEF BeforeIn
<1> QED
  BY <1>5, <1>6

\* What is looked up is of the places found, and all of them when they are not too many.
CellsAt(pages, places) == {CellAt(pages, p) : p \in places}

LEMMA TakenFacts ==
    ASSUME NEW pages, NEW found, found \subseteq Triples, IsFiniteSet(found)
    PROVE  /\ Len(Taken(pages, found)) \in Nat
           /\ DOMAIN Taken(pages, found) = 1 .. Len(Taken(pages, found))
           /\ Range(Taken(pages, found)) \subseteq CellsAt(pages, found)
           /\ Cardinality(found) <= MaxContacts
                 => Range(Taken(pages, found)) = CellsAt(pages, found)
<1> DEFINE list == Taken(pages, found)
           Rank(p) == Cardinality({q \in found : Sooner(q, p)})
           Nth(k) == CHOOSE p \in found : Rank(p) = k - 1
<1>1. PICK n \in Nat : n = Cardinality(found)
  BY FS_CardinalityType
<1>2. PICK m \in Nat : m = IF n < MaxContacts THEN n ELSE MaxContacts
  BY ContactAssumption
<1>3. list = [k \in 1 .. m |-> CellAt(pages, Nth(k))]
  BY <1>1, <1>2 DEF Taken
<1>4. m <= n /\ (n <= MaxContacts => m = n)
  BY <1>2, ContactAssumption
<1>5. \A p \in found : Rank(p) = Cardinality(BeforeIn(SoonerPairs, found, p))
  BY SoonerOrders
<1>6. StrictOrder(SoonerPairs, found)
  BY SoonerOrders
<1> HIDE DEF Rank
<1>7. \A k \in 1 .. m : Nth(k) \in found /\ Rank(Nth(k)) = k - 1
  <2> TAKE k \in 1 .. m
  <2>1. k \in 1 .. Cardinality(found)
    BY <1>1, <1>4
  <2>2. \E p \in found : Rank(p) = k - 1
    BY <1>5, <1>6, <2>1, EveryRankIsTaken
  <2> QED
    BY <2>2
<1> HIDE DEF Nth
<1>8. DOMAIN list = 1 .. m /\ Len(list) = m
  BY <1>3
<1>9. Range(list) \subseteq CellsAt(pages, found)
  BY <1>3, <1>7 DEF Range, CellsAt
<1>10. ASSUME n <= MaxContacts, NEW p \in found PROVE CellAt(pages, p) \in Range(list)
  <2>1. PICK k \in 1 .. m : Rank(p) = k - 1
    <3>1. PICK x \in Nat : x = Rank(p)
      BY <1>5, <1>6, FewerBefore
    <3>2. BeforeIn(SoonerPairs, found, p) \subseteq found /\ p \notin BeforeIn(SoonerPairs, found, p)
      BY <1>6 DEF BeforeIn, StrictOrder
    <3>3. x <= n /\ x # n
      BY <1>1, <1>5, <3>1, <3>2, FS_Subset
    <3>4. x + 1 \in 1 .. m /\ x = (x + 1) - 1
      BY <1>4, <1>10, <3>3
    <3> QED
      BY <3>1, <3>4
  <2>2. Nth(k) = p
    <3>1. PICK q \in found : q = Nth(k) /\ Rank(q) = Rank(p)
      BY <1>7, <2>1
    <3>2. PICK x, y \in Nat : x = Rank(p) /\ y = Rank(q)
      BY <1>5, <1>6, FewerBefore
    <3>3. q = p \/ <<q, p>> \in SoonerPairs \/ <<p, q>> \in SoonerPairs
      BY <1>6 DEF StrictOrder
    <3>4. q = p \/ x < y \/ y < x
      BY <1>5, <1>6, <3>2, <3>3, FewerBefore
    <3> QED
      BY <3>1, <3>2, <3>4
  <2>3. list[k] = CellAt(pages, p)
    BY <1>3, <2>1, <2>2
  <2> HIDE DEF list
  <2> QED
    BY <1>8, <2>1, <2>3 DEF Range
<1>11. n <= MaxContacts => CellsAt(pages, found) \subseteq Range(list)
  BY <1>10 DEF CellsAt
<1> HIDE DEF list
<1>12. /\ Len(list) \in Nat /\ DOMAIN list = 1 .. Len(list)
       /\ Range(list) \subseteq CellsAt(pages, found)
       /\ Cardinality(found) <= MaxContacts => Range(list) = CellsAt(pages, found)
  BY <1>1, <1>8, <1>9, <1>11
<1> QED
  BY <1>12 DEF list

\* A page loses nothing by leaving repetitions out.
LEMMA FoundFacts ==
    ASSUME NEW pages, NEW places, places \subseteq Triples, IsFiniteSet(places)
    PROVE  /\ Found(pages, places) \subseteq Triples /\ IsFiniteSet(Found(pages, places))
           /\ CellsAt(pages, Found(pages, places)) = CellsAt(pages, places) \cap Known
           /\ Found(pages, places) \subseteq places
           /\ \A p, q \in Found(pages, places) :
                 p[1] = q[1] /\ CellAt(pages, p) = CellAt(pages, q) => p = q
<1>1. Found(pages, places) \subseteq places
  BY DEF Found
<1>2. IsFiniteSet(Found(pages, places))
  BY <1>1, FS_Subset
<1>3. \A p \in Found(pages, places) : CellAt(pages, p) \in Known
  BY DEF Found
<1>4. ASSUME NEW p \in places, CellAt(pages, p) \in Known
      PROVE  \E x \in Found(pages, places) : CellAt(pages, x) = CellAt(pages, p)
  <2> DEFINE Same == {q \in places : q[1] = p[1] /\ CellAt(pages, q) = CellAt(pages, p)}
  <2>1. Same \subseteq places /\ p \in Same /\ Same \subseteq Triples
    OBVIOUS
  <2>2. IsFiniteSet(Same)
    BY <2>1, FS_Subset
  <2>3. StrictOrder(SoonerPairs, Same)
    BY <2>1, SoonerOrders
  <2> HIDE DEF Same
  <2>4. PICK x \in Same : \A y \in Same \ {x} : <<x, y>> \in SoonerPairs
    BY <2>1, <2>2, <2>3, FirstInOrder
  <2>5. x \in places /\ x[1] = p[1] /\ CellAt(pages, x) = CellAt(pages, p)
    BY <2>4 DEF Same
  <2>6. ASSUME NEW q \in places, q[1] = x[1], Sooner(q, x), CellAt(pages, q) = CellAt(pages, x)
        PROVE  FALSE
    <3>1. q \in Same
      BY <2>5, <2>6 DEF Same
    <3>2. <<q, x>> \in SoonerPairs
      BY <2>1, <2>4, <2>6, <3>1 DEF SoonerPairs
    <3> QED
      BY <2>3, <2>4, <3>1, <3>2 DEF StrictOrder
  <2>7. x \in Found(pages, places)
    BY <1>4, <2>5, <2>6 DEF Found
  <2> QED
    BY <2>5, <2>7
<1>5. CellsAt(pages, Found(pages, places)) = CellsAt(pages, places) \cap Known
  BY <1>1, <1>3, <1>4 DEF CellsAt
<1>6. ASSUME NEW p \in Found(pages, places), NEW q \in Found(pages, places),
             p[1] = q[1], CellAt(pages, p) = CellAt(pages, q)
      PROVE  p = q
  <2>1. ~Sooner(p, q) /\ ~Sooner(q, p) /\ p \in Triples /\ q \in Triples
    BY <1>6 DEF Found
  <2> QED
    BY <2>1 DEF Sooner, Triples
<1> QED
  BY <1>1, <1>2, <1>5, <1>6

LEMMA ManyFinite ==
    ASSUME NEW S, IsFiniteSet(S), NEW f, \A x \in S : IsFiniteSet(f[x])
    PROVE  IsFiniteSet(UNION {f[x] : x \in S})
<1> DEFINE T == {f[x] : x \in S}
           g == [x \in S |-> f[x]]
<1>1. g \in Surjection(S, T)
  BY DEF Surjection
<1>2. \A t \in T : IsFiniteSet(t)
  OBVIOUS
<1> HIDE DEF T, g
<1>3. IsFiniteSet(T)
  BY <1>1, FS_Surjection
<1>4. IsFiniteSet(UNION T)
  BY <1>2, <1>3, FS_UNION
<1> QED
  BY <1>4 DEF T

Books == Seq(Seq(Seq(STRING)))
IsPlace(pages, n, i, j) == n \in DOMAIN pages /\ i \in DOMAIN pages[n] /\ j \in DOMAIN pages[n][i]

LEMMA BookFacts ==
    ASSUME NEW pages \in Books
    PROVE  /\ DOMAIN pages = 1 .. Len(pages) /\ Len(pages) \in Nat
           /\ \A n \in DOMAIN pages : DOMAIN pages[n] \subseteq Nat /\ IsFiniteSet(DOMAIN pages[n])
           /\ \A n \in DOMAIN pages : \A i \in DOMAIN pages[n] :
                 DOMAIN pages[n][i] \subseteq Nat /\ IsFiniteSet(DOMAIN pages[n][i])
<1>1. \A k \in Nat : IsFiniteSet(1 .. k) /\ 1 .. k \subseteq Nat
  BY FS_Interval
<1>2. \A n \in DOMAIN pages : pages[n] \in Seq(Seq(STRING))
  BY DEF Books
<1>3. \A n \in DOMAIN pages : \A i \in DOMAIN pages[n] : pages[n][i] \in Seq(STRING)
  BY <1>2
<1>4. ASSUME NEW list, NEW T, list \in Seq(T)
      PROVE  DOMAIN list \subseteq Nat /\ IsFiniteSet(DOMAIN list)
  <2>1. DOMAIN list = 1 .. Len(list) /\ Len(list) \in Nat
    BY <1>4
  <2> QED
    BY <1>1, <2>1
<1>5. DOMAIN pages = 1 .. Len(pages) /\ Len(pages) \in Nat
  BY DEF Books
<1>6. \A n \in DOMAIN pages : DOMAIN pages[n] \subseteq Nat /\ IsFiniteSet(DOMAIN pages[n])
  BY <1>2, <1>4
<1>7. \A n \in DOMAIN pages : \A i \in DOMAIN pages[n] :
         DOMAIN pages[n][i] \subseteq Nat /\ IsFiniteSet(DOMAIN pages[n][i])
  BY <1>3, <1>4
<1> QED
  BY <1>5, <1>6, <1>7

LEMMA PlacesFacts ==
    ASSUME NEW pages \in Books
    PROVE  /\ PlacesOf(pages) \subseteq Triples /\ IsFiniteSet(PlacesOf(pages))
           /\ \A p : p \in PlacesOf(pages)
                 <=> \E n, i, j \in Nat : IsPlace(pages, n, i, j) /\ p = <<n, i, j>>
<1> DEFINE InLine(n, i) == {<<n, i, j>> : j \in DOMAIN pages[n][i]}
           InPage(n) == UNION {InLine(n, i) : i \in DOMAIN pages[n]}
<1>1. PlacesOf(pages) = UNION {InPage(n) : n \in DOMAIN pages}
  BY DEF PlacesOf
<1>2. DOMAIN pages \subseteq Nat /\ IsFiniteSet(DOMAIN pages)
  <2>1. PICK m \in Nat : DOMAIN pages = 1 .. m
    BY BookFacts
  <2> QED
    BY <2>1, FS_Interval
<1>3. ASSUME NEW n \in DOMAIN pages, NEW i \in DOMAIN pages[n]
      PROVE  IsFiniteSet(InLine(n, i))
  <2> DEFINE f == [j \in DOMAIN pages[n][i] |-> <<n, i, j>>]
  <2>1. f \in Surjection(DOMAIN pages[n][i], InLine(n, i))
    BY DEF Surjection
  <2>2. IsFiniteSet(DOMAIN pages[n][i])
    BY BookFacts
  <2> HIDE DEF f, InLine
  <2> QED
    BY <2>1, <2>2, FS_Surjection
<1>4. ASSUME NEW n \in DOMAIN pages PROVE IsFiniteSet(InPage(n))
  <2> DEFINE f == [i \in DOMAIN pages[n] |-> InLine(n, i)]
  <2>1. \A i \in DOMAIN pages[n] : IsFiniteSet(f[i])
    BY <1>3
  <2>2. InPage(n) = UNION {f[i] : i \in DOMAIN pages[n]}
    OBVIOUS
  <2>3. IsFiniteSet(DOMAIN pages[n])
    BY BookFacts
  <2> HIDE DEF f, InPage
  <2> QED
    BY <2>1, <2>2, <2>3, ManyFinite
<1>5. IsFiniteSet(PlacesOf(pages))
  <2> DEFINE f == [n \in DOMAIN pages |-> InPage(n)]
  <2>1. \A n \in DOMAIN pages : IsFiniteSet(f[n])
    BY <1>4
  <2>2. PlacesOf(pages) = UNION {f[n] : n \in DOMAIN pages}
    BY <1>1
  <2> HIDE DEF f, InPage
  <2> QED
    BY <1>2, <2>1, <2>2, ManyFinite
<1>6. ASSUME NEW p
      PROVE  p \in PlacesOf(pages)
                 <=> \E n \in DOMAIN pages : \E i \in DOMAIN pages[n] : \E j \in DOMAIN pages[n][i] :
                        p = <<n, i, j>>
  BY DEF PlacesOf
<1>7. ASSUME NEW n, NEW i, NEW j, IsPlace(pages, n, i, j) PROVE n \in Nat /\ i \in Nat /\ j \in Nat
  BY <1>2, <1>7, BookFacts DEF IsPlace
<1>8. ASSUME NEW p
      PROVE  p \in PlacesOf(pages)
                 <=> \E n, i, j \in Nat : IsPlace(pages, n, i, j) /\ p = <<n, i, j>>
  BY <1>6, <1>7 DEF IsPlace
<1>9. PlacesOf(pages) \subseteq Triples
  BY <1>8 DEF Triples
<1> QED
  BY <1>5, <1>8, <1>9

\* The addresses at the places of a book are those in its lines.
LEMMA CellsOfPlaces ==
    ASSUME NEW pages \in Books
    PROVE  \A c : c \in CellsAt(pages, PlacesOf(pages))
              <=> \E n \in DOMAIN pages : \E i \in DOMAIN pages[n] : c \in Range(pages[n][i])
<1>1. ASSUME NEW n, NEW i, NEW j, IsPlace(pages, n, i, j)
      PROVE  <<n, i, j>> \in PlacesOf(pages) /\ CellAt(pages, <<n, i, j>>) = pages[n][i][j]
  <2>1. n \in Nat /\ i \in Nat /\ j \in Nat
    BY <1>1, BookFacts DEF IsPlace
  <2> QED
    BY <1>1, <2>1, PlacesFacts DEF CellAt
<1>2. ASSUME NEW p \in PlacesOf(pages)
      PROVE  \E n, i, j : IsPlace(pages, n, i, j) /\ CellAt(pages, p) = pages[n][i][j]
  <2>1. PICK n, i, j \in Nat : IsPlace(pages, n, i, j) /\ p = <<n, i, j>>
    BY PlacesFacts
  <2> QED
    BY <2>1 DEF CellAt
<1> TAKE c
<1>3. ASSUME c \in CellsAt(pages, PlacesOf(pages))
      PROVE  \E n \in DOMAIN pages : \E i \in DOMAIN pages[n] : c \in Range(pages[n][i])
  BY <1>2, <1>3 DEF CellsAt, IsPlace, Range
<1>4. ASSUME NEW n \in DOMAIN pages, NEW i \in DOMAIN pages[n], c \in Range(pages[n][i])
      PROVE  c \in CellsAt(pages, PlacesOf(pages))
  <2>1. PICK j \in DOMAIN pages[n][i] : c = pages[n][i][j]
    BY <1>4 DEF Range
  <2>2. IsPlace(pages, n, i, j)
    BY DEF IsPlace
  <2>3. <<n, i, j>> \in PlacesOf(pages) /\ CellAt(pages, <<n, i, j>>) = c
    BY <1>1, <2>1, <2>2
  <2> QED
    BY <2>3, Zenon DEF CellsAt
<1> QED
  BY <1>3, <1>4

\* What Google offers is what the pages hold.
LEMMA OfferedByGoogle ==
    ASSUME NEW book \in DOMAIN PagedBooks
    PROVE  /\ PagedBooks[book] \in Books
           /\ Offered("google", book)
                 = CellsAt(PagedBooks[book], PlacesOf(PagedBooks[book])) \cap Known
<1> DEFINE pages == PagedBooks[book]
<1>1. pages \in Books
  BY ContactAssumption DEF Books
<1>2. Offered("google", book)
        = Known \cap UNION {Range(person) : person \in UNION {Range(page) : page \in Range(pages)}}
  BY DEF Offered
<1> HIDE DEF pages
<1>3. ASSUME NEW c
      PROVE  c \in UNION {Range(person) : person \in UNION {Range(page) : page \in Range(pages)}}
                <=> \E n \in DOMAIN pages : \E i \in DOMAIN pages[n] : c \in Range(pages[n][i])
  <2>1. c \in UNION {Range(person) : person \in UNION {Range(page) : page \in Range(pages)}}
          <=> \E page \in Range(pages) : \E person \in Range(page) : c \in Range(person)
    BY Zenon
  <2>2. \A page : page \in Range(pages) <=> \E n \in DOMAIN pages : page = pages[n]
    BY DEF Range
  <2>3. \A page, person : person \in Range(page) <=> \E i \in DOMAIN page : person = page[i]
    BY DEF Range
  <2>4. (\E page \in Range(pages) : \E person \in Range(page) : c \in Range(person))
           <=> \E n \in DOMAIN pages : \E person \in Range(pages[n]) : c \in Range(person)
    BY <2>2
  <2>5. \A n : (\E person \in Range(pages[n]) : c \in Range(person))
                  <=> \E i \in DOMAIN pages[n] : c \in Range(pages[n][i])
    BY <2>3
  <2> QED
    BY <2>1, <2>4, <2>5
<1>4. Offered("google", book) = CellsAt(pages, PlacesOf(pages)) \cap Known
  BY <1>1, <1>2, <1>3, CellsOfPlaces
<1> QED
  BY <1>1, <1>4 DEF pages

\* The pages offer no more than the addresses of each page.
LEMMA FewOnPages ==
    ASSUME NEW book \in DOMAIN PagedBooks, ~Overflows(book), Len(PagedBooks[book]) <= MaxPages
    PROVE  Cardinality(Found(PagedBooks[book], PlacesOf(PagedBooks[book]))) <= MaxContacts
<1> DEFINE pages == PagedBooks[book]
           found == Found(pages, PlacesOf(pages))
           InPage(n) == Known \cap UNION {Range(person) : person \in Range(pages[n])}
           room == UNION {{n} \X InPage(n) : n \in DOMAIN pages}
           f == [p \in found |-> <<p[1], CellAt(pages, p)>>]
<1>1. pages \in Books
  BY OfferedByGoogle
<1>2. ~(Cardinality(room) > MaxContacts)
  BY DEF Overflows
<1>3. IsFiniteSet(room)
  <2>1. PICK m \in Nat : DOMAIN pages = 1 .. m
    BY <1>1, BookFacts
  <2>2. room \subseteq (DOMAIN pages) \X Known
    <3>1. ASSUME NEW n \in DOMAIN pages PROVE {n} \X InPage(n) \subseteq (DOMAIN pages) \X Known
      <4>1. InPage(n) \subseteq Known
        OBVIOUS
      <4> HIDE DEF InPage, pages
      <4> QED
        BY <4>1
    <3> HIDE DEF InPage, pages
    <3> QED
      BY <3>1
  <2>3. IsFiniteSet(DOMAIN pages)
    BY <2>1, FS_Interval
  <2>4. IsFiniteSet((DOMAIN pages) \X Known)
    BY <2>3, ContactAssumption, FS_Product
  <2> HIDE DEF pages, room
  <2> QED
    BY <2>2, <2>4, FS_Subset
<1>4. /\ found \subseteq PlacesOf(pages) /\ found \subseteq Triples
      /\ IsFiniteSet(found)
      /\ \A p, q \in found : p[1] = q[1] /\ CellAt(pages, p) = CellAt(pages, q) => p = q
  BY <1>1, PlacesFacts, FoundFacts
<1>5. ASSUME NEW p \in found PROVE f[p] \in room
  <2>1. PICK n, i, j \in Nat : IsPlace(pages, n, i, j) /\ p = <<n, i, j>>
    BY <1>1, <1>4, PlacesFacts
  <2>2. CellAt(pages, p) = pages[n][i][j] /\ CellAt(pages, p) \in Known
    BY <2>1 DEF CellAt, Found
  <2>3. CellAt(pages, p) \in InPage(n)
    <3>1. pages[n][i] \in Range(pages[n]) /\ pages[n][i][j] \in Range(pages[n][i])
      BY <2>1 DEF IsPlace, Range
    <3> QED
      BY <2>2, <3>1
  <2>4. f[p] = <<n, CellAt(pages, p)>> /\ n \in DOMAIN pages
    BY <2>1 DEF IsPlace
  <2> HIDE DEF f, InPage, pages
  <2> QED
    BY <2>3, <2>4
<1>6. f \in Injection(found, room)
  <2>1. \A p, q \in found : f[p] = f[q] => p = q
    BY <1>4
  <2>2. f \in [found -> room]
    BY <1>5
  <2> QED
    BY <2>1, <2>2 DEF Injection, IsInjective
<1> HIDE DEF f, room, found
<1>7. Cardinality(found) <= Cardinality(room)
  BY <1>3, <1>6, FS_Injection
<1>8. Cardinality(found) \in Nat /\ Cardinality(room) \in Nat
  BY <1>3, <1>4, FS_CardinalityType
<1>9. Cardinality(found) <= MaxContacts
  BY <1>2, <1>7, <1>8, ContactAssumption
<1> QED
  BY <1>9 DEF found

\* A file is a book of one page.
LEMMA FileFacts ==
    ASSUME NEW rows \in Seq(Seq(STRING))
    PROVE  /\ <<rows>> \in Books /\ DOMAIN rows = 1 .. Len(rows) /\ Len(rows) \in Nat
           /\ \A i \in DOMAIN rows : DOMAIN rows[i] \subseteq Nat
           /\ \A p : p \in PlacesOf(<<rows>>)
                <=> \E i, j \in Nat : i \in DOMAIN rows /\ j \in DOMAIN rows[i] /\ p = <<1, i, j>>
           /\ \A i, j : CellAt(<<rows>>, <<1, i, j>>) = rows[i][j]
<1> DEFINE pages == <<rows>>
<1>1. pages \in Books /\ DOMAIN pages = {1} /\ pages[1] = rows
  BY DEF Books
<1>2. DOMAIN rows = 1 .. Len(rows) /\ Len(rows) \in Nat
  OBVIOUS
<1>3. \A i, j : CellAt(pages, <<1, i, j>>) = rows[i][j]
  BY <1>1 DEF CellAt
<1> HIDE DEF pages
<1>4. \A i \in DOMAIN rows : DOMAIN rows[i] \subseteq Nat
  BY <1>1, BookFacts
<1>5. \A n, i, j : IsPlace(pages, n, i, j) <=> n = 1 /\ i \in DOMAIN rows /\ j \in DOMAIN rows[i]
  BY <1>1 DEF IsPlace
<1>6. ASSUME NEW p
      PROVE  p \in PlacesOf(pages)
                <=> \E i, j \in Nat : i \in DOMAIN rows /\ j \in DOMAIN rows[i] /\ p = <<1, i, j>>
  <2>1. p \in PlacesOf(pages) <=> \E n, i, j \in Nat : IsPlace(pages, n, i, j) /\ p = <<n, i, j>>
    BY <1>1, PlacesFacts
  <2> QED
    BY <1>5, <2>1
<1> QED
  BY <1>1, <1>2, <1>3, <1>4, <1>6 DEF pages

\* Every address of a card counts.
LEMMA OfferedByCards ==
    ASSUME NEW text \in DOMAIN Texts, Texts[text].format = "vcard", NEW rows, rows = Texts[text].rows
    PROVE  /\ CardPlaces(rows) \subseteq PlacesOf(<<rows>>)
           /\ Offered("file", text) = CellsAt(<<rows>>, CardPlaces(rows)) \cap Known
<1>1. rows \in Seq(Seq(STRING)) /\ "encoded" \notin Known
  BY ContactAssumption
<1>2. Offered("file", text) = Known \cap UNION {Range(row) : row \in Range(rows)}
  BY DEF Offered
<1>3. ASSUME NEW c PROVE c \in UNION {Range(row) : row \in Range(rows)}
                            <=> \E i \in DOMAIN rows : \E j \in DOMAIN rows[i] : c = rows[i][j]
  BY DEF Range
<1>4. ASSUME NEW c \in Known
      PROVE  c \in CellsAt(<<rows>>, CardPlaces(rows))
                <=> \E i \in DOMAIN rows : \E j \in DOMAIN rows[i] : c = rows[i][j]
  <2>1. c # "encoded"
    BY <1>1
  <2>2. c \in CellsAt(<<rows>>, CardPlaces(rows))
           <=> \E p \in PlacesOf(<<rows>>) : c = CellAt(<<rows>>, p)
    BY <2>1 DEF CellsAt, CardPlaces
  <2>3. ASSUME NEW p \in PlacesOf(<<rows>>), c = CellAt(<<rows>>, p)
        PROVE  \E i \in DOMAIN rows : \E j \in DOMAIN rows[i] : c = rows[i][j]
    BY <1>1, <2>3, FileFacts
  <2>4. ASSUME NEW i \in DOMAIN rows, NEW j \in DOMAIN rows[i], c = rows[i][j]
        PROVE  <<1, i, j>> \in PlacesOf(<<rows>>) /\ c = CellAt(<<rows>>, <<1, i, j>>)
    <3>1. i \in Nat /\ j \in Nat
      BY <1>1, FileFacts
    <3> QED
      BY <1>1, <2>4, <3>1, FileFacts
  <2> QED
    BY <2>2, <2>3, <2>4
<1> QED
  BY <1>2, <1>3, <1>4 DEF CardPlaces

\* Of a table the cells of its column of addresses count; without one, the first address of
\* each row.
LEMMA OfferedByTable ==
    ASSUME NEW text \in DOMAIN Texts, Texts[text].format = "csv", NEW rows, rows = Texts[text].rows
    PROVE  /\ CsvPlaces(rows) \subseteq PlacesOf(<<rows>>)
           /\ Offered("file", text) = CellsAt(<<rows>>, CsvPlaces(rows)) \cap Known
<1> DEFINE column == EmailColumn(rows)
           m == Min(column)
           Leading(i) == {k \in DOMAIN rows[i] : \A n \in 1 .. k - 1 : rows[i][n] \notin Known}
           InRow(i) == {j \in DOMAIN rows[i] : rows[i][j] \in Known}
<1>1. rows \in Seq(Seq(STRING)) /\ "Email" \notin Known
  BY ContactAssumption
<1>2. /\ DOMAIN rows = 1 .. Len(rows) /\ Len(rows) \in Nat
      /\ \A i \in DOMAIN rows : DOMAIN rows[i] \subseteq Nat
  BY <1>1, FileFacts
<1>3. \A i, j : CellAt(<<rows>>, <<1, i, j>>) = rows[i][j]
  BY <1>1, FileFacts
<1>4. \A i \in DOMAIN rows : \A j \in DOMAIN rows[i] : <<1, i, j>> \in PlacesOf(<<rows>>)
  <2> TAKE i \in DOMAIN rows
  <2> TAKE j \in DOMAIN rows[i]
  <2>1. i \in Nat /\ j \in Nat
    BY <1>2
  <2> QED
    BY <1>1, <2>1, FileFacts
<1>5. CASE column # {}
  <2>1. m \in DOMAIN rows[1] /\ rows[1][m] = "Email"
    <3>1. column \subseteq Nat
      <4>1. rows # <<>> => 1 \in DOMAIN rows
        BY <1>1, <1>2
      <4> QED
        BY <1>2, <4>1 DEF EmailColumn
    <3>2. m \in column
      <4> HIDE DEF column
      <4> QED
        BY <1>5, <3>1, LeastNumber
    <3> QED
      BY <1>5, <3>2 DEF EmailColumn
  <2>2. CsvPlaces(rows) = {<<1, i, m>> : i \in {k \in 2 .. Len(rows) : m \in DOMAIN rows[k]}}
    BY <1>5 DEF CsvPlaces
  <2>3. Offered("file", text) = Known \cap UNION {{rows[i][j] : j \in {m} \cap DOMAIN rows[i]} : i \in DOMAIN rows}
    BY <1>5 DEF Offered
  <2> HIDE DEF m, column
  <2>4. CsvPlaces(rows) \subseteq PlacesOf(<<rows>>)
    <3>1. ASSUME NEW i \in 2 .. Len(rows), m \in DOMAIN rows[i] PROVE <<1, i, m>> \in PlacesOf(<<rows>>)
      <4>1. i \in DOMAIN rows
        BY <1>2
      <4> QED
        BY <1>4, <3>1, <4>1
    <3> QED
      BY <2>2, <3>1, Zenon
  <2>5. ASSUME NEW c \in Known
        PROVE  c \in CellsAt(<<rows>>, CsvPlaces(rows)) <=> c \in Offered("file", text)
    <3>1. c \in CellsAt(<<rows>>, CsvPlaces(rows))
             <=> \E i \in 2 .. Len(rows) : m \in DOMAIN rows[i] /\ c = rows[i][m]
      <4>1. c \in CellsAt(<<rows>>, CsvPlaces(rows))
               <=> \E i \in 2 .. Len(rows) : m \in DOMAIN rows[i] /\ c = CellAt(<<rows>>, <<1, i, m>>)
        BY <2>2, Zenon DEF CellsAt
      <4> QED
        BY <1>3, <4>1
    <3>2. c \in Offered("file", text) <=> \E i \in DOMAIN rows : m \in DOMAIN rows[i] /\ c = rows[i][m]
      BY <2>3
    <3>3. c # rows[1][m]
      BY <1>1, <2>1
    <3> QED
      BY <1>2, <3>1, <3>2, <3>3
  <2> QED
    BY <2>3, <2>4, <2>5
<1>6. CASE column = {}
  <2>1. CsvPlaces(rows) = {<<1, i, Min(InRow(i))>> : i \in {k \in DOMAIN rows : InRow(k) # {}}}
    BY <1>6 DEF CsvPlaces
  <2>2. Offered("file", text) = Known \cap UNION {{rows[i][j] : j \in Leading(i)} : i \in DOMAIN rows}
    BY <1>6 DEF Offered
  <2>3. ASSUME NEW i \in DOMAIN rows, InRow(i) # {}
        PROVE  /\ Min(InRow(i)) \in DOMAIN rows[i] /\ rows[i][Min(InRow(i))] \in Known
               /\ Min(InRow(i)) \in Leading(i)
    <3>1. Min(InRow(i)) \in InRow(i) /\ \A y \in InRow(i) : Min(InRow(i)) <= y
      <4>1. InRow(i) \subseteq Nat
        BY <1>2
      <4> HIDE DEF InRow
      <4> QED
        BY <2>3, <4>1, LeastNumber
    <3>2. PICK k \in DOMAIN rows[i] : k = Min(InRow(i)) /\ rows[i][k] \in Known
      BY <3>1
    <3>3. \A n \in 1 .. k - 1 : n \in DOMAIN rows[i]
      <4>1. rows[i] \in Seq(STRING)
        BY <1>1
      <4> QED
        BY <3>2, <4>1
    <3>4. ASSUME NEW n \in 1 .. k - 1, rows[i][n] \in Known PROVE FALSE
      <4>1. n \in InRow(i)
        BY <3>3, <3>4
      <4> HIDE DEF InRow
      <4>2. k <= n /\ k \in Nat
        BY <1>2, <3>1, <3>2, <4>1
      <4> QED
        BY <4>2
    <3> QED
      BY <3>2, <3>4
  <2>4. ASSUME NEW i \in DOMAIN rows, NEW j \in Leading(i), rows[i][j] \in Known
        PROVE  InRow(i) # {} /\ j = Min(InRow(i))
    <3>1. j \in InRow(i) /\ InRow(i) \subseteq Nat
      BY <1>2, <2>4
    <3>2. Min(InRow(i)) \in InRow(i) /\ Min(InRow(i)) <= j
      <4> HIDE DEF InRow
      <4> QED
        BY <3>1, LeastNumber
    <3>3. PICK k \in Nat : k = Min(InRow(i)) /\ rows[i][k] \in Known /\ k \in DOMAIN rows[i]
      BY <1>2, <3>2
    <3>4. ~(k < j)
      <4>1. k < j => k \in 1 .. j - 1
        <5>1. rows[i] \in Seq(STRING)
          BY <1>1
        <5>2. k >= 1
          BY <3>3, <5>1
        <5> QED
          BY <3>1, <3>3, <5>2
      <4> QED
        BY <2>4, <3>3, <4>1
    <3> QED
      BY <3>1, <3>2, <3>3, <3>4
  <2> HIDE DEF Leading, InRow, column
  <2>5. CsvPlaces(rows) \subseteq PlacesOf(<<rows>>)
    BY <1>4, <2>1, <2>3
  <2>6. ASSUME NEW c \in Known
        PROVE  c \in CellsAt(<<rows>>, CsvPlaces(rows)) <=> c \in Offered("file", text)
    <3>1. c \in CellsAt(<<rows>>, CsvPlaces(rows))
             <=> \E i \in DOMAIN rows : InRow(i) # {} /\ c = rows[i][Min(InRow(i))]
      <4>1. c \in CellsAt(<<rows>>, CsvPlaces(rows))
               <=> \E i \in DOMAIN rows : /\ InRow(i) # {}
                                          /\ c = CellAt(<<rows>>, <<1, i, Min(InRow(i))>>)
        BY <2>1, Zenon DEF CellsAt
      <4> QED
        BY <1>3, <4>1
    <3>2. c \in Offered("file", text) <=> \E i \in DOMAIN rows : \E j \in Leading(i) : c = rows[i][j]
      BY <2>2
    <3> QED
      BY <2>3, <2>4, <3>1, <3>2
  <2>7. Offered("file", text) \subseteq Known
    BY <2>2
  <2> QED
    BY <2>5, <2>6, <2>7
<1> QED
  BY <1>5, <1>6

-----------------------------------------------------------------------------
(* What is answered *)

IsList(contacts) == Len(contacts) \in Nat /\ DOMAIN contacts = 1 .. Len(contacts)

Readable(text) == Refusal(text) = ""

\* Of a file that is not refused every address is looked up.
LEMMA FileIsRead ==
    ASSUME NEW text \in DOMAIN Texts, Readable(text)
    PROVE  IsList(Parsed(text).contacts) /\ Range(Parsed(text).contacts) = Offered("file", text)
<1> DEFINE rows == Texts[text].rows
           cards == Texts[text].format = "vcard"
           places == IF cards THEN CardPlaces(rows) ELSE CsvPlaces(rows)
           found == Found(<<rows>>, places)
           parsed == Parsed(text)
<1>1. rows \in Seq(Seq(STRING)) /\ (cards \/ Texts[text].format = "csv")
  BY ContactAssumption
<1>2. places \subseteq PlacesOf(<<rows>>) /\ Offered("file", text) = CellsAt(<<rows>>, places) \cap Known
  BY <1>1, OfferedByCards, OfferedByTable
<1>3. /\ parsed.contacts = Taken(<<rows>>, found)
      /\ Cardinality(found) > MaxContacts => parsed.truncated
  BY DEF Parsed
<1>4. <<rows>> \in Books
  BY <1>1, FileFacts
<1> HIDE DEF places, rows, parsed
<1>5. places \subseteq Triples /\ IsFiniteSet(places)
  BY <1>2, <1>4, PlacesFacts, FS_Subset
<1>6. /\ found \subseteq Triples /\ IsFiniteSet(found)
      /\ CellsAt(<<rows>>, found) = Offered("file", text)
  BY <1>2, <1>5, FoundFacts
<1> HIDE DEF found
<1>7. ~parsed.truncated
  <2>1. /\ parsed.contacts = Parsed(text).contacts
        /\ parsed.truncated = Parsed(text).truncated
        /\ Texts[text].broken \in BOOLEAN
    BY ContactAssumption DEF parsed
  <2> SUFFICES ASSUME parsed.truncated PROVE FALSE
    OBVIOUS
  <2>2. \/ Texts[text].broken
        \/ ~Texts[text].broken /\ Parsed(text).contacts = <<>>
        \/ ~Texts[text].broken /\ Parsed(text).contacts # <<>>
    BY <2>1
  <2> QED
    BY <2>1, <2>2, Zenon DEF Readable, Refusal
<1>8. Cardinality(found) \in Nat
  BY <1>6, FS_CardinalityType
<1>9. Cardinality(found) <= MaxContacts
  <2>1. ~(Cardinality(found) > MaxContacts)
    BY <1>3, <1>7, Zenon
  <2>2. PICK n, m \in Nat : n = Cardinality(found) /\ m = MaxContacts
    BY <1>8, ContactAssumption
  <2> QED
    BY <2>1, <2>2
<1>10. IsList(parsed.contacts) /\ Range(parsed.contacts) = Offered("file", text)
  BY <1>3, <1>6, <1>9, TakenFacts DEF IsList
<1> QED
  BY <1>10 DEF parsed

\* When Google says that the page read is the last one, every address is looked up, an
\* overflow excepted; and never one that is not in the book.
LEMMA PagesAreRead ==
    ASSUME NEW book \in DOMAIN PagedBooks, NEW read, read = ReadPages(PagedBooks[book])
    PROVE  /\ IsList(read.contacts) /\ Range(read.contacts) \subseteq Offered("google", book)
           /\ read.every => Overflows(book) \/ Range(read.contacts) = Offered("google", book)
<1> DEFINE pages == PagedBooks[book]
           Stops == {n \in 1 .. MaxPages : \/ IsLast(pages, n) \/ n = MaxPages
                                           \/ Cardinality(FoundUntil(pages, n)) >= MaxContacts}
           last == Min(Stops)
           places == {p \in PlacesOf(pages) : p[1] <= last}
           found == Found(pages, places)
<1>1. pages \in Books /\ Offered("google", book) = CellsAt(pages, PlacesOf(pages)) \cap Known
  BY OfferedByGoogle
<1>2. read.contacts = Taken(pages, found) /\ read.every = IsLast(pages, last)
  BY DEF ReadPages, FoundUntil
<1>3. last \in Nat /\ last <= MaxPages
  <2>1. MaxPages \in Stops /\ Stops \subseteq Nat
    BY ContactAssumption
  <2>2. Min(Stops) \in Stops
    <3> HIDE DEF Stops
    <3> QED
      BY <2>1, LeastNumber
  <2> QED
    BY <2>2, ContactAssumption
<1> HIDE DEF pages, last
<1>4. places \subseteq PlacesOf(pages) /\ places \subseteq Triples /\ IsFiniteSet(places)
  BY <1>1, PlacesFacts, FS_Subset
<1>5. /\ found \subseteq Triples /\ IsFiniteSet(found)
      /\ CellsAt(pages, found) = CellsAt(pages, places) \cap Known
  BY <1>4, FoundFacts
<1>6. CellsAt(pages, places) \subseteq CellsAt(pages, PlacesOf(pages))
  BY <1>4 DEF CellsAt
<1>7. IsList(read.contacts) /\ Range(read.contacts) \subseteq CellsAt(pages, found)
  BY <1>2, <1>5, TakenFacts DEF IsList
<1>8. Range(read.contacts) \subseteq Offered("google", book)
  BY <1>1, <1>5, <1>6, <1>7
<1>9. ASSUME read.every, ~Overflows(book) PROVE Range(read.contacts) = Offered("google", book)
  <2>1. last = Len(pages)
    BY <1>2, <1>9 DEF IsLast
  <2>2. \A p \in PlacesOf(pages) : p[1] <= last
    <3> TAKE p \in PlacesOf(pages)
    <3>1. PICK n, i, j \in Nat : IsPlace(pages, n, i, j) /\ p = <<n, i, j>>
      BY <1>1, PlacesFacts
    <3>2. n \in 1 .. Len(pages)
      BY <1>1, <3>1, BookFacts DEF IsPlace
    <3> QED
      BY <2>1, <3>1, <3>2
  <2>3. places = PlacesOf(pages)
    BY <2>2
  <2>4. Cardinality(found) <= MaxContacts
    BY <1>3, <1>9, <2>1, <2>3, FewOnPages DEF pages
  <2>5. Range(read.contacts) = CellsAt(pages, found)
    BY <1>2, <1>5, <2>4, TakenFacts
  <2> QED
    BY <1>1, <1>5, <2>3, <2>5
<1> QED
  BY <1>7, <1>8, <1>9

\* The numbers of an answer add up.
LEMMA NumbersAddUp ==
    ASSUME here \subseteq Known, NEW contacts, IsList(contacts), NEW rows \in Matches(contacts),
           NEW sent \in Shown(rows), NEW book, NEW truncated, NEW r,
           r = ResultOf(book, contacts, rows, sent, truncated)
    PROVE  /\ r.count + r.unmatched = r.scanned
           /\ r.matched \subseteq Range(contacts) \ {Asker} /\ r.looked = Range(contacts)
           /\ r.book = book /\ r.truncated = truncated
<1>1. rows \subseteq (Range(contacts) \cap here) \ {Asker}
  BY DEF Matches
<1>2. sent \subseteq rows
  BY DEF Shown
<1>3. PICK n \in Nat : n = Len(contacts) /\ DOMAIN contacts = 1 .. n
  BY DEF IsList
<1>4. Cardinality(Range(contacts)) <= n /\ IsFiniteSet(Range(contacts))
  <2> DEFINE f == [k \in 1 .. n |-> contacts[k]]
  <2>1. f \in Surjection(1 .. n, Range(contacts))
    BY <1>3 DEF Surjection, Range
  <2>2. IsFiniteSet(1 .. n) /\ Cardinality(1 .. n) = n
    BY FS_Interval
  <2> HIDE DEF f
  <2> QED
    BY <2>1, <2>2, FS_Surjection
<1>5. IsFiniteSet(rows) /\ Cardinality(rows) <= Cardinality(Range(contacts))
  BY <1>1, <1>4, FS_Subset
<1>6. PICK k \in Nat : k = Cardinality(rows)
  BY <1>5, FS_CardinalityType
<1>7. k <= n
  BY <1>4, <1>5, <1>6, FS_CardinalityType
<1>8. r.count = k /\ r.scanned = n /\ r.unmatched = IF n < k THEN 0 ELSE n - k
  BY <1>3, <1>6 DEF ResultOf
<1>9. r.matched = sent /\ r.looked = Range(contacts) /\ r.book = book /\ r.truncated = truncated
  BY DEF ResultOf
<1> QED
  BY <1>1, <1>2, <1>7, <1>8, <1>9

LEMMA FileAnswersWhole ==
    ASSUME here \subseteq Known, NEW text \in DOMAIN Texts, Readable(text),
           NEW rows \in Matches(Parsed(text).contacts), NEW sent \in Shown(rows)
    PROVE  Whole("file", ResultOf(text, Parsed(text).contacts, rows, sent, FALSE))
<1>1. PICK contacts, short, r : /\ contacts = Parsed(text).contacts /\ short = FALSE
                               /\ r = ResultOf(text, contacts, rows, sent, short)
  OBVIOUS
<1>2. IsList(contacts) /\ Range(contacts) = Offered("file", text) /\ rows \in Matches(contacts)
  BY <1>1, FileIsRead
<1>3. /\ r.count + r.unmatched = r.scanned
      /\ r.matched \subseteq Range(contacts) \ {Asker} /\ r.looked = Range(contacts) /\ r.book = text
  BY <1>1, <1>2, NumbersAddUp
<1>4. Whole("file", r)
  BY <1>2, <1>3 DEF Whole
<1> QED
  BY <1>1, <1>4

LEMMA GoogleAnswersWhole ==
    ASSUME here \subseteq Known, NEW book \in DOMAIN PagedBooks, NEW read,
           read = ReadPages(PagedBooks[book]),
           NEW rows \in Matches(read.contacts), NEW sent \in Shown(rows)
    PROVE  Whole("google", ResultOf(book, read.contacts, rows, sent, ~read.every))
<1> DEFINE contacts == read.contacts
           r == ResultOf(book, contacts, rows, sent, ~read.every)
<1>1. /\ IsList(contacts) /\ Range(contacts) \subseteq Offered("google", book)
      /\ read.every => Overflows(book) \/ Range(contacts) = Offered("google", book)
  BY PagesAreRead
<1>2. /\ r.count + r.unmatched = r.scanned
      /\ r.matched \subseteq Range(contacts) \ {Asker} /\ r.looked = Range(contacts) /\ r.book = book
      /\ r.truncated = ~read.every
  BY <1>1, NumbersAddUp
<1> HIDE DEF r
<1>3. Whole("google", r)
  BY <1>1, <1>2 DEF Whole
<1> QED
  BY <1>3 DEF r

-----------------------------------------------------------------------------
\* Whatever is shown or answered is whole, of known addresses, and no more than the limit.
Honest(d, result) ==
    /\ result.matched \subseteq Known /\ Cardinality(result.matched) <= ShownLimit
    /\ Whole(d, result)

AnswerRecord(d, r) ==
    /\ DOMAIN r = {"at", "book", "error", "result"}
    /\ r.at \in {"none", "sent", "answered"} /\ Honest(d, r.result)
    /\ d = "file" /\ r.at = "sent" => r.book \in DOMAIN Texts
ScreenRecord(d, s) ==
    /\ DOMAIN s = {"text", "named", "reading", "busy", "shown", "error"}
    /\ Honest(d, s.shown)
    /\ s.text \in DOMAIN Texts \cup {NoText} /\ s.reading \subseteq DOMAIN Texts

ContactInv ==
    /\ here \subseteq Known /\ left \in 0 .. Budget /\ google \in DOMAIN PagedBooks
    /\ DOMAIN request = Doors /\ DOMAIN screen = Doors
    /\ \A d \in Doors : AnswerRecord(d, request[d]) /\ ScreenRecord(d, screen[d])

LEMMA NothingShown ==
    ASSUME NEW d
    PROVE  Honest(d, NoResult) /\ AnswerRecord(d, NoRequest) /\ ScreenRecord(d, BlankPanel)
<1>1. Cardinality({}) = 0
  BY FS_EmptySet
<1>2. Whole(d, NoResult)
  BY Zenon DEF Whole
<1>3. Honest(d, NoResult)
  BY <1>1, <1>2, ContactAssumption DEF Honest, NoResult
<1> QED
  BY <1>3 DEF AnswerRecord, ScreenRecord, NoRequest, BlankPanel

LEMMA FewSent ==
    ASSUME here \subseteq Known, NEW book, NEW contacts, NEW rows \in Matches(contacts),
           NEW sent \in Shown(rows), NEW truncated, NEW d,
           Whole(d, ResultOf(book, contacts, rows, sent, truncated))
    PROVE  Honest(d, ResultOf(book, contacts, rows, sent, truncated))
<1>1. rows \subseteq Known
  BY DEF Matches
<1>2. sent \subseteq rows /\ Cardinality(sent) = IF Cardinality(rows) < ShownLimit
                                                THEN Cardinality(rows) ELSE ShownLimit
  BY DEF Shown
<1>3. Cardinality(rows) \in Nat
  BY <1>1, ContactAssumption, FS_Subset, FS_CardinalityType
<1>4. sent \subseteq Known /\ Cardinality(sent) <= ShownLimit
  BY <1>1, <1>2, <1>3, ContactAssumption
<1>5. ResultOf(book, contacts, rows, sent, truncated).matched = sent
  BY DEF ResultOf
<1> QED
  BY <1>4, <1>5 DEF Honest

\* The request of one door is answered or refused.
LEMMA AnswersFew ==
    ASSUME ContactInv, NEW d \in Doors, NEW x,
           \/ request' = [request EXCEPT ![d] = x] /\ AnswerRecord(d, x)
           \/ \E code : Refuse(d, code)
           \/ Honest(d, x) /\ AnswerWith(d, x)
    PROVE  DOMAIN request' = Doors /\ \A e \in Doors : AnswerRecord(e, request'[e])
<1>1. DOMAIN request = Doors /\ \A e \in Doors : AnswerRecord(e, request[e])
  BY DEF ContactInv
<1> DEFINE r == request[d]
<1>2. DOMAIN r = {"at", "book", "error", "result"} /\ Honest(d, r.result)
  BY <1>1 DEF AnswerRecord
<1>3. ASSUME NEW code, Refuse(d, code)
      PROVE  request' = [request EXCEPT ![d] = [r EXCEPT !.at = "answered", !.error = code]]
  BY <1>1, <1>3 DEF Refuse
<1>4. ASSUME AnswerWith(d, x)
      PROVE  request' = [request EXCEPT ![d] = [r EXCEPT !.at = "answered", !.result = x]]
  BY <1>1, <1>4 DEF AnswerWith
<1>5. \A code : AnswerRecord(d, [r EXCEPT !.at = "answered", !.error = code])
  BY <1>2 DEF AnswerRecord
<1>6. Honest(d, x) => AnswerRecord(d, [r EXCEPT !.at = "answered", !.result = x])
  BY <1>2 DEF AnswerRecord
<1> HIDE DEF r
<1>7. PICK y : AnswerRecord(d, y) /\ request' = [request EXCEPT ![d] = y]
  BY <1>3, <1>4, <1>5, <1>6
<1> QED
  BY <1>1, <1>7

LEMMA ContactStarts == ContactInit => ContactInv
BY NothingShown, ContactAssumption DEF ContactInit, ContactInv

LEMMA ContactKeeps == ContactInv /\ [ContactNext]_contactVars => ContactInv'
<1> SUFFICES ASSUME ContactInv, [ContactNext]_contactVars PROVE ContactInv'
  OBVIOUS
<1>0. /\ here \subseteq Known /\ left \in 0 .. Budget
      /\ DOMAIN request = Doors /\ DOMAIN screen = Doors
      /\ \A d \in Doors : AnswerRecord(d, request[d]) /\ ScreenRecord(d, screen[d])
      /\ google \in DOMAIN PagedBooks /\ "file" \in Doors /\ "google" \in Doors
  BY DEF ContactInv, Doors
<1>1. CASE ServeFile
  <2> DEFINE text == request["file"].book
             contacts == Parsed(text).contacts
             Answers == /\ Readable(text)
                        /\ \E rows \in Matches(contacts) : \E sent \in Shown(rows) :
                              AnswerWith("file", ResultOf(text, contacts, rows, sent, FALSE))
             Served == /\ UNCHANGED <<here, google, screen>>
                       /\ left' = left \/ (left > 0 /\ left' = left - 1)
                       /\ (\E code : Refuse("file", code)) \/ Answers
  <2>0. left \in Nat
    BY <1>0, ContactAssumption
  <2>1. ASSUME Texts[text].huge PROVE Served
    <3>1. Refuse("file", "payload_too_large") /\ UNCHANGED <<here, google, screen, left>>
      BY <1>1, <2>1 DEF ServeFile
    <3> QED
      BY <3>1
  <2>2. ASSUME ~Texts[text].huge /\ left = 0 PROVE Served
    <3>1. Refuse("file", "rate_limited") /\ UNCHANGED <<here, google, screen, left>>
      BY <1>1, <2>2 DEF ServeFile
    <3> QED
      BY <3>1
  <2>3. ASSUME ~Texts[text].huge /\ left > 0 PROVE Served
    <3> DEFINE Read == /\ left' = left - 1
                       /\ IF Refusal(text) # "" THEN Refuse("file", Refusal(text))
                          ELSE \E rows \in Matches(contacts) : \E sent \in Shown(rows) :
                                  AnswerWith("file", ResultOf(text, contacts, rows, sent, FALSE))
    <3>1. /\ UNCHANGED <<here, google, screen, moves>>
          /\ CASE Texts[text].huge -> Refuse("file", "payload_too_large") /\ UNCHANGED left
               [] ~Texts[text].huge /\ left = 0 -> Refuse("file", "rate_limited") /\ UNCHANGED left
               [] ~Texts[text].huge /\ left > 0 -> Read
      BY <1>1, Zenon DEF ServeFile
    <3>2. Read => Refuse("file", Refusal(text)) \/ Answers
      BY Zenon DEF Readable
    <3>3. Read => left' = left - 1
      BY Zenon
    <3> HIDE DEF Read
    <3>4. ~Texts[text].huge /\ left # 0 /\ left > 0
      BY <2>0, <2>3
    <3>5. Read
      BY <3>1, <3>4, Zenon
    <3> QED
      BY <2>3, <3>1, <3>2, <3>3, <3>5
  <2>4. Served
    <3>1. Texts[text].huge \/ (~Texts[text].huge /\ left = 0) \/ (~Texts[text].huge /\ left > 0)
      BY <2>0
    <3> HIDE DEF Served
    <3> QED
      BY <2>1, <2>2, <2>3, <3>1, Zenon
  <2>5. UNCHANGED <<here, google, screen>> /\ (left' = left \/ (left > 0 /\ left' = left - 1))
    BY <2>4
  <2>6. (\E code : Refuse("file", code)) \/ Answers
    BY <2>4
  <2>10. text \in DOMAIN Texts
    BY <1>0, <1>1 DEF ServeFile, AnswerRecord
  <2> HIDE DEF text, Served
  <2>11. Readable(text) => \A rows \in Matches(contacts) : \A sent \in Shown(rows) :
            Honest("file", ResultOf(text, contacts, rows, sent, FALSE))
    BY <1>0, <2>10, FileAnswersWhole, FewSent
  <2> HIDE DEF contacts
  <2>7. \E x : \/ \E code : Refuse("file", code)
               \/ Honest("file", x) /\ AnswerWith("file", x)
    BY <2>6, <2>11
  <2> HIDE DEF Answers
  <2>8. DOMAIN request' = Doors /\ \A e \in Doors : AnswerRecord(e, request'[e])
    BY <1>0, <2>7, AnswersFew
  <2>9. left' \in 0 .. Budget
    BY <1>0, <2>5, ContactAssumption
  <2> QED
    BY <1>0, <2>5, <2>8, <2>9 DEF ContactInv
<1>2. CASE ServeGoogle
  <2> DEFINE read == ReadPages(PagedBooks[google])
  <2>1. UNCHANGED <<here, google, screen>> /\ (left' = left \/ (left # 0 /\ left' = left - 1))
    BY <1>2 DEF ServeGoogle
  <2>2. \/ \E code : Refuse("google", code)
        \/ \E rows \in Matches(read.contacts) : \E sent \in Shown(rows) :
              AnswerWith("google", ResultOf(google, read.contacts, rows, sent, ~read.every))
    BY <1>2, Zenon DEF ServeGoogle
  <2>6. \A rows \in Matches(read.contacts) : \A sent \in Shown(rows) :
            Honest("google", ResultOf(google, read.contacts, rows, sent, ~read.every))
    BY <1>0, GoogleAnswersWhole, FewSent
  <2> HIDE DEF read
  <2>3. \E x : \/ \E code : Refuse("google", code)
               \/ Honest("google", x) /\ AnswerWith("google", x)
    BY <2>2, <2>6
  <2>4. DOMAIN request' = Doors /\ \A e \in Doors : AnswerRecord(e, request'[e])
    BY <1>0, <2>3, AnswersFew
  <2>5. left' \in 0 .. Budget
    BY <1>0, <2>1, ContactAssumption
  <2> QED
    BY <1>0, <2>1, <2>4, <2>5 DEF ContactInv
<1>3. CASE Refill
  BY <1>0, <1>3, ContactAssumption DEF Refill, ContactInv
<1>4. ASSUME NEW a \in Known, ComeOrGo(a) PROVE ContactInv'
  BY <1>0, <1>4 DEF ComeOrGo, ContactInv
<1>5. ASSUME NEW book \in DOMAIN PagedBooks, ChangeBook(book) PROVE ContactInv'
  BY <1>0, <1>5 DEF ChangeBook, ContactInv
<1>6. ASSUME NEW text \in DOMAIN Texts, PickFile(text) \/ FileRead(text) \/ TypeText(text) PROVE ContactInv'
  <2>1. PICK new : ScreenRecord("file", new) /\ FilePanel(new)
    <3>1. ScreenRecord("file", screen["file"])
      BY <1>0
    <3> QED
      BY <1>6, <3>1, NothingShown DEF PickFile, FileRead, TypeText, ScreenRecord
  <2> QED
    BY <1>0, <2>1 DEF FilePanel, ContactInv
<1>7. CASE UnpickFile
  <2>1. PICK new : ScreenRecord("file", new) /\ FilePanel(new)
    <3>1. ScreenRecord("file", screen["file"])
      BY <1>0
    <3> QED
      BY <1>7, <3>1, NothingShown DEF UnpickFile, ScreenRecord
  <2> QED
    BY <1>0, <2>1 DEF FilePanel, ContactInv
<1>8. ASSUME NEW d \in Doors, AskWhoIsHere(d) PROVE ContactInv'
  <2> DEFINE s == screen[d]
             new == [s EXCEPT !.busy = TRUE, !.error = "none", !.shown = NoResult]
             asked == [NoRequest EXCEPT !.at = "sent",
                          !.book = IF d = "file" THEN screen[d].text ELSE "none"]
  <2>1. UNCHANGED <<here, google, left>> /\ request' = [request EXCEPT ![d] = asked]
    BY <1>8 DEF AskWhoIsHere
  <2>2. /\ DOMAIN s = {"text", "named", "reading", "busy", "shown", "error"}
        /\ s.text \in DOMAIN Texts \cup {NoText} /\ s.reading \subseteq DOMAIN Texts
        /\ d = "file" => s.text # NoText
    BY <1>0, <1>8 DEF ScreenRecord, AskWhoIsHere
  <2>3. screen' = [screen EXCEPT ![d] = new]
    BY <1>0, <1>8 DEF AskWhoIsHere
  <2>4. ScreenRecord(d, new)
    <3>1. Honest(d, NoResult)
      BY NothingShown
    <3> QED
      BY <2>2, <3>1 DEF ScreenRecord
  <2>5. AnswerRecord(d, asked)
    <3>1. AnswerRecord(d, NoRequest)
      BY NothingShown
    <3> QED
      BY <2>2, <3>1 DEF AnswerRecord, NoRequest
  <2> HIDE DEF s, new, asked
  <2> QED
    BY <1>0, <2>1, <2>3, <2>4, <2>5 DEF ContactInv
<1>9. ASSUME NEW d \in Doors, ComeBack(d) PROVE ContactInv'
  <2> DEFINE s == screen[d]
             good == [s EXCEPT !.busy = FALSE, !.shown = request[d].result, !.text = NoText,
                               !.named = NoText]
  <2>1. UNCHANGED <<here, google, left>> /\ request' = [request EXCEPT ![d] = NoRequest]
    BY <1>9 DEF ComeBack
  <2>2. /\ DOMAIN s = {"text", "named", "reading", "busy", "shown", "error"} /\ Honest(d, s.shown)
        /\ s.text \in DOMAIN Texts \cup {NoText} /\ s.reading \subseteq DOMAIN Texts
    BY <1>0 DEF ScreenRecord
  <2>3. Honest(d, request[d].result)
    BY <1>0 DEF AnswerRecord
  <2>4. \/ screen' = [screen EXCEPT ![d] = good]
        \/ \E code : screen' = [screen EXCEPT ![d] = [s EXCEPT !.busy = FALSE, !.error = code]]
    BY <1>0, <1>9 DEF ComeBack
  <2>5. ScreenRecord(d, good)
    BY <2>2, <2>3 DEF ScreenRecord
  <2>6. \A code : ScreenRecord(d, [s EXCEPT !.busy = FALSE, !.error = code])
    BY <2>2 DEF ScreenRecord
  <2> HIDE DEF s, good
  <2>7. PICK new : ScreenRecord(d, new) /\ screen' = [screen EXCEPT ![d] = new]
    BY <2>4, <2>5, <2>6
  <2>8. DOMAIN screen' = Doors /\ \A e \in Doors : ScreenRecord(e, screen'[e])
    BY <1>0, <2>7
  <2> QED
    BY <1>0, <2>1, <2>8, NothingShown DEF ContactInv
<1>10. CASE LeavePage
  BY <1>0, <1>10, NothingShown DEF LeavePage, ContactInv
<1>11. CASE UNCHANGED contactVars
  BY <1>0, <1>11 DEF contactVars, ContactInv
<1> QED
  BY <1>1, <1>2, <1>3, <1>4, <1>5, <1>6, <1>7, <1>8, <1>9, <1>10, <1>11 DEF ContactNext

\* The lines of an address book that are addresses are looked up, all of them or the answer says
\* that it was cut short (contact-import.ts:25): AnswersWhole of ContactMatch, for every book.
THEOREM AnswersAreWhole == ContactSpec => []AnswersWhole
<1>1. ContactInv => AnswersWhole
  BY DEF ContactInv, ScreenRecord, Honest, AnswersWhole
<1> QED
  BY <1>1, ContactStarts, ContactKeeps, PTL DEF ContactSpec

-----------------------------------------------------------------------------
(* What an import counts *)

\* What an open commit has counted and what it has left to write make up its plan.
LEMMA CountsAddUp ==
    ASSUME ImportInv, NEW r \in Imports, req[r].at = "open"
    PROVE  req[r].counts.inserts + req[r].counts.updates + Cardinality(req[r].left)
               = Cardinality(DOMAIN req[r].plan.records)
<1> DEFINE records == req[r].plan.records
           done == DOMAIN records \ req[r].left
           keys == WroteKeys(r)
           made == {k \in keys : registrations[k] = NoRow}
           changed == {k \in keys : registrations[k] # NoRow}
           key == [i \in done |-> Key(records[i])]
<1>1. /\ req[r].plan \in Plans /\ req[r].left \subseteq DOMAIN records
      /\ req[r].wrote = {records[i] : i \in done}
      /\ req[r].counts.inserts = Cardinality(made) /\ req[r].counts.updates = Cardinality(changed)
  <2>1. Sound(r)
    BY DEF ImportInv
  <2>2. req[r].counts = [inserts |-> Cardinality(made), updates |-> Cardinality(changed),
                         skips |-> req[r].plan.skips]
    BY <2>1, Zenon DEF Sound
  <2>3. /\ req[r].plan \in Plans /\ req[r].left \subseteq DOMAIN records
        /\ req[r].wrote = {records[i] : i \in done}
    BY <2>1, Zenon DEF Sound
  <2> HIDE DEF records, done, keys, made, changed
  <2> QED
    BY <2>2, <2>3
<1>2. IsFiniteSet(DOMAIN records) /\ \A i, j \in DOMAIN records :
                                        Key(records[i]) = Key(records[j]) => i = j
  BY <1>1, PlanFacts
<1>3. keys = {Key(records[i]) : i \in done}
  BY <1>1 DEF WroteKeys
<1>4. key \in Surjection(done, keys) /\ key \in Injection(done, keys)
  BY <1>2, <1>3 DEF Surjection, Injection, IsInjective
<1> HIDE DEF records, done, keys, made, changed, key
<1>5. done = DOMAIN records \ req[r].left /\ DOMAIN records \cap req[r].left = req[r].left
  BY <1>1 DEF done
<1>6. IsFiniteSet(req[r].left) /\ IsFiniteSet(done)
  BY <1>1, <1>2, <1>5, FS_Subset
<1>7. Cardinality(done) = Cardinality(DOMAIN records) - Cardinality(req[r].left)
  BY <1>2, <1>5, FS_Difference
<1>8. IsFiniteSet(keys) /\ Cardinality(keys) = Cardinality(done)
  BY <1>4, <1>6, FS_Surjection
<1>9. IsFiniteSet(made) /\ IsFiniteSet(changed) /\ made \cup changed = keys
      /\ made \cap changed = {}
  BY <1>8, FS_Subset DEF made, changed
<1>10. Cardinality(keys) = Cardinality(made) + Cardinality(changed) - Cardinality({})
  BY <1>9, FS_Union
<1>11. Cardinality({}) = 0
  BY FS_EmptySet
<1>12. /\ Cardinality(done) \in Nat /\ Cardinality(made) \in Nat /\ Cardinality(changed) \in Nat
       /\ Cardinality(DOMAIN records) \in Nat /\ Cardinality(req[r].left) \in Nat
  BY <1>2, <1>6, <1>9, FS_CardinalityType
<1>13. Cardinality(made) + Cardinality(changed) + Cardinality(req[r].left)
          = Cardinality(DOMAIN records)
  BY <1>7, <1>8, <1>10, <1>11, <1>12
<1> QED
  BY <1>1, <1>13 DEF records

\* A row is one of an earlier import or of a file.
RowsHaveSources ==
    \A k \in RowKeys : registrations[k] = NoRow
                       \/ registrations[k].from[1] \in Files \cup {"earlier"}

LEMMA SourcesStart == ImportInit => RowsHaveSources
<1> SUFFICES ASSUME ImportInit, NEW k \in RowKeys, registrations[k] # NoRow
             PROVE  registrations[k].from[1] \in Files \cup {"earlier"}
  BY DEF RowsHaveSources
<1>1. registrations[k] = [email |-> "", from |-> <<"earlier", 0>>]
  BY DEF ImportInit
<1>2. PICK row : row = [email |-> "", from |-> <<"earlier", 0>>]
  OBVIOUS
<1>3. row.from = <<"earlier", 0>>
  BY <1>2
<1>4. registrations[k] = row
  BY <1>1, <1>2
<1> QED
  BY <1>3, <1>4

LEMMA SourcesStay ==
    ASSUME RowsHaveSources, [ImportNext]_<<registrations, told>>
    PROVE  RowsHaveSources'
<1>1. ASSUME NEW r \in Imports, NEW plan \in Plans, CommitFile(r, plan) PROVE RowsHaveSources'
  <2>1. registrations' = Merged(Range(plan.records), registrations)
    BY <1>1 DEF CommitFile
  <2>2. \A s \in Range(plan.records) : s.from[1] \in Files
    <3>0. PICK p \in {q \in Files \X Selections : Valid(q[1], q[2])} : plan = PlanOf(p[1], p[2])
      BY Zenon DEF Plans
    <3>1. PICK f \in Files, s \in Selections : plan = PlanOf(f, s)
      BY <3>0
    <3>2. \A i \in DOMAIN plan.records : plan.records[i] = Record(f, Resolved(f, s), i)
      BY <3>1 DEF PlanOf
    <3>3. \A i : Record(f, Resolved(f, s), i).from[1] = f
      BY DEF Record
    <3> QED
      BY <3>2, <3>3 DEF Range
  <2>3. \A k \in RowKeys : registrations'[k] = registrations[k] \/ registrations'[k].from[1] \in Files
    <3> TAKE k \in RowKeys
    <3> DEFINE records == Range(plan.records)
               s == CHOOSE x \in records : Key(x) = k
    <3>1. CASE \E x \in records : Key(x) = k
      <4>1. s \in records
        BY <3>1
      <4>2. registrations'[k] = Upserted(s, registrations[k])
        BY <2>1, <3>1 DEF Merged
      <4>3. PICK row : row = Upserted(s, registrations[k])
        OBVIOUS
      <4>4. row.from = s.from
        BY <4>3 DEF Upserted
      <4> QED
        BY <2>2, <4>1, <4>2, <4>3, <4>4
    <3>2. CASE ~ \E x \in records : Key(x) = k
      BY <2>1, <3>2 DEF Merged
    <3> QED
      BY <3>1, <3>2
  <2> QED
    BY <2>3 DEF RowsHaveSources
<1>2. ASSUME NEW r \in Imports, NEW plan \in Plans, PreviewFile(r, plan) PROVE RowsHaveSources'
  BY <1>2 DEF PreviewFile, RowsHaveSources
<1>3. ASSUME NEW k \in RowKeys, Expire(k) PROVE RowsHaveSources'
  <2>1. \A i \in RowKeys : registrations'[i] = registrations[i] \/ registrations'[i] = NoRow
    BY <1>3 DEF Expire
  <2> QED
    BY <2>1 DEF RowsHaveSources
<1>4. CASE UNCHANGED <<registrations, told>>
  BY <1>4 DEF RowsHaveSources
<1> QED
  BY <1>1, <1>2, <1>3, <1>4 DEF ImportNext

LEMMA ImportTypes ==
    ASSUME ImportInv, RowsHaveSources
    PROVE  FileImportTypeOK
<1>1. \A r \in Imports : req[r].at \in {"new", "open", "answering", "refused", "ended"}
  BY DEF ImportInv, ImportTyped, RequestRecord
<1>2. held \in [RowKeys -> Imports \cup {"nobody"}] /\ panel.selection \in Selections
  BY DEF ImportInv, ImportTyped, PanelRecord
<1> QED
  BY <1>1, <1>2, CountsAddUp, Zenon DEF FileImportTypeOK, RowsHaveSources

-----------------------------------------------------------------------------
(* The sum *)

\* A behaviour of the sum is one of each component that takes part in it from its own initial
\* states: what is proved of the import holds of the sum that is model-checked.
THEOREM OrganizerCompose ==
    OrganizerSpec => /\ FileImportSpec /\ BackfillSpec /\ ContactSpec
                     /\ part = "matching" => MatchingSpec
<1>1. OrganizerInit => /\ FileImportInit /\ BackfillInit /\ ContactInit
                       /\ part = "matching" => MatchingInit
  BY DEF OrganizerInit
<1>2. [OrganizerNext]_organizerVars => /\ [FileImportNext]_importVars
                                       /\ [BackfillNext]_backfillVars
                                       /\ [ContactNext]_contactVars
                                       /\ [MatchingNext]_matchingVars
  BY DEF OrganizerNext, organizerVars
<1> QED
  BY <1>1, <1>2, PTL DEF OrganizerSpec, FileImportSpec, BackfillSpec, ContactSpec, MatchingSpec

\* Every variable of every component keeps to its type, what an open import has counted and
\* what it has left make up its plan, and no panel shows more matches than the limit: for any
\* files, members, tags and address books.
THEOREM OrganizerTypes == OrganizerSpec => []OrganizerTypesOK
<1> DEFINE Inv == /\ ImportInv /\ RowsHaveSources /\ MatchingTypeOK
                  /\ BackfillInv /\ ContactInv
<1>1. OrganizerInit => Inv
  <2> SUFFICES ASSUME OrganizerInit PROVE Inv
    OBVIOUS
  <2>1. FileImportInit /\ BackfillInit /\ ContactInit
    BY DEF OrganizerInit
  <2>2. RowsHaveSources
    BY <2>1, SourcesStart DEF FileImportInit
  <2>3. CASE part = "matching"
    BY <2>1, <2>2, <2>3, InitImport, MatchingTypesInit, BackfillStarts, ContactStarts
       DEF OrganizerInit
  <2>4. CASE part # "matching"
    <3>1. NobodyThere
      BY <2>4 DEF OrganizerInit
    <3>2. Somebody \in Profiles
      BY MatchingAssumption DEF Somebody
    <3>3. MatchingTypeOK
      BY <3>1, <3>2 DEF NobodyThere, MatchingTypeOK, Modes, Memberships, Joined, IntroStates
    <3> QED
      BY <2>1, <2>2, <3>3, InitImport, BackfillStarts, ContactStarts
  <2> QED
    BY <2>3, <2>4
<1>2. Inv /\ [OrganizerNext]_organizerVars => Inv'
  <2> SUFFICES ASSUME Inv, [OrganizerNext]_organizerVars PROVE Inv'
    OBVIOUS
  <2>1. [FileImportNext]_importVars /\ [BackfillNext]_backfillVars /\ [ContactNext]_contactVars
        /\ [MatchingNext]_matchingVars
    BY DEF OrganizerNext, organizerVars
  <2>2. ImportInv' /\ RowsHaveSources'
    BY <2>1, ImportStep, SourcesStay
  <2> QED
    BY <2>1, <2>2, MatchingTypesStep, BackfillKeeps, ContactKeeps
<1>3. Inv => OrganizerTypesOK
  <2> SUFFICES ASSUME Inv PROVE OrganizerTypesOK
    OBVIOUS
  <2>1. FileImportTypeOK /\ BackfillTypeOK
    BY ImportTypes, BackfillTyped
  <2>2. ContactTypeOK
    BY DEF ContactInv, ContactTypeOK, AnswerRecord, ScreenRecord, Honest
  <2> QED
    BY <2>1, <2>2 DEF OrganizerTypesOK
<1> HIDE DEF Inv
<1> QED
  BY <1>1, <1>2, <1>3, PTL DEF OrganizerSpec
=============================================================================

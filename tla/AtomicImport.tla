----------------------------- MODULE AtomicImport -----------------------------
(***************************************************************************)
(* What an organizer's import promises: the rows of a file are mapped to   *)
(* records, one record for an upsert key, and a commit writes all of them  *)
(* at once and says how many rows it made and changed, which is what a     *)
(* preview of the same file would have said a moment before.               *)
(***************************************************************************)
EXTENDS FiniteSets, Naturals, SequencesExt

CONSTANTS
    Files,          \* names of files
    Content(_),     \* a file: its columns, and its rows as functions of them
    Addresses,      \* the cells that are e-mail addresses
    Imports,        \* requests
    Earlier         \* keys of the rows of an earlier import

VARIABLES
    registrations,  \* rows of the event, by their external_guest_id
    told            \* what each request counted

Columns == UNION {Content(f).columns : f \in Files}
Cells == UNION {UNION {Range(row) : row \in Range(Content(f).rows)} : f \in Files}
Fields == {"email", "external_id"}
RowKeys == {"email", "external_id"} \X (Cells \ {""})

ASSUME ImportAssumption ==
    /\ "none" \notin Files \cup Columns /\ "nobody" \notin Imports
    /\ \A f \in Files : LET rows == Content(f).rows IN
                           Len(rows) \in Nat /\ DOMAIN rows = 1 .. Len(rows)

NoRow == [email |-> "", from |-> <<"none", 0>>]
NoSelection == [c \in Columns |-> "ignore"]
Nothing == [inserts |-> 0, updates |-> 0, skips |-> 0]

-----------------------------------------------------------------------------
(* What a row is mapped to *)

\* validateMapping: every column named is one of the file, no field has two.
Valid(f, selection) ==
    LET chosen == {c \in Columns : selection[c] # "ignore"} IN
    /\ chosen \subseteq Content(f).columns
    /\ \A c, d \in chosen : selection[c] = selection[d] => c = d

\* resolveHeaderIndex: the column the organizer chose, or else the one called like the
\* field, ignored or not.
Resolved(f, selection) ==
    [field \in Fields |->
        LET chosen == {c \in Columns : selection[c] = field} IN
        CASE chosen # {} -> CHOOSE c \in chosen : TRUE
          [] chosen = {} /\ field \in Content(f).columns -> field
          [] OTHER -> "none"]

Cell(row, column) == IF column \in DOMAIN row THEN row[column] ELSE ""

\* normalizeImportedEmail
Email(cell) == IF cell \in Addresses THEN cell ELSE ""

\* The key of a row: its external id, else its email; <<>> if it has neither.
Key(record) ==
    CASE record.id # "" -> <<"external_id", record.id>>
      [] record.id = "" /\ record.email # "" -> <<"email", record.email>>
      [] OTHER -> <<>>

\* Every row has a name, so none is refused; its place in the file stands for its texts.
Record(f, mapping, i) ==
    [id |-> Cell(Content(f).rows[i], mapping["external_id"]),
     email |-> Email(Cell(Content(f).rows[i], mapping["email"])), from |-> <<f, i>>]

HasKey(record) == Key(record) # <<>>

\* mapCsvRows: of the rows with one key the first.
First(f, mapping, i) ==
    \A j \in 1 .. i - 1 : Key(Record(f, mapping, j)) # Key(Record(f, mapping, i))

\* The row a record makes of the one that is there; an email once known is kept.
Upserted(record, row) ==
    [email |-> IF record.email = "" THEN row.email ELSE record.email, from |-> record.from]

Selections == [Columns -> Fields \cup {"ignore"}]

\* What each file and selection come to: the records to write, by their rows in the file,
\* and how many have no key.
PlanOf(f, s) ==
    LET mapping == Resolved(f, s)
        keyed == {i \in DOMAIN Content(f).rows : HasKey(Record(f, mapping, i))} IN
    [records |-> [i \in {j \in keyed : First(f, mapping, j)} |-> Record(f, mapping, i)],
     skips |-> Cardinality(DOMAIN Content(f).rows \ keyed)]
Plans == {PlanOf(p[1], p[2]) : p \in {q \in Files \X Selections : Valid(q[1], q[2])}}

\* What writing the records would do to the rows.
Counted(plan, rows) ==
    LET keys == {Key(s) : s \in Range(plan.records)} IN
    [inserts |-> Cardinality({k \in keys : rows[k] = NoRow}),
     updates |-> Cardinality({k \in keys : rows[k] # NoRow}), skips |-> plan.skips]

\* The rows when the records are written.
Merged(records, rows) ==
    [k \in RowKeys |-> IF \E s \in records : Key(s) = k
                    THEN Upserted(CHOOSE s \in records : Key(s) = k, rows[k])
                    ELSE rows[k]]

-----------------------------------------------------------------------------
(* The promise *)

ImportInit ==
    /\ registrations = [k \in RowKeys |->
          IF k \in Earlier THEN [email |-> "", from |-> <<"earlier", 0>>] ELSE NoRow]
    /\ told = [r \in Imports |-> Nothing]

PreviewFile(r, plan) ==
    /\ told' = [told EXCEPT ![r] = Counted(plan, registrations)]
    /\ UNCHANGED registrations

CommitFile(r, plan) ==
    /\ told' = [told EXCEPT ![r] = Counted(plan, registrations)]
    /\ registrations' = Merged(Range(plan.records), registrations)

\* Retention removes a guest nobody claimed.
Expire(k) ==
    /\ registrations' = [registrations EXCEPT ![k] = NoRow]
    /\ UNCHANGED told

ImportNext ==
    \/ \E r \in Imports, plan \in Plans : PreviewFile(r, plan) \/ CommitFile(r, plan)
    \/ \E k \in RowKeys : Expire(k)

ImportSpec == ImportInit /\ [][ImportNext]_<<registrations, told>>
===============================================================================

------------------------------ MODULE FileImport ------------------------------
(***************************************************************************)
(* POST /api/events/{id}/imports and the organizer's import panel.  A      *)
(* commit goes through the records of the file one by one in a             *)
(* transaction; other commits, previews and the retention pass run         *)
(* meanwhile.  The panel reads the picked file, shows the preview with a   *)
(* select for every column, and commits; its file input is never disabled. *)
(***************************************************************************)
EXTENDS AtomicImport

CONSTANT MaxPicks     \* bounds how often the panel is given a file

VARIABLES
    held,           \* the commit that has locked each row or has inserted it
    req,            \* what each request asks, where it is, what it has written so far
    panel,          \* the panel
    reading,        \* files being read, with the selection the picking closure knows
    picks           \* how often a file was picked

importVars == <<registrations, told, held, req, panel, reading, picks>>

NoPreview == [file |-> "none", mapping |-> [field \in Fields |-> "none"]]

EmptyPlan == [records |-> <<>>, skips |-> 0]

\* Of the plan's records those at the places `left` are not written yet.
NewRequest == [at |-> "new", by |-> "client", mode |-> "preview", shown |-> NoPreview,
               plan |-> EmptyPlan, left |-> {}, found |-> FALSE, wrote |-> {},
               counts |-> Nothing]
EndedRequest == [NewRequest EXCEPT !.at = "ended"]

\* `raced` and `changed` are history: a request or a reading overlapped another or a pick;
\* a select was changed since the preview.
EmptyPanel == [file |-> "none", text |-> "none", selection |-> NoSelection,
               shown |-> NoPreview, busy |-> FALSE, raced |-> FALSE, changed |-> FALSE]

FileImportInit ==
    /\ ImportInit
    /\ held = [k \in RowKeys |-> "nobody"]
    /\ req = [r \in Imports |-> NewRequest]
    /\ panel = EmptyPanel
    /\ reading = {}
    /\ picks = 0

-----------------------------------------------------------------------------
(* The route *)

\* What a file and a selection come to.
Asked(f, selection) == [file |-> f, mapping |-> Resolved(f, selection)]

Opened(by, mode, shown, plan) ==
    [NewRequest EXCEPT !.at = "open", !.by = by, !.mode = mode, !.shown = shown,
                       !.plan = plan, !.left = DOMAIN plan.records,
                       !.counts = [Nothing EXCEPT !.skips = plan.skips]]

\* The panel's request reaches the route; an unknown column or a field chosen twice is
\* refused.
Ask(r, mode, f, selection) ==
    /\ req[r] = NewRequest
    /\ req' = [req EXCEPT ![r] =
          IF Valid(f, selection)
          THEN Opened("panel", mode, Asked(f, selection), PlanOf(f, selection))
          ELSE [NewRequest EXCEPT !.at = "refused", !.by = "panel"]]

Answering(q) == [NewRequest EXCEPT !.at = "answering", !.by = q.by, !.mode = q.mode,
                                   !.shown = q.shown]

\* One probe tells which keys are there.
Preview(r) ==
    /\ req[r].at = "open" /\ req[r].mode = "preview"
    /\ told' = [told EXCEPT ![r] = Counted(req[r].plan, registrations)]
    /\ req' = [req EXCEPT ![r] = Answering(@)]
    /\ UNCHANGED <<registrations, held, panel, reading, picks>>

Working(r) == req[r].at = "open" /\ req[r].mode = "commit" /\ req[r].left # {}
NextRecord(r) == req[r].plan.records[Min(req[r].left)]
NextKey(r) == Key(NextRecord(r))
Owns(r, k) == held[k] \in {"nobody", r}

\* Mutant: the row is read without FOR UPDATE.
LockNothing(r, k) == held

Lock(r, k) == [held EXCEPT ![k] = r]

\* SELECT ... FOR UPDATE: waits for a lock; a row nobody has committed is not found.
Select(r) ==
    /\ Working(r) /\ req[r].found = FALSE
    /\ registrations[NextKey(r)] # NoRow
    /\ Owns(r, NextKey(r))
    /\ held' = Lock(r, NextKey(r))
    /\ req' = [req EXCEPT ![r].found = TRUE]
    /\ UNCHANGED <<registrations, told, panel, reading, picks>>

\* Mutant: a row made counts as one changed as well.
CountedTwice(r, field) ==
    [req EXCEPT ![r] = [req[r] EXCEPT !.left = @ \ {Min(@)}, !.found = FALSE,
                                      !.wrote = @ \cup {NextRecord(r)},
                                      !.counts.inserts = @ + 1, !.counts.updates = @ + 1]]

Written(r, field) ==
    [req EXCEPT ![r] = [req[r] EXCEPT !.left = @ \ {Min(@)}, !.found = FALSE,
                                      !.wrote = @ \cup {NextRecord(r)}, !.counts[field] = @ + 1]]

\* UPDATE of the row read; it changes nothing if the row has gone.
Update(r) ==
    /\ Working(r) /\ req[r].found = TRUE
    /\ Owns(r, NextKey(r))
    /\ IF registrations[NextKey(r)] # NoRow
       THEN held' = [held EXCEPT ![NextKey(r)] = r] /\ req' = Written(r, "updates")
       ELSE UNCHANGED held /\ req' = [Written(r, "updates") EXCEPT ![r].wrote = req[r].wrote]
    /\ UNCHANGED <<registrations, told, panel, reading, picks>>

\* SELECT found no row, INSERT makes it: waits for another commit that inserts it too.
Insert(r) ==
    /\ Working(r) /\ req[r].found = FALSE
    /\ registrations[NextKey(r)] = NoRow
    /\ Owns(r, NextKey(r))
    /\ held' = [held EXCEPT ![NextKey(r)] = r]
    /\ req' = Written(r, "inserts")
    /\ UNCHANGED <<registrations, told, panel, reading, picks>>

Released(r) == [k \in RowKeys |-> IF held[k] = r THEN "nobody" ELSE held[k]]

\* The transaction commits, and the counts are made for the audit and the answer.
Commit(r) ==
    /\ req[r].at = "open" /\ req[r].mode = "commit" /\ req[r].left = {}
    /\ req[r].counts # Nothing
    /\ registrations' = Merged(req[r].wrote, registrations)
    /\ told' = [told EXCEPT ![r] = req[r].counts]
    /\ held' = Released(r)
    /\ req' = [req EXCEPT ![r] = Answering(@)]
    /\ UNCHANGED <<panel, reading, picks>>

\* A commit fails as a whole: a row that another commit has inserted since it was looked
\* for, a deadlock, a crash, or a file without importable rows.
Fail(r) ==
    /\ req[r].at = "open"
    /\ held' = Released(r)
    /\ req' = [req EXCEPT ![r] = [NewRequest EXCEPT !.at = "refused", !.by = req[r].by]]
    /\ UNCHANGED <<registrations, told, panel, reading, picks>>

\* The retention pass deletes a row nobody claimed; it waits for a lock.
Retention(k) ==
    /\ registrations[k] # NoRow /\ held[k] = "nobody"
    /\ Expire(k)
    /\ UNCHANGED <<held, req, panel, reading, picks>>

-----------------------------------------------------------------------------
(* The panel *)

InFlight == \E r \in Imports : req[r].by = "panel" /\ req[r].at \in {"open", "answering", "refused"}

\* selectionFromResponse: a select shows one field, the last of those its column feeds.
SelectionFrom(shown) ==
    [c \in Columns |->
        IF shown.mapping["external_id"] = c THEN "external_id"
        ELSE IF shown.mapping["email"] = c THEN "email" ELSE "ignore"]

\* Mutant: the old preview stays on the page while the new file is read.
Kept == [panel EXCEPT !.selection = NoSelection]

Cleared == [panel EXCEPT !.selection = NoSelection, !.shown = NoPreview]

\* pickFile: everything is cleared but the text, which is read meanwhile.
Pick(f) ==
    /\ picks < MaxPicks /\ picks' = picks + 1
    /\ panel' = [Cleared EXCEPT !.file = f, !.raced = InFlight \/ reading # {},
                               !.changed = FALSE]
    /\ reading' = reading \cup {<<f, panel.selection>>}
    /\ UNCHANGED <<registrations, told, held, req>>

\* The file dialog was cancelled.
PickNothing ==
    /\ panel.file # "none"
    /\ panel' = [Cleared EXCEPT !.file = "none", !.text = "none",
                               !.raced = InFlight \/ reading # {}, !.changed = FALSE]
    /\ UNCHANGED <<registrations, told, held, req, reading, picks>>

\* The text is there: preview it, with the selection known when the file was picked.
ReadDone(r) ==
    \E p \in reading :
        /\ Ask(r, "preview", p[1], p[2])
        /\ panel' = [panel EXCEPT !.text = p[1], !.busy = TRUE]
        /\ reading' = reading \ {p}
        /\ UNCHANGED <<registrations, told, held, picks>>

\* The preview, recalculate and commit buttons.
Press(r, mode) ==
    /\ ~panel.busy /\ panel.text # "none"
    /\ IF mode = "commit" THEN panel.shown # NoPreview ELSE panel.file # "none"
    /\ Ask(r, mode, panel.text, panel.selection)
    /\ panel' = [panel EXCEPT !.busy = TRUE, !.raced = @ \/ reading # {}]
    /\ UNCHANGED <<registrations, told, held, reading, picks>>

\* A column's select.
Choose(c, field) ==
    /\ panel.shown # NoPreview /\ c \in Content(panel.shown.file).columns
    /\ panel.selection[c] # field
    /\ panel' = [panel EXCEPT !.selection[c] = field, !.changed = TRUE]
    /\ UNCHANGED <<registrations, told, held, req, reading, picks>>

\* An answer lands, whatever the panel shows by now.
Land(r) ==
    /\ req[r].by = "panel"
    /\ \/ /\ req[r].at = "answering" /\ req[r].mode = "preview"
          /\ panel' = [panel EXCEPT !.shown = req[r].shown, !.changed = FALSE, !.busy = FALSE,
                                    !.selection = SelectionFrom(req[r].shown)]
       \/ /\ req[r].at = "answering" /\ req[r].mode = "commit"
          /\ panel' = [Cleared EXCEPT !.text = "none", !.busy = FALSE]
       \* Refused, failed after the commit, or lost.
       \/ /\ req[r].at \in {"answering", "refused"}
          /\ panel' = [panel EXCEPT !.busy = FALSE]
    /\ req' = [req EXCEPT ![r] = EndedRequest]
    /\ UNCHANGED <<registrations, told, held, reading, picks>>

\* The organizer's program calls the route and sees the answer.
Call(r, mode, plan) ==
    /\ req[r] = NewRequest
    /\ req' = [req EXCEPT ![r] = Opened("client", mode, NoPreview, plan)]
    /\ UNCHANGED <<registrations, told, held, panel, reading, picks>>

Return(r) ==
    /\ req[r].by = "client" /\ req[r].at \in {"answering", "refused"}
    /\ req' = [req EXCEPT ![r] = EndedRequest]
    /\ UNCHANGED <<registrations, told, held, panel, reading, picks>>

FileImportNext ==
    \/ \E r \in Imports :
          \/ Preview(r) \/ Select(r) \/ Update(r) \/ Insert(r) \/ Commit(r) \/ Fail(r)
          \/ ReadDone(r) \/ Land(r) \/ Return(r)
          \/ \E mode \in {"preview", "commit"} :
                \/ Press(r, mode)
                \/ \E plan \in Plans : Call(r, mode, plan)
    \/ \E k \in RowKeys : Retention(k)
    \/ \E f \in Files : Pick(f)
    \/ PickNothing
    \/ \E c \in Columns, field \in Fields \cup {"ignore"} : Choose(c, field)

FileImportSpec == FileImportInit /\ [][FileImportNext]_importVars

-----------------------------------------------------------------------------
FileImportTypeOK ==
    /\ \A k \in RowKeys : registrations[k] = NoRow \/ registrations[k].from[1] \in Files \cup {"earlier"}
    /\ held \in [RowKeys -> Imports \cup {"nobody"}]
    /\ \A r \in Imports : req[r].at \in {"new", "open", "answering", "refused", "ended"}
    /\ \A r \in Imports :
          req[r].at = "open" =>
              req[r].counts.inserts + req[r].counts.updates + Cardinality(req[r].left)
                  = Cardinality(DOMAIN req[r].plan.records)
    /\ panel.selection \in Selections

\* Commits that overlap each other, previews and the retention pass leave the rows and the
\* counts some order of whole imports would have left: an update counted is an update made,
\* and nobody's rows are half there.
ImplementsAtomicImport == ImportSpec

\* A column feeds one field only.
OneFieldPerColumn(shown) == shown.mapping["email"] # shown.mapping["external_id"]

\* Unless a pick, a reading or a request overlapped another or a select was changed since,
\* what the commit button would send is the file and the mapping of the preview above it.
PreviewedIsCommitted ==
    panel.shown # NoPreview /\ ~panel.raced /\ ~panel.changed
        /\ OneFieldPerColumn(panel.shown)
      => /\ Valid(panel.text, panel.selection)
         /\ Asked(panel.text, panel.selection) = panel.shown
===============================================================================

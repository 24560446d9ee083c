----------------------------- MODULE ProfileCard -----------------------------
(***************************************************************************)
(* The public card of one account: the row of profiles with its deny list  *)
(* hidden_fields, the rows of contact_fields with their public flag, and   *)
(* the browser forms that write them: the onboarding wizard, whose draft   *)
(* is in localStorage, the profile editor with its conflict panel, and the *)
(* contacts manager.  The person has any of these forms open at once.      *)
(*                                                                         *)
(* The texts of the card and the step the wizard is at are left out; the   *)
(* storage of the browser works (without it the wizard has no draft).      *)
(***************************************************************************)
EXTENDS FiniteSets, Naturals

CONSTANTS
    CardFields,     \* PUBLIC_FIELD_IDS: the fields hidden_fields may name
    LinkKinds,      \* CONTACT_KINDS: the kinds of contact_fields
    Wizards,        \* browser tabs with the onboarding wizard
    Editors,        \* browser tabs with the profile editor
    MaxRevision     \* bound: saves of the profile

ASSUME CardAssumption == CardFields \cap LinkKinds = {} /\ MaxRevision \in Nat \ {0}

VARIABLES
    profile,        \* the row: revision (0: there is no row) and hidden_fields
    published,      \* the kinds with a row whose public flag is set
    wizard,         \* each tab of the wizard
    draft,          \* the draft in localStorage; none is an empty one
    editor,         \* each tab of the editor
    wanted          \* history: what the person left unticked in the wizard touched last

cardVars == <<profile, published, wizard, draft, editor, wanted>>

Flags == CardFields \cup LinkKinds

NoDraft == [off |-> {}, links |-> {}]

\* off, links: the publish boxes unticked and the links typed; mind: history, what the
\* person means to keep off the card; sent, left, agreed: of the publish under way.
ClosedWizard == [at |-> "closed", off |-> {}, links |-> {}, mind |-> {},
                 sent |-> {}, left |-> {}, agreed |-> {}]

\* ticked: history, the boxes the person ticked in this form.
ClosedEditor == [at |-> "closed", revision |-> 0, hidden |-> {}, conflict |-> 0,
                 ticked |-> {}, sent |-> {}, agreed |-> {}]

ProfileRecord == [revision : 0 .. MaxRevision, hidden : SUBSET CardFields]
DraftRecord == [off : SUBSET Flags, links : SUBSET LinkKinds]
WizardRecord == [at : {"closed", "form", "creating", "linking"},
                 off : SUBSET Flags, links : SUBSET LinkKinds, mind : SUBSET Flags,
                 sent : SUBSET CardFields, left : SUBSET LinkKinds, agreed : SUBSET CardFields]
EditorRecord == [at : {"closed", "form", "creating", "updating"},
                 revision : 0 .. MaxRevision, hidden : SUBSET CardFields,
                 conflict : 0 .. MaxRevision, ticked : SUBSET CardFields,
                 sent : SUBSET CardFields, agreed : SUBSET CardFields]

CardTypeOK ==
    /\ profile \in ProfileRecord /\ published \subseteq LinkKinds
    /\ wizard \in [Wizards -> WizardRecord]
    /\ draft \in DraftRecord
    /\ editor \in [Editors -> EditorRecord]
    /\ wanted \in SUBSET Flags

CardInit ==
    /\ profile = [revision |-> 0, hidden |-> {}]
    /\ published = {}
    /\ wizard = [w \in Wizards |-> ClosedWizard] /\ draft = NoDraft
    /\ editor = [e \in Editors |-> ClosedEditor]
    /\ wanted = {}

-----------------------------------------------------------------------------
(* The onboarding wizard *)

\* serializeDraft, in the effect that runs on every change.
Persisted(form) == [off |-> form.off, links |-> form.links]

Touch(w, form) ==
    /\ wizard' = [wizard EXCEPT ![w] = form]
    /\ draft' = Persisted(form)
    /\ wanted' = form.mind
    /\ UNCHANGED <<profile, published, editor>>

\* The page sends an account with a profile to /me.  A draft of this version is
\* restored: the flags it names come back unticked.
OpenWizard(w) ==
    /\ wizard[w].at = "closed" /\ profile.revision = 0
    /\ wizard' = [wizard EXCEPT ![w] =
          [ClosedWizard EXCEPT !.at = "form", !.off = draft.off, !.links = draft.links,
                               !.mind = wanted]]
    /\ UNCHANGED <<profile, published, draft, editor, wanted>>

\* A publish box, of a field or of a link: like every input it is not disabled while a
\* publish is under way.
WizardFlag(w, f) ==
    LET Flip(S) == IF f \in wizard[w].off THEN S \ {f} ELSE S \cup {f} IN
    /\ wizard[w].at # "closed"
    /\ Touch(w, [wizard[w] EXCEPT !.off = Flip(@), !.mind = Flip(@)])

\* A link typed, applied from an enrichment draft, or blanked.
WizardLink(w, k) ==
    /\ wizard[w].at # "closed"
    /\ Touch(w, [wizard[w] EXCEPT !.links = IF k \in @ THEN @ \ {k} ELSE @ \cup {k}])

\* "Start over"
WizardReset(w) ==
    /\ wizard[w].at # "closed"
    /\ Touch(w, [wizard[w] EXCEPT !.off = {}, !.mind = {}, !.links = {}])

\* The tab is closed or reloaded, between two links too.
CloseWizard(w) ==
    /\ wizard[w].at \in {"form", "linking"}
    /\ wizard' = [wizard EXCEPT ![w] = ClosedWizard]
    /\ UNCHANGED <<profile, published, draft, editor, wanted>>

\* Publish: hidden_fields names every flag that is off, those of the links included,
\* and validateHiddenFields refuses a name that is not a field; a body without a
\* revision is refused when there is a row.
Publish(w) ==
    LET form == wizard[w] IN
    /\ form.at = "form" /\ form.off \subseteq CardFields /\ profile.revision = 0
    /\ wizard' = [wizard EXCEPT ![w] =
          [form EXCEPT !.at = "creating", !.sent = form.off, !.left = form.links,
                       !.agreed = CardFields \ form.mind]]
    /\ UNCHANGED <<profile, published, draft, editor, wanted>>

\* The INSERT: account_id is unique, so a row made meanwhile refuses all five attempts.
Insertable == profile.revision = 0
Insert(hidden) ==
    profile' = IF Insertable THEN [revision |-> 1, hidden |-> hidden] ELSE profile

\* The creating POST ends: it is refused, or the row is made and the answer is heard or
\* lost; the form stays after an error.
PublishEnds(w, heard) ==
    /\ wizard[w].at = "creating"
    /\ Insert(wizard[w].sent)
    /\ wizard' = [wizard EXCEPT ![w] =
          IF Insertable /\ heard THEN [@ EXCEPT !.at = "linking"]
          ELSE [@ EXCEPT !.at = "form", !.sent = {}, !.left = {}, !.agreed = {}]]
    /\ UNCHANGED <<published, draft, editor, wanted>>

\* One link after the other: stored with its flag, or failed and named in the toast.
\* The flag is always on: with one of them off the profile was refused.
PublishLink(w, k, stored) ==
    /\ wizard[w].at = "linking" /\ k \in wizard[w].left
    /\ wizard' = [wizard EXCEPT ![w].left = @ \ {k}]
    /\ published' = IF stored THEN published \cup {k} ELSE published
    /\ UNCHANGED <<profile, draft, editor, wanted>>

\* After the links, failed ones or not, the draft is removed and the card is shown.
PublishDone(w) ==
    /\ wizard[w].at = "linking" /\ wizard[w].left = {}
    /\ wizard' = [wizard EXCEPT ![w] = ClosedWizard]
    /\ draft' = NoDraft /\ wanted' = {}
    /\ UNCHANGED <<profile, published, editor>>

WizardNext ==
    \E w \in Wizards :
        \/ OpenWizard(w) \/ WizardReset(w) \/ CloseWizard(w)
        \/ \E f \in Flags : WizardFlag(w, f)
        \/ \E k \in LinkKinds : WizardLink(w, k) \/ \E b \in BOOLEAN : PublishLink(w, k, b)
        \/ Publish(w) \/ PublishDone(w)
        \/ \E b \in BOOLEAN : PublishEnds(w, b)

-----------------------------------------------------------------------------
(* The profile editor *)

Edit(e, form) ==
    /\ editor' = [editor EXCEPT ![e] = form]
    /\ UNCHANGED <<profile, published, wizard, draft, wanted>>

\* The form as the row is, in the page and after "reload".
Loaded == [ClosedEditor EXCEPT !.at = "form", !.revision = profile.revision,
                               !.hidden = profile.hidden]

OpenEditor(e) == editor[e].at = "closed" /\ Edit(e, Loaded)
CloseEditor(e) == editor[e].at = "form" /\ Edit(e, ClosedEditor)

\* A publish box: not disabled while a save is under way.
EditorFlag(e, f) ==
    /\ editor[e].at # "closed"
    /\ Edit(e, IF f \in editor[e].hidden
               THEN [editor[e] EXCEPT !.hidden = @ \ {f}, !.ticked = @ \cup {f}]
               ELSE [editor[e] EXCEPT !.hidden = @ \cup {f}, !.ticked = @ \ {f}])

Reloaded(e) == Loaded

\* "Reload" in the conflict panel; when the read fails the panel closes all the same.
Reload(e) ==
    /\ editor[e].at = "form" /\ editor[e].conflict # 0
    /\ Edit(e, Reloaded(e)) \/ Edit(e, [editor[e] EXCEPT !.conflict = 0])

\* The form after a save that did not write: nothing of it is kept.
Answered(form) == [form EXCEPT !.at = "form", !.sent = {}, !.agreed = {}]
Conflict(form) == [Answered(form) EXCEPT !.conflict = profile.revision]

\* The revision of the POST: the form's, or on "overwrite" the one the panel shows.
\* The row is read: without one it is created, one of another revision is a conflict
\* (and a form that knows of no revision is refused).  The form keeps the revision asked
\* for: if the UPDATE does not answer with a newer one, it is behind the row like its own.
Save(e, overwrite) ==
    LET form == editor[e]
        expected == IF overwrite THEN form.conflict ELSE form.revision
        sent == [form EXCEPT !.sent = form.hidden,
                             !.agreed = IF overwrite THEN CardFields ELSE form.ticked] IN
    /\ form.at = "form" /\ (overwrite => form.conflict # 0)
    /\ \/ profile.revision = 0 /\ Edit(e, [sent EXCEPT !.at = "creating"])
       \/ /\ profile.revision # 0 /\ expected = profile.revision
          /\ Edit(e, [sent EXCEPT !.at = "updating", !.revision = expected])
       \/ /\ profile.revision # 0 /\ expected \notin {0, profile.revision}
          /\ Edit(e, Conflict(form))

\* Mutant: UPDATE ... WHERE id, without the revision that was read.
UpdatableAlways(e) == TRUE

\* UPDATE ... WHERE id AND revision = the revision read.
Updatable(e) == profile.revision = editor[e].revision

\* The UPDATE and its answer, heard or lost; no row updated is a conflict.
SaveEnds(e, heard) ==
    /\ editor[e].at = "updating" /\ (Updatable(e) => profile.revision < MaxRevision)
    /\ IF Updatable(e)
       THEN /\ profile' = [revision |-> profile.revision + 1, hidden |-> editor[e].sent]
            /\ editor' = [editor EXCEPT ![e] =
                  IF heard THEN [Answered(@) EXCEPT !.revision = profile.revision + 1,
                                                    !.conflict = 0]
                  ELSE Answered(@)]
       ELSE /\ UNCHANGED profile
            /\ editor' = [editor EXCEPT ![e] = Conflict(@)]
    /\ UNCHANGED <<published, wizard, draft, wanted>>

\* The INSERT of an editor that found no row.
CreateEnds(e, heard) ==
    /\ editor[e].at = "creating"
    /\ Insert(editor[e].sent)
    /\ editor' = [editor EXCEPT ![e] =
          IF Insertable /\ heard THEN [Answered(@) EXCEPT !.revision = 1] ELSE Answered(@)]
    /\ UNCHANGED <<published, wizard, draft, wanted>>

EditorNext ==
    \E e \in Editors :
        \/ OpenEditor(e) \/ CloseEditor(e) \/ Reload(e)
        \/ \E f \in CardFields : EditorFlag(e, f)
        \/ \E b \in BOOLEAN : Save(e, b) \/ SaveEnds(e, b) \/ CreateEnds(e, b)

-----------------------------------------------------------------------------
(* The contacts manager *)

\* PUT /api/me/contacts: profile_required, or an upsert of what the form shows, which
\* may be older than the row: there is no revision, the last save of a kind stands.
PutContact(k, flag) ==
    /\ profile.revision # 0
    /\ published' = IF flag THEN published \cup {k} ELSE published \ {k}
    /\ UNCHANGED <<profile, wizard, draft, editor, wanted>>

\* DELETE /api/me/contacts
DeleteContact(k) ==
    /\ published' = published \ {k}
    /\ UNCHANGED <<profile, wizard, draft, editor, wanted>>

ContactsNext == \E k \in LinkKinds : DeleteContact(k) \/ \E b \in BOOLEAN : PutContact(k, b)

CardNext == WizardNext \/ EditorNext \/ ContactsNext

CardSpec == CardInit /\ [][CardNext]_cardVars

-----------------------------------------------------------------------------
(* Properties *)

\* loadPublicProfile: what the card shows of a row.
PublicFields(row) == IF row.revision = 0 THEN {} ELSE CardFields \ row.hidden

\* A field comes onto the public card only when the person put it there: by the first
\* publish of a form in which it was not left unticked, reloads of the wizard included
\* ("a restored draft carries the opt-outs the user already chose"), by ticking it in
\* the editor that saves, or by overwriting a conflict the editor had shown.  No save
\* of a form that is behind the row undoes an opt-out.
HiddenUntilTicked ==
    [][\A f \in PublicFields(profile') \ PublicFields(profile) :
          \/ \E w \in Wizards : /\ wizard[w].at = "creating" /\ wizard'[w].at # "creating"
                                /\ f \in wizard[w].agreed
          \/ \E e \in Editors : /\ editor[e].at \in {"creating", "updating"}
                                /\ editor'[e].at = "form"
                                /\ profile.revision = 0 \/ f \in editor[e].agreed]_cardVars
==============================================================================

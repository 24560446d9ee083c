----------------------------- MODULE IntroWindows -----------------------------
(***************************************************************************)
(* The three places where a member handles introductions: the window in    *)
(* the directory and the one on somebody's public card, which propose      *)
(* one, and the card of an introduction, which answers it.  The            *)
(* introduction itself is two decisions here; how it comes about between   *)
(* overlapping requests is the module Introductions.                       *)
(***************************************************************************)
EXTENDS FiniteSets, Naturals

CONSTANTS
    Others,       \* the people the member may meet
    Me,           \* the member, whose own card is a page like any other
    LinkKinds,    \* the contacts one may tick
    MaxAdrift     \* bound: requests nobody waits for that may still be served

ASSUME WindowsAssumption ==
    /\ Me \notin Others /\ "nobody" \notin Others \cup {Me}
    /\ MaxAdrift \in Nat

VARIABLES
    intro,        \* per other person: both decisions, the fields the member reveals
    barred,       \* the people between whom and the member there is a block
    page,         \* the page and whom it is about
    chooser,      \* the person the open window is about: `chooserMember`, `open`
    ticked,       \* the kinds ticked in the window: `revealKinds`, `reveal`
    marked,       \* whose buttons say that it is proposed: `sentTo`, `sent`
    detail,       \* what the card of an introduction has loaded
    loading,      \* its first load is under way
    call,         \* the request the page waits for: `busy`
    adrift        \* requests sent and not yet served that no page waits for any more

windowVars == <<intro, barred, page, chooser, ticked, marked, detail, loading, call, adrift>>

Nobody == "nobody"
People == Others \cup {Me}

NoIntro == [mine |-> "none", theirs |-> "none", fields |-> {}, asked |-> {}]
NoCall == [kind |-> "none", to |-> Nobody, fields |-> {}, asked |-> {}, at |-> "idle"]

\* `behind` is history: a decision of the member took effect since the card was loaded and
\* the page was not told.  `choice` is history too: the kinds ticked while the window was
\* about each person.
PageAt(kind, who, cta) ==
    [kind |-> kind, who |-> who, cta |-> cta, behind |-> FALSE, reporting |-> FALSE,
     choice |-> [o \in People |-> {}]]

\* introductions.state, as the decisions make it.
StateOf(row) ==
    LET made == {row.mine, row.theirs} IN
    IF made = {"none"} THEN "none"
    ELSE IF made = {"accept"} THEN "mutual"
    ELSE IF "decline" \in made THEN "declined"
    ELSE IF "withdraw" \in made THEN "revoked"
    ELSE "pending"

NoDetail == [state |-> "none", mine |-> "none"]
DetailOf(o) == [state |-> StateOf(intro[o]), mine |-> intro[o].mine]

-----------------------------------------------------------------------------
(* The service *)

Answering == {"accept", "decline", "withdraw"}
Decisions == Answering \cup {"none"}

\* The states of an introduction in which an answer counts.
Answerable(kind) == IF kind = "accept" THEN {"pending", "mutual"} ELSE {"pending"}

\* Oneself and people behind a block are refused, and an answer that comes too late.
Refused(c) ==
    \/ c.to = Me
    \/ c.to \in barred /\ c.kind \in {"propose"} \cup Answering
    \/ c.kind \in Answering /\ StateOf(intro[c.to]) \notin Answerable(c.kind)

\* A proposal creates the row, with the member's acceptance, or leaves the one there is.  An
\* acceptance of a mutual introduction may still change what is revealed.
IntroAfter(c) ==
    LET row == intro[c.to] IN
    CASE Refused(c) \/ c.kind \in {"block", "report"} -> intro
      [] ~Refused(c) /\ c.kind = "propose" ->
            IF StateOf(row) # "none" THEN intro
            ELSE [intro EXCEPT ![c.to].mine = "accept", ![c.to].fields = c.fields,
                               ![c.to].asked = c.asked]
      [] ~Refused(c) /\ c.kind \in Answering ->
            [intro EXCEPT ![c.to].mine = c.kind, ![c.to].fields = c.fields,
                          ![c.to].asked = c.asked]

BarredAfter(c) == IF c.kind = "block" THEN barred \cup {c.to} ELSE barred

ServeCall ==
    /\ call.at = "sent"
    /\ call' = [call EXCEPT !.at = IF Refused(call) THEN "refused" ELSE "ok"]
    /\ intro' = IntroAfter(call) /\ barred' = BarredAfter(call)
    /\ UNCHANGED <<page, chooser, ticked, marked, detail, loading, adrift>>

\* Leaving a page, or losing its connection, does not take back what was sent: the request
\* may still be on its way, or is never received.  A report changes nothing here.
GoesAdrift ==
    \/ UNCHANGED adrift
    \/ /\ call.at = "sent" /\ call.kind # "report" /\ Cardinality(adrift) < MaxAdrift
       /\ adrift' = adrift \cup {call}

\* The member's answer takes effect on the service.
Decides(c) == c.kind \in Answering /\ ~Refused(c)

\* The card of that person, if it is open again, is not told.
ServeAdrift(c) ==
    /\ c \in adrift /\ adrift' = adrift \ {c}
    /\ intro' = IntroAfter(c) /\ barred' = BarredAfter(c)
    /\ page' = [page EXCEPT !.behind =
                    @ \/ (page.kind = "introductions" /\ c.to = page.who /\ Decides(c))]
    /\ UNCHANGED <<chooser, ticked, marked, detail, loading, call>>

-----------------------------------------------------------------------------
(* Opening a page *)

\* The card asks three questions, and a lookup that fails answers no.  The shared event is
\* a self-join: the member shares one with herself.
CtaOf(who, owns, shares) ==
    IF owns THEN "own card" ELSE IF shares THEN "introduction" ELSE "nothing yet"

NoPage == PageAt("none", Nobody, "none")

\* No fetch is aborted: the card only forgets what a load that comes back late has read.
LeavePage ==
    /\ page.kind # "none"
    /\ GoesAdrift
    /\ page' = NoPage
    /\ chooser' = Nobody /\ ticked' = {} /\ marked' = {}
    /\ detail' = NoDetail /\ loading' = FALSE /\ call' = NoCall
    /\ UNCHANGED <<intro, barred>>

OpenAt(next, load) ==
    /\ page.kind = "none"
    /\ page' = next /\ loading' = load
    /\ UNCHANGED <<intro, barred, chooser, ticked, marked, detail, call, adrift>>

OpenDirectory == OpenAt(PageAt("directory", Nobody, "none"), FALSE)

OpenCard(who) ==
    \E owns \in {who = Me, FALSE}, shares \in BOOLEAN :
        OpenAt(PageAt("card", who, CtaOf(who, owns, shares)), FALSE)

\* The list of introductions; one of its cards.
OpenIntroductions(o) ==
    StateOf(intro[o]) # "none" /\ OpenAt(PageAt("introductions", o, "none"), TRUE)

\* The answers the card offers, by what it has loaded.
CardAnswers ==
    IF detail.state # "pending" THEN {}
    ELSE IF detail.mine = "none" THEN {"accept", "decline"}
    ELSE IF detail.mine = "accept" THEN {"withdraw"} ELSE {}

-----------------------------------------------------------------------------
(* Proposing an introduction *)

Busy == call.kind # "none"

\* The mutant of OpenChooser: the window opens with the kinds ticked for somebody else.
KeepTheKinds(o) ==
    /\ page.kind = "directory" /\ chooser = Nobody /\ ~Busy /\ o \notin marked
    /\ chooser' = o /\ page' = [page EXCEPT !.choice[o] = {}]
    /\ UNCHANGED <<intro, barred, ticked, marked, detail, loading, call, adrift>>

\* The directory's window starts with nothing ticked.
OpenChooser(o) ==
    /\ page.kind = "directory" /\ chooser = Nobody /\ ~Busy /\ o \notin marked
    /\ chooser' = o /\ ticked' = {}
    /\ page' = [page EXCEPT !.choice[o] = {}]
    /\ UNCHANGED <<intro, barred, marked, detail, loading, call, adrift>>

\* The card's window keeps what was ticked: it is about one person only.
OpenCta ==
    /\ page.cta = "introduction" /\ chooser = Nobody /\ ~Busy /\ marked = {}
    /\ chooser' = page.who
    /\ UNCHANGED <<intro, barred, page, ticked, marked, detail, loading, call, adrift>>

\* The windows may be closed and their boxes ticked while a request is under way.
CloseChooser ==
    /\ chooser # Nobody /\ chooser' = Nobody
    /\ UNCHANGED <<intro, barred, page, ticked, marked, detail, loading, call, adrift>>

About == IF "accept" \in CardAnswers /\ ~page.reporting THEN page.who ELSE chooser

TickKind(kind) ==
    /\ About # Nobody
    /\ ticked' = IF kind \in ticked THEN ticked \ {kind} ELSE ticked \cup {kind}
    /\ page' = [page EXCEPT !.choice[About] =
                    IF kind \in ticked THEN @ \ {kind} ELSE @ \cup {kind}]
    /\ UNCHANGED <<intro, barred, chooser, marked, detail, loading, call, adrift>>

Propose ==
    /\ chooser # Nobody /\ ~Busy
    /\ call' = [kind |-> "propose", to |-> chooser, fields |-> ticked,
                asked |-> page.choice[chooser], at |-> "sent"]
    /\ UNCHANGED <<intro, barred, page, chooser, ticked, marked, detail, loading, adrift>>

\* The mutant of Proposed: the person of the page is marked, whomever the window was about.
MarksThePage ==
    /\ call.kind = "propose" /\ call.at \in {"ok", "refused"}
    /\ call' = NoCall
    /\ IF call.at = "ok"
       THEN /\ marked' = marked \cup {page.who}
            /\ chooser' = Nobody
            /\ ticked' = IF page.kind = "directory" THEN {} ELSE ticked
       ELSE UNCHANGED <<marked, chooser, ticked>>
    /\ UNCHANGED <<intro, barred, page, detail, loading, adrift>>

\* The directory forgets what was ticked, the card does not; both close the window.
Proposed ==
    /\ call.kind = "propose" /\ call.at \in {"ok", "refused"}
    /\ call' = NoCall
    /\ IF call.at = "ok"
       THEN /\ marked' = marked \cup {call.to}
            /\ chooser' = Nobody
            /\ ticked' = IF page.kind = "directory" THEN {} ELSE ticked
       ELSE UNCHANGED <<marked, chooser, ticked>>
    /\ UNCHANGED <<intro, barred, page, detail, loading, adrift>>

-----------------------------------------------------------------------------
(* The card of an introduction *)

FirstLoad(readable) ==
    /\ loading
    /\ loading' = FALSE
    /\ detail' = IF readable THEN DetailOf(page.who) ELSE NoDetail
    /\ page' = [page EXCEPT !.behind = FALSE]
    /\ UNCHANGED <<intro, barred, chooser, ticked, marked, call, adrift>>

\* respond(), doBlock() and doReport(): nothing is drawn, nor offered, before the load.
Press(kind) ==
    /\ page.kind = "introductions" /\ ~Busy /\ detail # NoDetail
    /\ kind \in (IF page.reporting THEN {"report"} ELSE CardAnswers \cup {"block"})
    /\ call' = [kind |-> kind, to |-> page.who, at |-> "sent",
                fields |-> IF kind = "accept" THEN ticked ELSE {},
                asked |-> IF kind = "accept" THEN page.choice[page.who] ELSE {}]
    /\ UNCHANGED <<intro, barred, page, chooser, ticked, marked, detail, loading, adrift>>

OpenReport(open) ==
    /\ page.kind = "introductions" /\ detail # NoDetail
    /\ page' = [page EXCEPT !.reporting = open]
    /\ UNCHANGED <<intro, barred, chooser, ticked, marked, detail, loading, call, adrift>>

\* The mutant of Pressed: the card does not load again.
NotLoadedAgain ==
    /\ call.kind \notin {"none", "propose"} /\ call.at \in {"ok", "refused"}
    /\ call' = NoCall
    /\ page' = IF call.at = "ok" /\ call.kind = "report"
               THEN [page EXCEPT !.reporting = FALSE] ELSE page
    /\ UNCHANGED <<intro, barred, chooser, ticked, marked, detail, loading, adrift>>

\* Only an answer loads the card again; a block leaves it as it was.
Pressed ==
    /\ call.kind \notin {"none", "propose"} /\ call.at \in {"ok", "refused"}
    /\ call' = IF call.at = "ok" /\ call.kind \notin {"block", "report"}
               THEN [call EXCEPT !.at = "reload"] ELSE NoCall
    /\ page' = IF call.at = "ok" /\ call.kind = "report"
               THEN [page EXCEPT !.reporting = FALSE] ELSE page
    /\ UNCHANGED <<intro, barred, chooser, ticked, marked, detail, loading, adrift>>

\* A load that fails leaves the card without anything to draw.
Reloaded(readable) ==
    /\ call.at = "reload"
    /\ detail' = IF readable THEN DetailOf(page.who) ELSE NoDetail
    /\ call' = NoCall
    /\ page' = [page EXCEPT !.behind = FALSE]
    /\ UNCHANGED <<intro, barred, chooser, ticked, marked, loading, adrift>>

AnswerLost ==
    /\ call.at \in {"sent", "ok", "refused"}
    /\ call' = NoCall
    /\ GoesAdrift
    /\ page' = [page EXCEPT !.behind = @ \/ (call.at = "ok" /\ call.kind \in Answering)]
    /\ UNCHANGED <<intro, barred, chooser, ticked, marked, detail, loading>>

-----------------------------------------------------------------------------
\* The other person proposes or answers, or lifts the block.  A bound: only one of the
\* others does.
OtherActs(o) ==
    /\ \A p \in Others \ {o} : intro[p].theirs = "none" /\ p \notin barred
    /\ \/ /\ o \notin barred
          /\ \E decision \in Answering :
                /\ StateOf(intro[o]) \in {"none", "pending"}
                /\ decision \in (IF StateOf(intro[o]) = "none" THEN {"accept"}
                                 ELSE IF intro[o].theirs = "none" THEN {"accept", "decline"}
                                 ELSE {"withdraw"})
                /\ intro' = [intro EXCEPT ![o].theirs = decision]
          /\ UNCHANGED barred
       \/ barred' = barred \ {o} /\ o \in barred /\ UNCHANGED intro
    /\ UNCHANGED <<page, chooser, ticked, marked, detail, loading, call, adrift>>

WindowsInit ==
    /\ intro = [o \in Others |-> NoIntro]
    /\ barred = {}
    /\ page = NoPage
    /\ chooser = Nobody /\ ticked = {} /\ marked = {}
    /\ detail = NoDetail /\ loading = FALSE /\ call = NoCall /\ adrift = {}

WindowsNext ==
    \/ LeavePage \/ OpenDirectory
    \/ \E who \in People : OpenCard(who)
    \/ \E o \in Others : OpenIntroductions(o) \/ OpenChooser(o) \/ OtherActs(o)
    \/ OpenCta \/ CloseChooser \/ Propose \/ ServeCall \/ Proposed
    \/ \E kind \in LinkKinds : TickKind(kind)
    \/ \E kind \in Answering \cup {"block", "report"} : Press(kind)
    \/ \E open \in BOOLEAN : OpenReport(open)
    \/ \E readable \in BOOLEAN : FirstLoad(readable) \/ Reloaded(readable)
    \/ Pressed \/ AnswerLost \/ \E c \in adrift : ServeAdrift(c)

WindowsSpec == WindowsInit /\ [][WindowsNext]_windowVars

-----------------------------------------------------------------------------
(* Properties *)

RowRecord == [mine : Decisions, theirs : Decisions,
              fields : SUBSET LinkKinds, asked : SUBSET LinkKinds]
PageRecord == [kind : {"none", "directory", "card", "introductions"},
               who : People \cup {Nobody}, behind : BOOLEAN, reporting : BOOLEAN,
               cta : {"none", "own card", "introduction", "nothing yet"},
               choice : [People -> SUBSET LinkKinds]]
DetailRecord == [state : {"none", "pending", "mutual", "declined", "revoked"}, mine : Decisions]
CallRecord == [kind : {"none", "propose", "block", "report"} \cup Answering,
               to : People \cup {Nobody}, fields : SUBSET LinkKinds, asked : SUBSET LinkKinds,
               at : {"idle", "sent", "ok", "refused", "reload"}]

WindowsTypeOK ==
    /\ intro \in [Others -> RowRecord] /\ barred \subseteq Others
    /\ page \in PageRecord /\ chooser \in People \cup {Nobody}
    /\ ticked \subseteq LinkKinds /\ marked \subseteq Others
    /\ detail \in DetailRecord /\ loading \in BOOLEAN /\ call \in CallRecord
    /\ adrift \subseteq CallRecord

\* What the member reveals to a person is what was ticked while the window was about that
\* person, and a button that says "proposed" has an introduction behind it, however windows
\* were closed and opened over earlier people and requests.
ProposedAsChosen ==
    /\ \A o \in Others : intro[o].fields = intro[o].asked
    /\ \A o \in marked : StateOf(intro[o]) # "none"

\* A card that has loaded shows the member's own decision as it stands, so an answer once
\* acknowledged is never asked for again, and "(by you)" is said to the one who answered -
\* unless a decision of the member has taken effect since the card was loaded that the
\* page was not told of: its answer was lost, or it was sent by a page left before.
OwnAnswerShown ==
    (page.kind = "introductions" /\ ~Busy /\ ~page.behind /\ detail # NoDetail) =>
        detail.mine = intro[page.who].mine
==============================================================================

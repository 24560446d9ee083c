----------------------------- MODULE CampaignCard -----------------------------
(***************************************************************************)
(* The organizer's card of a campaign: editing it, sizing its audience,    *)
(* approving, sending and stopping it, and the step-up that interrupts an  *)
(* approval or a send and repeats it afterwards.  `busy` is over when an   *)
(* answer's headers are there, so the next request may start while a body  *)
(* is still being read.  The campaign is its state here; what the routes   *)
(* do to it is the module Campaign.                                        *)
(***************************************************************************)
EXTENDS FiniteSets, Naturals

CONSTANT MaxCalls     \* bounds the requests of the card under way together

VARIABLES
    campaign,         \* campaigns.state
    viewed,           \* the state the page was rendered with
    card,             \* what the component keeps
    asks,             \* its requests under way
    stepUp            \* the step-up: its window, its check, the action to repeat

cardVars == <<campaign, viewed, card, asks, stepUp>>

CampaignStates == {"draft", "approved", "running", "completed", "cancelled"}
Gated == {"approve", "send"}

BlankCard == [busy |-> FALSE, sending |-> FALSE, stopping |-> FALSE, stale |-> FALSE]

\* History: `wanted`, the gated action pressed last; `excused`, a gated action was pressed or
\* repeated before the answer to another one was read, or the window was closed while its
\* code was being checked; `wrong`, an action was repeated that was not the one wanted.
NoStepUp == [open |-> FALSE, checking |-> "no", retry |-> "none", wanted |-> "none",
             excused |-> FALSE, wrong |-> FALSE]

CardInit ==
    /\ campaign \in {"draft", "approved", "running"}
    /\ viewed = campaign
    /\ card = BlankCard /\ asks = {} /\ stepUp = NoStepUp

-----------------------------------------------------------------------------
(* What the card offers, and its requests *)

Immutable == viewed \in {"running", "completed", "cancelled"}

\* call(): one more request under way.  Requests are told apart by a number.
Ask(what) ==
    \E n \in 1..MaxCalls :
        /\ \A a \in asks : a.n # n
        /\ \A k \in 1..(n - 1) : \E a \in asks : a.n = k
        /\ asks' = asks \cup {[n |-> n, what |-> what, at |-> "sent", answer |-> "none",
                               again |-> stepUp.checking = "code"]}

\* An open window covers the card and the windows opened before it.
Covered == card.sending \/ card.stopping \/ stepUp.open

\* Nothing is offered while `busy`.
Start(what) ==
    /\ ~card.busy /\ ~stepUp.open
    /\ Ask(what)
    /\ UNCHANGED <<campaign, viewed>>

\* The numbers of the campaign, the size of its segment or of the one in the form.
PressNumbers ==
    /\ ~Covered
    /\ Start("numbers") /\ card' = [card EXCEPT !.busy = TRUE] /\ UNCHANGED stepUp

\* The form's text and segment, which are the card's own until then.
PressSave ==
    /\ ~Immutable /\ ~Covered
    /\ Start("edit") /\ card' = [card EXCEPT !.busy = TRUE] /\ UNCHANGED stepUp

\* Another gated action is under way.
Crossing == \E a \in asks : a.what \in Gated

\* A gated action pressed by the organizer.  A bound: none after an excused order.
Wants(what) ==
    /\ ~stepUp.excused
    /\ stepUp' = [stepUp EXCEPT !.wanted = what, !.excused = Crossing]

PressApprove ==
    /\ viewed = "draft" /\ ~Covered
    /\ Start("approve") /\ Wants("approve")
    /\ card' = [card EXCEPT !.busy = TRUE]

\* The confirmation names the size of the audience and loads it if none is shown.
OpenSend ==
    /\ viewed = "approved" /\ ~Covered /\ ~card.busy
    /\ \/ Ask("numbers") /\ card' = [card EXCEPT !.sending = TRUE, !.busy = TRUE]
       \/ UNCHANGED asks /\ card' = [card EXCEPT !.sending = TRUE]
    /\ UNCHANGED <<campaign, viewed, stepUp>>

ConfirmSend ==
    /\ card.sending
    /\ Start("send") /\ Wants("send")
    /\ card' = [card EXCEPT !.sending = FALSE, !.busy = TRUE]

OpenStop ==
    /\ viewed = "running" /\ ~Covered /\ ~card.busy
    /\ card' = [card EXCEPT !.stopping = TRUE]
    /\ UNCHANGED <<campaign, viewed, asks, stepUp>>

ConfirmStop ==
    /\ card.stopping
    /\ Start("cancel")
    /\ card' = [card EXCEPT !.stopping = FALSE, !.busy = TRUE]
    /\ UNCHANGED stepUp

CloseConfirmation ==
    /\ (card.sending \/ card.stopping) /\ ~stepUp.open
    /\ card' = [card EXCEPT !.sending = FALSE, !.stopping = FALSE]
    /\ UNCHANGED <<campaign, viewed, asks, stepUp>>

-----------------------------------------------------------------------------
(* Answers *)

\* The states an action is for, and the state it leads to.
Acts == [edit |-> [from |-> {"draft", "approved"}, to |-> "draft"],
         approve |-> [from |-> {"draft"}, to |-> "approved"],
         send |-> [from |-> {"approved"}, to |-> "running"],
         cancel |-> [from |-> {"running"}, to |-> "cancelled"]]

\* What the route of an action answers; a gated one may need the second factor.
AnswersTo(what) ==
    IF what \notin DOMAIN Acts THEN {"ok"}
    ELSE {"refused"} \cup (IF what \in Gated THEN {"mfa_required"} ELSE {})
                     \cup (IF campaign \in Acts[what].from THEN {"ok"}
                           ELSE IF what = "cancel" THEN {"conflict"} ELSE {})

\* What the answer tells of the campaign.
Moved(what, answer) ==
    campaign' = IF answer = "ok" /\ what \in DOMAIN Acts THEN Acts[what].to ELSE campaign

Instead(a, b) == asks' = (asks \ {a}) \cup {b}

\* The repeated action is through: the next code may be entered.
Through(a) == [stepUp EXCEPT !.checking = IF a.again THEN "no" ELSE @]

\* A gated action is served and the headers of its answer arrive: `busy` is over, the body
\* has to be read.
Answered(a, answer) ==
    /\ a.at = "sent" /\ a.what \in Gated /\ answer \in AnswersTo(a.what)
    /\ Instead(a, [a EXCEPT !.at = "body", !.answer = answer])
    /\ Moved(a.what, answer)
    /\ card' = [card EXCEPT !.busy = FALSE]
    /\ UNCHANGED <<viewed, stepUp>>

\* The mutant of GateMfa: the first action refused stays remembered.
FirstRemembered(a) ==
    /\ a.at = "body" /\ a.answer = "mfa_required"
    /\ asks' = asks \ {a}
    /\ stepUp' = [Through(a) EXCEPT !.open = TRUE, !.retry = IF @ = "none" THEN a.what ELSE @]
    /\ UNCHANGED <<campaign, viewed, card>>

\* gateMfa(): a refusal for the second factor opens the step-up for this action.
GateMfa(a) ==
    /\ a.at = "body" /\ a.answer = "mfa_required"
    /\ asks' = asks \ {a}
    /\ stepUp' = [Through(a) EXCEPT !.open = TRUE, !.retry = a.what]
    /\ UNCHANGED <<campaign, viewed, card>>

\* A send and a cancel that are done load the numbers before the page is drawn again; an
\* edit, an approval, and a cancel that came too late draw it at once.
GoOn(a, answer, free) ==
    LET idle == [card EXCEPT !.busy = @ /\ ~free] IN
    IF <<a.what, answer>> \in {<<"send", "ok">>, <<"cancel", "ok">>}
    THEN /\ Instead(a, [a EXCEPT !.what = "last numbers", !.at = "sent", !.answer = "none"])
         /\ card' = [card EXCEPT !.busy = TRUE]
         /\ UNCHANGED stepUp
    ELSE /\ asks' = asks \ {a}
         /\ card' = [idle EXCEPT !.stale =
                @ \/ a.what = "last numbers"
                  \/ <<a.what, answer>> \in {<<"edit", "ok">>, <<"approve", "ok">>,
                                             <<"cancel", "conflict">>}]
         /\ stepUp' = Through(a)

BodyRead(a) ==
    /\ a.at = "body" /\ a.answer # "mfa_required"
    /\ GoOn(a, a.answer, FALSE)
    /\ UNCHANGED <<campaign, viewed>>

\* Any other request is served and answered.
Dealt(a, answer) ==
    /\ a.at = "sent" /\ a.what \notin Gated /\ answer \in AnswersTo(a.what)
    /\ Moved(a.what, answer)
    /\ GoOn(a, answer, TRUE)
    /\ UNCHANGED viewed

\* The network fails, before or after the route has done its work.  The last numbers do not
\* keep the page from being drawn again.
Fails(a) ==
    /\ a.at = "sent"
    /\ Moved(a.what, "refused") \/ ("ok" \in AnswersTo(a.what) /\ Moved(a.what, "ok"))
    /\ asks' = asks \ {a}
    /\ card' = [card EXCEPT !.busy = FALSE, !.stale = @ \/ a.what = "last numbers"]
    /\ stepUp' = Through(a)
    /\ UNCHANGED viewed

\* router.refresh()
Redraw ==
    /\ card.stale
    /\ viewed' = campaign
    /\ card' = [card EXCEPT !.stale = FALSE]
    /\ UNCHANGED <<campaign, asks, stepUp>>

-----------------------------------------------------------------------------
(* The step-up *)

EnterCode ==
    /\ stepUp.open /\ stepUp.checking = "no"
    /\ stepUp' = [stepUp EXCEPT !.checking = "code"]
    /\ UNCHANGED <<campaign, viewed, card, asks>>

\* Cancel closes the window; the action stays remembered, and a check goes on.
CloseStepUp ==
    /\ stepUp.open
    /\ stepUp' = [stepUp EXCEPT !.open = FALSE, !.excused = @ \/ stepUp.checking = "code"]
    /\ UNCHANGED <<campaign, viewed, card, asks>>

CodeWrong ==
    /\ stepUp.checking = "code"
    /\ stepUp' = [stepUp EXCEPT !.checking = "no"]
    /\ UNCHANGED <<campaign, viewed, card, asks>>

\* The action is taken out of its place and repeated; `mfaBusy` lasts until it is through.
CodeRight ==
    /\ stepUp.checking = "code"
    /\ IF stepUp.retry = "none"
       THEN /\ stepUp' = [stepUp EXCEPT !.open = FALSE, !.checking = "no"]
            /\ UNCHANGED <<card, asks>>
       ELSE /\ stepUp' = [stepUp EXCEPT !.open = FALSE, !.checking = "repeating",
                              !.retry = "none", !.excused = @ \/ Crossing,
                              !.wrong = @ \/ (stepUp.retry # stepUp.wanted /\ ~stepUp.excused)]
            /\ Ask(stepUp.retry)
            /\ card' = [card EXCEPT !.busy = TRUE, !.sending = @ /\ stepUp.retry # "send"]
    /\ UNCHANGED <<campaign, viewed>>

\* Another organizer edits, approves or sends; the queue drains.
CampaignMoves ==
    /\ \/ \E what \in DOMAIN Acts :
             campaign \in Acts[what].from /\ campaign' = Acts[what].to
       \/ campaign = "running" /\ campaign' = "completed"
    /\ UNCHANGED <<viewed, card, asks, stepUp>>

CardNext ==
    \/ PressNumbers \/ PressSave \/ PressApprove \/ OpenSend \/ ConfirmSend
    \/ OpenStop \/ ConfirmStop \/ CloseConfirmation
    \/ \E a \in asks :
          \/ \E answer \in AnswersTo(a.what) : Answered(a, answer) \/ Dealt(a, answer)
          \/ GateMfa(a) \/ BodyRead(a) \/ Fails(a)
    \/ Redraw \/ EnterCode \/ CloseStepUp \/ CodeWrong \/ CodeRight \/ CampaignMoves

CardSpec == CardInit /\ [][CardNext]_cardVars

-----------------------------------------------------------------------------
(* Properties *)

AskRecord ==
    [n : 1..MaxCalls, what : DOMAIN Acts \cup {"numbers", "last numbers"},
     at : {"sent"}, answer : {"none"}, again : BOOLEAN]
    \cup [n : 1..MaxCalls, what : Gated, at : {"body"},
          answer : {"ok", "refused", "mfa_required"}, again : BOOLEAN]
CardRecord == [busy : BOOLEAN, sending : BOOLEAN, stopping : BOOLEAN, stale : BOOLEAN]
StepUpRecord == [open : BOOLEAN, checking : {"no", "code", "repeating"},
                 retry : Gated \cup {"none"}, wanted : Gated \cup {"none"},
                 excused : BOOLEAN, wrong : BOOLEAN]

CardTypeOK ==
    /\ campaign \in CampaignStates /\ viewed \in CampaignStates
    /\ card \in CardRecord /\ asks \subseteq AskRecord /\ stepUp \in StepUpRecord

\* What the step-up repeats is the action the organizer asked for last, whatever was asked,
\* refused, given up and edited before ("the interrupted action is retried automatically").
\* Two orders are excepted: an action pressed while the refusal of an earlier one is still
\* being read, and a window closed while its code is being checked.
RetriedAsAsked == ~stepUp.wrong
==============================================================================

---------------------------- MODULE ScreensProofs ----------------------------
(***************************************************************************)
(* Proofs about the screens, for any number of people, filters, contacts   *)
(* and requests: the directory shows the list its filters ask for, an      *)
(* introduction reveals what was ticked for that person, its card shows    *)
(* the member's own decision, and a step-up repeats the action asked for   *)
(* last.                                                                   *)
(***************************************************************************)
EXTENDS MCScreens, TLAPS

-----------------------------------------------------------------------------
(* The campaign card *)

\* While no order was excused, the gated requests under way and the action an open window
\* remembers are the one pressed last, and a code is checked under an open window only.
OneWish ==
    /\ ~stepUp.wrong
    /\ ~stepUp.excused =>
          /\ \A a \in asks : a.what \in Gated => a.what = stepUp.wanted
          /\ stepUp.open => stepUp.retry = stepUp.wanted
          /\ stepUp.checking = "code" => stepUp.open

CardInv == CardTypeOK /\ OneWish

LEMMA ActTypes ==
    /\ DOMAIN Acts = {"edit", "approve", "send", "cancel"}
    /\ \A w \in DOMAIN Acts : Acts[w].to \in CampaignStates
    /\ Gated \subseteq DOMAIN Acts
<1>1. DOMAIN Acts = {"edit", "approve", "send", "cancel"}
    BY DEF Acts
<1>2. /\ Acts["edit"].to = "draft" /\ Acts["approve"].to = "approved"
      /\ Acts["send"].to = "running" /\ Acts["cancel"].to = "cancelled"
    BY DEF Acts
<1> QED
    BY <1>1, <1>2 DEF CampaignStates, Gated

LEMMA InitCard == CardInit => CardInv
BY DEF CardInit, CardInv, CardTypeOK, OneWish, CampaignStates, BlankCard, NoStepUp, Gated,
       CardRecord, StepUpRecord

\* A new request is of the kind asked for; the others stay.
LEMMA AskTypes ==
    ASSUME CardTypeOK, NEW what \in DOMAIN Acts \cup {"numbers"}, Ask(what)
    PROVE  asks' \subseteq AskRecord /\ \A a \in asks' : a \in asks \/ a.what = what
<1>1. PICK n \in 1..MaxCalls :
         asks' = asks \cup {[n |-> n, what |-> what, at |-> "sent", answer |-> "none",
                             again |-> stepUp.checking = "code"]}
    BY DEF Ask
<1>2. [n |-> n, what |-> what, at |-> "sent", answer |-> "none",
       again |-> stepUp.checking = "code"] \in AskRecord
    BY DEF AskRecord
<1> QED
    BY <1>1, <1>2 DEF CardTypeOK

\* Requests that are ended, answered or changed into a load of the numbers wish nothing new,
\* and the window and its check may end.
LEMMA WishStays ==
    ASSUME OneWish, stepUp \in StepUpRecord,
           \A b \in asks' : b.what \in Gated => \E a \in asks : a.what = b.what,
           \/ UNCHANGED stepUp
           \/ stepUp' = [stepUp EXCEPT !.checking = "no"]
    PROVE  OneWish' /\ stepUp' \in StepUpRecord
BY DEF OneWish, StepUpRecord

LEMMA ThroughTypes ==
    ASSUME stepUp \in StepUpRecord, NEW a \in AskRecord
    PROVE  Through(a) \in {stepUp, [stepUp EXCEPT !.checking = "no"]}
BY DEF Through, StepUpRecord, AskRecord

LEMMA NumbersInv == CardInv /\ PressNumbers => CardInv'
<1> SUFFICES ASSUME CardInv, PressNumbers PROVE CardInv'
    OBVIOUS
<1>1. asks' \subseteq AskRecord /\ \A a \in asks' : a \in asks \/ a.what = "numbers"
    BY AskTypes DEF CardInv, PressNumbers, Start
<1>2. card' \in CardRecord
    BY DEF CardTypeOK, CardInv, PressNumbers, CardRecord
<1>3. OneWish' /\ stepUp' \in StepUpRecord
    BY <1>1, WishStays DEF CardTypeOK, CardInv, PressNumbers, Gated
<1> QED
    BY <1>1, <1>2, <1>3
    DEF CardInv, CardTypeOK, PressNumbers, Start, AskRecord, CardRecord, StepUpRecord

LEMMA SaveInv == CardInv /\ PressSave => CardInv'
<1> SUFFICES ASSUME CardInv, PressSave PROVE CardInv'
    OBVIOUS
<1>1. asks' \subseteq AskRecord /\ \A a \in asks' : a \in asks \/ a.what = "edit"
    BY AskTypes, ActTypes DEF CardInv, PressSave, Start
<1>2. card' \in CardRecord
    BY DEF CardTypeOK, CardInv, PressSave, CardRecord
<1>3. OneWish' /\ stepUp' \in StepUpRecord
    BY <1>1, WishStays DEF CardTypeOK, CardInv, PressSave, Gated
<1> QED
    BY <1>1, <1>2, <1>3
    DEF CardInv, CardTypeOK, PressSave, Start, AskRecord, CardRecord, StepUpRecord

\* A gated action that crosses no other is the only one under way, and no window is open.
LEMMA WantsInv ==
    ASSUME CardInv, NEW what \in Gated, Start(what), Wants(what)
    PROVE  OneWish' /\ stepUp' \in StepUpRecord /\ asks' \subseteq AskRecord
<1>1. asks' \subseteq AskRecord /\ \A a \in asks' : a \in asks \/ a.what = what
    BY AskTypes, ActTypes DEF CardInv, Start
<1>2. stepUp \in StepUpRecord /\ ~stepUp.excused /\ ~stepUp.open
    BY DEF CardTypeOK, CardInv, Wants, Start
<1>3. stepUp' = [stepUp EXCEPT !.wanted = what, !.excused = Crossing]
    BY DEF Wants
<1>4. Crossing \in BOOLEAN
    BY DEF Crossing
<1>5. /\ stepUp' \in StepUpRecord /\ stepUp'.wanted = what /\ stepUp'.excused = Crossing
      /\ ~stepUp'.open /\ stepUp'.wrong = stepUp.wrong /\ stepUp'.checking = stepUp.checking
    BY <1>2, <1>3, <1>4 DEF StepUpRecord
<1>6. ~stepUp'.wrong /\ stepUp'.checking # "code"
    BY <1>2, <1>5 DEF CardInv, OneWish
<1>7. ~Crossing => \A a \in asks' : a.what \in Gated => a.what = what
    BY <1>1 DEF Crossing
<1> QED
    BY <1>1, <1>5, <1>6, <1>7 DEF OneWish

LEMMA ApproveInv == CardInv /\ PressApprove => CardInv'
<1> SUFFICES ASSUME CardInv, PressApprove PROVE CardInv'
    OBVIOUS
<1>1. OneWish' /\ stepUp' \in StepUpRecord /\ asks' \subseteq AskRecord
    BY WantsInv DEF PressApprove, Gated
<1>2. card' \in CardRecord
    BY DEF CardTypeOK, CardInv, PressApprove, CardRecord
<1> QED
    BY <1>1, <1>2
    DEF CardInv, CardTypeOK, PressApprove, Start, AskRecord, CardRecord, StepUpRecord

LEMMA ConfirmSendInv == CardInv /\ ConfirmSend => CardInv'
<1> SUFFICES ASSUME CardInv, ConfirmSend PROVE CardInv'
    OBVIOUS
<1>1. OneWish' /\ stepUp' \in StepUpRecord /\ asks' \subseteq AskRecord
    BY WantsInv DEF ConfirmSend, Gated
<1>2. card' \in CardRecord
    BY DEF CardTypeOK, CardInv, ConfirmSend, CardRecord
<1> QED
    BY <1>1, <1>2
    DEF CardInv, CardTypeOK, ConfirmSend, Start, AskRecord, CardRecord, StepUpRecord

LEMMA OpenSendInv == CardInv /\ OpenSend => CardInv'
<1> SUFFICES ASSUME CardInv, OpenSend PROVE CardInv'
    OBVIOUS
<1>1. asks' \subseteq AskRecord /\ \A a \in asks' : a \in asks \/ a.what = "numbers"
    BY AskTypes DEF CardTypeOK, CardInv, OpenSend
<1>2. card' \in CardRecord
    BY DEF CardTypeOK, CardInv, OpenSend, CardRecord
<1>3. OneWish' /\ stepUp' \in StepUpRecord
    BY <1>1, WishStays DEF CardTypeOK, CardInv, OpenSend, Gated
<1> QED
    BY <1>1, <1>2, <1>3
    DEF CardInv, CardTypeOK, OpenSend, AskRecord, CardRecord, StepUpRecord

LEMMA ConfirmStopInv == CardInv /\ ConfirmStop => CardInv'
<1> SUFFICES ASSUME CardInv, ConfirmStop PROVE CardInv'
    OBVIOUS
<1>1. asks' \subseteq AskRecord /\ \A a \in asks' : a \in asks \/ a.what = "cancel"
    BY AskTypes, ActTypes DEF CardInv, ConfirmStop, Start
<1>2. card' \in CardRecord
    BY DEF CardTypeOK, CardInv, ConfirmStop, CardRecord
<1>3. OneWish' /\ stepUp' \in StepUpRecord
    BY <1>1, WishStays DEF CardTypeOK, CardInv, ConfirmStop, Gated
<1> QED
    BY <1>1, <1>2, <1>3
    DEF CardInv, CardTypeOK, ConfirmStop, Start, AskRecord, CardRecord, StepUpRecord

\* The steps that move nothing but the card's own fields or what the page was drawn with.
LEMMA CardOnlyInv ==
    CardInv /\ (OpenStop \/ CloseConfirmation \/ Redraw) => CardInv'
<1> SUFFICES ASSUME CardInv, OpenStop \/ CloseConfirmation \/ Redraw PROVE CardInv'
    OBVIOUS
<1>1. UNCHANGED <<campaign, asks, stepUp>>
    BY DEF OpenStop, CloseConfirmation, Redraw
<1>2. card' \in CardRecord /\ viewed' \in CampaignStates
    BY DEF CardTypeOK, CardInv, OpenStop, CloseConfirmation, Redraw, CardRecord
<1>3. OneWish'
    BY <1>1 DEF CardInv, OneWish
<1> QED
    BY <1>1, <1>2, <1>3
    DEF CardInv, CardTypeOK

LEMMA CampaignMovesInv == CardInv /\ CampaignMoves => CardInv'
<1> SUFFICES ASSUME CardInv, CampaignMoves PROVE CardInv'
    OBVIOUS
<1>1. campaign' \in CampaignStates
    BY ActTypes DEF CampaignMoves, CampaignStates
<1>2. OneWish'
    BY DEF CardInv, OneWish, CampaignMoves
<1> QED
    BY <1>1, <1>2 DEF CardInv, CardTypeOK, CampaignMoves

LEMMA MovedType ==
    ASSUME CardTypeOK, NEW what, NEW answer, Moved(what, answer)
    PROVE  campaign' \in CampaignStates
BY ActTypes DEF Moved, CardTypeOK

LEMMA AnswerTypes ==
    ASSUME NEW what \in Gated, NEW answer \in AnswersTo(what)
    PROVE  answer \in {"ok", "refused", "mfa_required"}
BY DEF AnswersTo, Gated

LEMMA AnsweredInv ==
    ASSUME CardInv, NEW a \in asks, NEW answer \in AnswersTo(a.what), Answered(a, answer)
    PROVE  CardInv'
<1> DEFINE b == [a EXCEPT !.at = "body", !.answer = answer]
<1>0. a \in AskRecord /\ a.what \in Gated /\ answer \in {"ok", "refused", "mfa_required"}
    BY AnswerTypes DEF CardTypeOK, CardInv, Answered
<1>1. b \in AskRecord /\ b.what = a.what
    BY <1>0 DEF AskRecord
<1>2. asks' = (asks \ {a}) \cup {b} /\ asks' \subseteq AskRecord
    BY <1>1 DEF CardTypeOK, CardInv, Answered, Instead
<1>3. campaign' \in CampaignStates /\ card' \in CardRecord
    BY MovedType DEF CardTypeOK, CardInv, Answered, CardRecord
<1>4. OneWish' /\ stepUp' \in StepUpRecord
    BY <1>1, <1>2, WishStays DEF CardTypeOK, CardInv, Answered
<1> QED
    BY <1>2, <1>3, <1>4
    DEF CardInv, CardTypeOK, Answered, AskRecord, CardRecord, StepUpRecord

\* The window opens for the action refused, which is the one wanted.
LEMMA GateMfaInv ==
    ASSUME CardInv, NEW a \in asks, GateMfa(a)
    PROVE  CardInv'
<1>1. a \in AskRecord /\ stepUp \in StepUpRecord /\ asks \subseteq AskRecord
    BY DEF CardTypeOK, CardInv
<1>0. a.what \in Gated
    BY <1>1 DEF GateMfa, AskRecord
<1>2. /\ Through(a) \in StepUpRecord
      /\ Through(a).wanted = stepUp.wanted /\ Through(a).excused = stepUp.excused
      /\ Through(a).wrong = stepUp.wrong
    BY <1>1, ThroughTypes DEF StepUpRecord
<1>3. stepUp' = [Through(a) EXCEPT !.open = TRUE, !.retry = a.what]
    BY DEF GateMfa
<1>4. /\ stepUp' \in StepUpRecord /\ stepUp'.open /\ stepUp'.retry = a.what
      /\ stepUp'.wanted = stepUp.wanted /\ stepUp'.excused = stepUp.excused
      /\ stepUp'.wrong = stepUp.wrong
    BY <1>0, <1>2, <1>3 DEF StepUpRecord
<1>5. asks' = asks \ {a}
    BY DEF GateMfa
<1>6. OneWish'
    BY <1>0, <1>4, <1>5 DEF CardInv, OneWish
<1> QED
    BY <1>1, <1>4, <1>5, <1>6
    DEF CardInv, CardTypeOK, GateMfa, AskRecord, StepUpRecord

LEMMA GoOnInv ==
    ASSUME CardInv, NEW a \in asks, NEW answer, NEW free \in BOOLEAN, GoOn(a, answer, free)
    PROVE  /\ card' \in CardRecord /\ asks' \subseteq AskRecord
           /\ OneWish' /\ stepUp' \in StepUpRecord
<1>1. a \in AskRecord /\ asks \subseteq AskRecord /\ card \in CardRecord
      /\ stepUp \in StepUpRecord
    BY DEF CardTypeOK, CardInv
<1>2. CASE <<a.what, answer>> \in {<<"send", "ok">>, <<"cancel", "ok">>}
  <2> DEFINE b == [a EXCEPT !.what = "last numbers", !.at = "sent", !.answer = "none"]
  <2>1. asks' = (asks \ {a}) \cup {b} /\ card' = [card EXCEPT !.busy = TRUE]
        /\ stepUp' = stepUp
    BY <1>2 DEF GoOn, Instead
  <2>2. b \in AskRecord /\ b.what = "last numbers"
    BY <1>1 DEF AskRecord
  <2>3. card' \in CardRecord /\ asks' \subseteq AskRecord
    BY <1>1, <2>1, <2>2 DEF CardRecord
  <2>4. OneWish' /\ stepUp' \in StepUpRecord
    BY <1>1, <2>1, <2>2, WishStays DEF CardInv, Gated
  <2> QED
    BY <2>3, <2>4
<1>3. CASE <<a.what, answer>> \notin {<<"send", "ok">>, <<"cancel", "ok">>}
  <2> DEFINE drawn == \/ card.stale
                      \/ a.what = "last numbers"
                      \/ <<a.what, answer>> \in {<<"edit", "ok">>, <<"approve", "ok">>,
                                                 <<"cancel", "conflict">>}
             idle == [card EXCEPT !.busy = @ /\ ~free]
  <2>1. idle \in CardRecord /\ idle.stale = card.stale /\ drawn \in BOOLEAN
    BY <1>1 DEF CardRecord
  <2>2. card' = [idle EXCEPT !.stale = drawn] /\ asks' = asks \ {a} /\ stepUp' = Through(a)
    BY <1>3, <2>1 DEF GoOn, CardRecord
  <2> HIDE DEF drawn, idle
  <2>3. card' \in CardRecord /\ asks' \subseteq AskRecord
    BY <1>1, <2>1, <2>2 DEF CardRecord
  <2>4. OneWish' /\ stepUp' \in StepUpRecord
    BY <1>1, <2>2, ThroughTypes, WishStays DEF CardInv
  <2> QED
    BY <2>3, <2>4
<1> QED
    BY <1>2, <1>3

LEMMA BodyReadInv ==
    ASSUME CardInv, NEW a \in asks, BodyRead(a)
    PROVE  CardInv'
BY GoOnInv
DEF CardInv, CardTypeOK, BodyRead, AskRecord, CardRecord, StepUpRecord

LEMMA DealtInv ==
    ASSUME CardInv, NEW a \in asks, NEW answer, Dealt(a, answer)
    PROVE  CardInv'
BY GoOnInv, MovedType
DEF CardInv, CardTypeOK, Dealt, AskRecord, CardRecord, StepUpRecord

LEMMA FailsInv ==
    ASSUME CardInv, NEW a \in asks, Fails(a)
    PROVE  CardInv'
<1>1. a \in AskRecord /\ asks \subseteq AskRecord /\ card \in CardRecord
      /\ stepUp \in StepUpRecord
    BY DEF CardTypeOK, CardInv
<1>2. card' \in CardRecord /\ asks' = asks \ {a}
    BY <1>1 DEF Fails, CardRecord
<1>3. campaign' \in CampaignStates
    BY MovedType DEF CardInv, Fails
<1>4. OneWish' /\ stepUp' \in StepUpRecord
    BY <1>1, <1>2, ThroughTypes, WishStays DEF CardInv, Fails
<1> QED
    BY <1>1, <1>2, <1>3, <1>4
    DEF CardInv, CardTypeOK, Fails, AskRecord, CardRecord, StepUpRecord

\* The step-up's own steps.  A window that closes while its code is checked is excused.
LEMMA StepUpInv ==
    CardInv /\ (EnterCode \/ CloseStepUp \/ CodeWrong) => CardInv'
<1> SUFFICES ASSUME CardInv, EnterCode \/ CloseStepUp \/ CodeWrong PROVE CardInv'
    OBVIOUS
<1>1. stepUp \in StepUpRecord /\ UNCHANGED <<campaign, viewed, card, asks>>
    BY DEF CardTypeOK, CardInv, EnterCode, CloseStepUp, CodeWrong
<1>2. OneWish' /\ stepUp' \in StepUpRecord
    BY <1>1 DEF CardInv, OneWish, EnterCode, CloseStepUp, CodeWrong, StepUpRecord
<1> QED
    BY <1>1, <1>2 DEF CardInv, CardTypeOK

LEMMA CodeRightInv == CardInv /\ CodeRight => CardInv'
<1> SUFFICES ASSUME CardInv, CodeRight PROVE CardInv'
    OBVIOUS
<1>1. stepUp \in StepUpRecord /\ card \in CardRecord /\ asks \subseteq AskRecord
      /\ stepUp.checking = "code"
    BY DEF CardTypeOK, CardInv, CodeRight
<1>2. CASE stepUp.retry = "none"
  <2>1. OneWish' /\ stepUp' \in StepUpRecord
    BY ZenonT(40), <1>1, <1>2 DEF CardInv, OneWish, CodeRight, StepUpRecord
  <2> QED
    BY <1>2, <2>1
    DEF CardInv, CardTypeOK, CodeRight, AskRecord, CardRecord, StepUpRecord
<1>3. CASE stepUp.retry # "none"
  <2> DEFINE crossed == stepUp.excused \/ Crossing
             bad == stepUp.wrong \/ (stepUp.retry # stepUp.wanted /\ ~stepUp.excused)
  <2>1. crossed \in BOOLEAN /\ bad \in BOOLEAN /\ ~bad /\ stepUp.retry \in Gated
    BY <1>1, <1>3 DEF CardInv, OneWish, StepUpRecord, Crossing
  <2>2. stepUp' = [stepUp EXCEPT !.open = FALSE, !.checking = "repeating",
                                 !.retry = "none", !.excused = crossed, !.wrong = bad]
    BY <1>1, <1>3 DEF CodeRight, StepUpRecord
  <2>3. stepUp.excused => crossed
    OBVIOUS
  <2> HIDE DEF crossed, bad
  <2>4. /\ stepUp' \in StepUpRecord /\ ~stepUp'.wrong /\ ~stepUp'.open
        /\ stepUp'.checking # "code" /\ stepUp'.wanted = stepUp.wanted
        /\ stepUp.excused => stepUp'.excused
    BY <1>1, <2>1, <2>2, <2>3 DEF StepUpRecord
  <2>5. /\ asks' \subseteq AskRecord
        /\ \A a \in asks' : a \in asks \/ a.what = stepUp.retry
    BY <1>3, <2>1, AskTypes, ActTypes DEF CardInv, CodeRight
  <2>6. OneWish'
    BY <1>1, <2>4, <2>5 DEF CardInv, OneWish
  <2>7. card' \in CardRecord
    BY <1>1, <1>3 DEF CodeRight, CardRecord
  <2> QED
    BY <2>4, <2>5, <2>6, <2>7
    DEF CardInv, CardTypeOK, CodeRight, AskRecord, CardRecord, StepUpRecord
<1> QED
    BY <1>2, <1>3

LEMMA NextCard == CardInv /\ [CardNext]_cardVars => CardInv'
<1> SUFFICES ASSUME CardInv, [CardNext]_cardVars PROVE CardInv'
    OBVIOUS
<1>1. CASE UNCHANGED cardVars
    BY <1>1 DEF CardInv, CardTypeOK, OneWish, cardVars
<1>2. CASE \E a \in asks :
              \/ \E answer \in AnswersTo(a.what) : Answered(a, answer) \/ Dealt(a, answer)
              \/ GateMfa(a) \/ BodyRead(a) \/ Fails(a)
  <2> PICK a \in asks :
         \/ \E answer \in AnswersTo(a.what) : Answered(a, answer) \/ Dealt(a, answer)
         \/ GateMfa(a) \/ BodyRead(a) \/ Fails(a)
    BY <1>2
  <2>1. CASE \E answer \in AnswersTo(a.what) : Answered(a, answer) \/ Dealt(a, answer)
    BY <2>1, AnsweredInv, DealtInv
  <2>2. CASE GateMfa(a)
    BY <2>2, GateMfaInv
  <2>3. CASE BodyRead(a) \/ Fails(a)
    BY <2>3, BodyReadInv, FailsInv
  <2> QED
    BY <2>1, <2>2, <2>3
<1>3. CASE \/ PressNumbers \/ PressSave \/ PressApprove \/ OpenSend \/ ConfirmSend
           \/ OpenStop \/ ConfirmStop \/ CloseConfirmation
           \/ Redraw \/ EnterCode \/ CloseStepUp \/ CodeWrong \/ CodeRight \/ CampaignMoves
    BY <1>3, NumbersInv, SaveInv, ApproveInv, OpenSendInv, ConfirmSendInv, ConfirmStopInv,
       CardOnlyInv, StepUpInv, CodeRightInv, CampaignMovesInv
<1> QED
    BY <1>1, <1>2, <1>3 DEF CardNext

\* The card keeps to its types, whatever overlaps.
THEOREM CardTypesHold == CardSpec => []CardTypeOK
<1>1. CardInv => CardTypeOK
    BY DEF CardInv
<1> QED
    BY InitCard, NextCard, <1>1, PTL DEF CardSpec

\* The step-up (campaign-card.tsx:194, :217) repeats the gated action the organizer asked
\* for last, for any number of requests under way together.
THEOREM StepUpRepeatsTheWish == CardSpec => []RetriedAsAsked
<1>1. CardInv => RetriedAsAsked
    BY DEF CardInv, OneWish, RetriedAsAsked
<1> QED
    BY InitCard, NextCard, <1>1, PTL DEF CardSpec

-----------------------------------------------------------------------------
(* The windows of introductions *)

\* A request is to somebody, and one of an introduction's card to the other person; what it
\* reveals was ticked for that person.
RequestOK(c) ==
    /\ c.kind = "propose" => c.to \in People
    /\ c.kind \notin {"none", "propose"} => c.to \in Others
    /\ c.fields = c.asked

CallOK ==
    /\ call.kind = "none" <=> call.at = "idle"
    /\ call.at = "reload" => call.kind \in Answering
    /\ RequestOK(call)
    /\ \A c \in adrift : RequestOK(c) /\ c.kind # "none"

\* The boxes of an open window are the choice for the person it is about.  Outside of the
\* introductions nothing is loaded, and only proposals are made.
WindowOK ==
    /\ chooser # Nobody => ticked = page.choice[chooser]
    /\ page.kind \in {"none", "introductions"} => chooser = Nobody
    /\ page.kind = "none" => ticked = {} /\ call.kind = "none"
    /\ page.kind = "introductions" => page.who \in Others /\ call.kind # "propose"
    /\ page.kind = "card" => chooser \in {Nobody, page.who}
    /\ page.kind \in {"card", "introductions"} =>
          page.who \in People /\ ticked = page.choice[page.who]
    /\ page.kind # "introductions" =>
          /\ detail = NoDetail /\ ~loading /\ ~page.reporting
          /\ call.kind \in {"none", "propose"}
    /\ page.cta # "none" => page.kind = "card"

\* Nothing was revealed but what was chosen, and what is marked, or about to be, is there;
\* so is what a card of an introduction is about.
MarksOK ==
    /\ \A o \in Others : intro[o].fields = intro[o].asked
    /\ \A o \in marked : StateOf(intro[o]) # "none"
    /\ (call.kind = "propose" /\ call.at = "ok") =>
          call.to \in Others /\ StateOf(intro[call.to]) # "none"
    /\ page.kind = "introductions" => StateOf(intro[page.who]) # "none"

\* Until an answer of the member takes effect, the card shows the decision there is.
DetailOK ==
    ( /\ page.kind = "introductions" /\ ~page.behind /\ detail # NoDetail
      /\ call.at \in {"idle", "sent", "refused"} \/ call.kind \in {"block", "report"} )
    => detail.mine = intro[page.who].mine

WindowsInv == WindowsTypeOK /\ CallOK /\ WindowOK /\ MarksOK /\ DetailOK

LEMMA Persons ==
    /\ Others \subseteq People /\ Me \in People /\ Me \notin Others
    /\ Nobody \notin People
BY WindowsAssumption DEF People, Nobody

\* An introduction is there as soon as one of the two has decided something.
LEMMA StateTypes ==
    ASSUME NEW row \in RowRecord
    PROVE  /\ StateOf(row) \in {"none", "pending", "mutual", "declined", "revoked"}
           /\ StateOf(row) = "none" <=> row.mine = "none" /\ row.theirs = "none"
<1>1. {row.mine, row.theirs} = {"none"} <=> row.mine = "none" /\ row.theirs = "none"
    OBVIOUS
<1> QED
    BY <1>1 DEF StateOf

LEMMA RestTypes ==
    /\ NoIntro \in RowRecord /\ NoCall \in CallRecord /\ NoDetail \in DetailRecord
    /\ \A k \in {"none", "directory", "card", "introductions"}, w \in People \cup {Nobody},
          c \in {"none", "own card", "introduction", "nothing yet"} :
          PageAt(k, w, c) \in PageRecord
BY DEF NoIntro, NoCall, NoDetail, PageAt, RowRecord, CallRecord, DetailRecord, PageRecord,
       Decisions, Answering

LEMMA InitWindows == WindowsInit => WindowsInv
<1> SUFFICES ASSUME WindowsInit PROVE WindowsInv
    OBVIOUS
<1>1. WindowsTypeOK
    BY RestTypes, Persons DEF WindowsInit, WindowsTypeOK, NoPage
<1>2. CallOK /\ WindowOK /\ MarksOK /\ DetailOK
    BY DEF WindowsInit, NoPage, PageAt, NoCall, NoDetail, NoIntro, CallOK, RequestOK, WindowOK, MarksOK,
           DetailOK, Nobody
<1> QED
    BY <1>1, <1>2 DEF WindowsInv

\* What serving a request does to the rows: nothing where it is refused or not about a
\* decision; else one row takes the member's decision and what the request reveals.
LEMMA Served ==
    ASSUME intro \in [Others -> RowRecord], NEW c \in CallRecord, RequestOK(c), c.kind # "none"
    PROVE  /\ IntroAfter(c) \in [Others -> RowRecord]
           /\ \A o \in Others :
                 \/ IntroAfter(c)[o] = intro[o]
                 \/ /\ IntroAfter(c)[o].theirs = intro[o].theirs
                    /\ IntroAfter(c)[o].mine \in Answering
                    /\ IntroAfter(c)[o].fields = c.fields
                    /\ IntroAfter(c)[o].asked = c.asked
           /\ Refused(c) \/ c.kind \in {"block", "report"} => IntroAfter(c) = intro
           /\ c.kind = "propose" /\ ~Refused(c) =>
                 c.to \in Others /\ StateOf(IntroAfter(c)[c.to]) # "none"
<1>1. CASE Refused(c) \/ c.kind \in {"block", "report"}
  <2>1. IntroAfter(c) = intro
    BY <1>1 DEF IntroAfter, Answering
  <2> QED
    BY <1>1, <2>1
<1>2. CASE ~Refused(c) /\ c.kind = "propose" /\ StateOf(intro[c.to]) # "none"
  <2>1. IntroAfter(c) = intro /\ c.to \in Others
    BY <1>2, Persons DEF IntroAfter, Answering, RequestOK, Refused, People
  <2> QED
    BY <1>2, <2>1
<1>3. CASE ~Refused(c) /\ c.kind = "propose" /\ StateOf(intro[c.to]) = "none"
  <2>1. c.to \in Others
    BY <1>3, Persons DEF RequestOK, Refused, People
  <2>2. PICK f : f = [intro EXCEPT ![c.to].mine = "accept", ![c.to].fields = c.fields,
                                   ![c.to].asked = c.asked]
    OBVIOUS
  <2>3. IntroAfter(c) = f
    BY <1>3, <2>2 DEF IntroAfter, Answering
  <2>4. /\ f \in [Others -> RowRecord]
        /\ f[c.to].mine = "accept" /\ f[c.to].theirs = intro[c.to].theirs
        /\ f[c.to].fields = c.fields /\ f[c.to].asked = c.asked
        /\ \A o \in Others : o # c.to => f[o] = intro[o]
    BY <2>1, <2>2 DEF RowRecord, CallRecord, Decisions, Answering
  <2>5. StateOf(f[c.to]) # "none"
    BY <2>1, <2>4, StateTypes
  <2> QED
    BY <1>3, <2>1, <2>3, <2>4, <2>5 DEF Answering
<1>4. CASE ~Refused(c) /\ c.kind \in Answering
  <2>1. c.to \in Others
    BY <1>4 DEF RequestOK, Answering
  <2>2. PICK f : f = [intro EXCEPT ![c.to].mine = c.kind, ![c.to].fields = c.fields,
                                   ![c.to].asked = c.asked]
    OBVIOUS
  <2>3. IntroAfter(c) = f
    BY <1>4, <2>2 DEF IntroAfter, Answering
  <2>4. /\ f \in [Others -> RowRecord]
        /\ f[c.to].mine = c.kind /\ f[c.to].theirs = intro[c.to].theirs
        /\ f[c.to].fields = c.fields /\ f[c.to].asked = c.asked
        /\ \A o \in Others : o # c.to => f[o] = intro[o]
    BY <1>4, <2>1, <2>2 DEF RowRecord, CallRecord, Decisions, Answering
  <2> QED
    BY <1>4, <2>1, <2>3, <2>4 DEF Answering
<1>5. c.kind \in {"propose", "block", "report"} \cup Answering
    BY DEF CallRecord
<1> QED
    BY <1>1, <1>2, <1>3, <1>4, <1>5

\* The rows after a request was served.
LEMMA RowsServed ==
    ASSUME WindowsInv, NEW c \in CallRecord, RequestOK(c), c.kind # "none",
           intro' = IntroAfter(c), barred' = BarredAfter(c)
    PROVE  /\ intro' \in [Others -> RowRecord] /\ barred' \subseteq Others
           /\ \A o \in Others : /\ intro'[o].fields = intro'[o].asked
                                /\ StateOf(intro[o]) # "none" => StateOf(intro'[o]) # "none"
<1> USE DEF WindowsInv
<1>1. intro \in [Others -> RowRecord] /\ barred \subseteq Others
    BY DEF WindowsTypeOK
<1>2. intro' \in [Others -> RowRecord]
    BY <1>1, Served
<1>3. barred' \subseteq Others
    BY <1>1 DEF BarredAfter, RequestOK
<1>4. ASSUME NEW o \in Others PROVE intro'[o].fields = intro'[o].asked
    BY <1>1, Served DEF MarksOK, RequestOK
<1>5. ASSUME NEW o \in Others, StateOf(intro[o]) # "none" PROVE StateOf(intro'[o]) # "none"
  <2>1. intro'[o] = intro[o] \/ intro'[o].mine # "none"
    BY <1>1, Served DEF Answering
  <2> QED
    BY <1>2, <1>5, <2>1, StateTypes
<1> QED
    BY <1>2, <1>3, <1>4, <1>5

LEMMA ServeCallInv == WindowsInv /\ ServeCall => WindowsInv'
<1> SUFFICES ASSUME WindowsInv, ServeCall PROVE WindowsInv'
    OBVIOUS
<1> USE DEF WindowsInv
<1>1. /\ intro' = IntroAfter(call) /\ barred' = BarredAfter(call) /\ call.at = "sent"
      /\ call' = [call EXCEPT !.at = IF Refused(call) THEN "refused" ELSE "ok"]
      /\ UNCHANGED <<page, chooser, ticked, marked, detail, loading, adrift>>
    BY DEF ServeCall
<1>2. /\ call' \in CallRecord /\ call'.at = IF Refused(call) THEN "refused" ELSE "ok"
      /\ call'.kind = call.kind /\ call'.to = call.to
      /\ call'.fields = call.fields /\ call'.asked = call.asked
    BY <1>1 DEF WindowsTypeOK, CallRecord
<1>3. /\ call \in CallRecord /\ RequestOK(call) /\ call.kind # "none"
      /\ intro \in [Others -> RowRecord]
    BY <1>1 DEF WindowsTypeOK, CallOK
<1>4. /\ intro' \in [Others -> RowRecord] /\ barred' \subseteq Others
      /\ \A o \in Others : /\ intro'[o].fields = intro'[o].asked
                           /\ StateOf(intro[o]) # "none" => StateOf(intro'[o]) # "none"
    BY <1>1, <1>3, RowsServed
<1>5. WindowsTypeOK'
    BY <1>1, <1>2, <1>4 DEF WindowsTypeOK
<1>6. CallOK' /\ WindowOK'
    BY <1>1, <1>2 DEF CallOK, RequestOK, WindowOK
<1>7. MarksOK'
  <2>1. (call'.kind = "propose" /\ call'.at = "ok") =>
           call'.to \in Others /\ StateOf(intro'[call'.to]) # "none"
    BY <1>1, <1>2, <1>3, Served
  <2>2. marked \subseteq Others /\ (page.kind = "introductions" => page.who \in Others)
    BY DEF WindowsTypeOK, WindowOK
  <2> QED
    BY <1>1, <1>4, <2>1, <2>2 DEF MarksOK
<1>8. DetailOK'
    BY <1>1, <1>2, <1>3, Served DEF DetailOK, CallOK, RequestOK, WindowOK, Answering
<1> QED
    BY <1>5, <1>6, <1>7, <1>8

LEMMA ServeAdriftInv ==
    ASSUME WindowsInv, NEW c \in adrift, ServeAdrift(c)
    PROVE  WindowsInv'
<1> USE DEF WindowsInv
<1> DEFINE told == ~(page.kind = "introductions" /\ c.to = page.who /\ Decides(c))
<1>1. /\ intro' = IntroAfter(c) /\ barred' = BarredAfter(c) /\ adrift' = adrift \ {c}
      /\ page' = [page EXCEPT !.behind = @ \/ ~told]
      /\ UNCHANGED <<chooser, ticked, marked, detail, loading, call>>
    BY DEF ServeAdrift
<1>2. /\ page' \in PageRecord /\ page'.kind = page.kind /\ page'.who = page.who
      /\ page'.cta = page.cta /\ page'.reporting = page.reporting /\ page'.choice = page.choice
      /\ ~page'.behind => ~page.behind /\ told
  <2>1. page \in PageRecord /\ page.behind \in BOOLEAN
    BY DEF WindowsTypeOK, PageRecord
  <2>2. PICK b \in BOOLEAN : b = (page.behind \/ ~told)
    BY <2>1
  <2>3. page' = [page EXCEPT !.behind = b]
    BY <1>1, <2>2
  <2> HIDE DEF told
  <2> QED
    BY <2>1, <2>2, <2>3 DEF PageRecord
<1>3. /\ c \in CallRecord /\ RequestOK(c) /\ c.kind # "none"
      /\ intro \in [Others -> RowRecord]
    BY DEF WindowsTypeOK, CallOK
<1>4. /\ intro' \in [Others -> RowRecord] /\ barred' \subseteq Others
      /\ \A o \in Others : /\ intro'[o].fields = intro'[o].asked
                           /\ StateOf(intro[o]) # "none" => StateOf(intro'[o]) # "none"
    BY <1>1, <1>3, RowsServed
<1>5. WindowsTypeOK'
    BY <1>1, <1>2, <1>4 DEF WindowsTypeOK
<1>6. CallOK' /\ WindowOK'
    BY <1>1, <1>2 DEF CallOK, RequestOK, WindowOK
<1>7. MarksOK'
  <2>1. marked \subseteq Others /\ (page.kind = "introductions" => page.who \in Others)
    BY DEF WindowsTypeOK, WindowOK
  <2> QED
    BY <1>1, <1>2, <1>4, <2>1 DEF MarksOK
<1>8. ASSUME page.kind = "introductions", told PROVE intro'[page.who].mine = intro[page.who].mine
  <2>1. page.who \in Others /\ StateOf(intro[page.who]) # "none"
    BY <1>8 DEF WindowOK, MarksOK
  <2>2. CASE c.to # page.who
    <3>1. CASE Refused(c) \/ c.kind \in {"block", "report"}
        BY <1>1, <1>3, <3>1, Served
    <3>2. CASE ~Refused(c) /\ c.kind = "propose"
        BY <1>1, <1>3, <2>1, <2>2, <3>2 DEF IntroAfter, Answering
    <3>3. CASE ~Refused(c) /\ c.kind \in Answering
        BY <1>1, <1>3, <2>1, <2>2, <3>3 DEF IntroAfter, Answering
    <3> QED
        BY <1>3, <3>1, <3>2, <3>3 DEF CallRecord
  <2>4. CASE c.to = page.who /\ c.kind = "propose"
    <3>1. IntroAfter(c) = intro
        BY <2>1, <2>4 DEF IntroAfter, Answering
    <3> QED
        BY <1>1, <3>1
  <2>3. CASE c.kind # "propose" /\ c.to = page.who
    <3>1. Refused(c) \/ c.kind \in {"block", "report"}
        BY <1>3, <1>8, <2>3 DEF Decides, CallRecord
    <3> QED
        BY <1>1, <1>3, <3>1, Served
  <2> QED
    BY <2>2, <2>3, <2>4
<1>9. DetailOK'
    BY <1>1, <1>2, <1>8 DEF DetailOK
<1> QED
    BY <1>5, <1>6, <1>7, <1>9

\* A request that goes adrift is still to somebody, and of the same contents.
LEMMA AdriftOK ==
    ASSUME WindowsInv, GoesAdrift
    PROVE  adrift' \subseteq CallRecord /\ \A c \in adrift' : RequestOK(c) /\ c.kind # "none"
BY DEF WindowsInv, GoesAdrift, WindowsTypeOK, CallOK

LEMMA LeavePageInv == WindowsInv /\ LeavePage => WindowsInv'
<1> SUFFICES ASSUME WindowsInv, LeavePage PROVE WindowsInv'
    OBVIOUS
<1> USE DEF WindowsInv
<1>1. /\ page' = NoPage /\ chooser' = Nobody /\ ticked' = {} /\ marked' = {}
      /\ detail' = NoDetail /\ loading' = FALSE /\ call' = NoCall
      /\ UNCHANGED <<intro, barred>> /\ GoesAdrift
    BY DEF LeavePage
<1>2. WindowsTypeOK'
    BY <1>1, AdriftOK, RestTypes, Persons DEF WindowsTypeOK, NoPage
<1>3. CallOK'
    BY <1>1, AdriftOK DEF CallOK, RequestOK, NoCall
<1>4. WindowOK' /\ MarksOK' /\ DetailOK'
    BY <1>1 DEF WindowOK, MarksOK, DetailOK, NoPage, PageAt, NoCall, NoDetail
<1> QED
    BY <1>2, <1>3, <1>4

\* A page is opened with nothing ticked, marked or asked for.
LEMMA OpenAtInv ==
    ASSUME WindowsInv, NEW kind \in {"directory", "card", "introductions"},
           NEW who \in People \cup {Nobody},
           NEW cta \in {"none", "own card", "introduction", "nothing yet"},
           NEW load \in BOOLEAN, OpenAt(PageAt(kind, who, cta), load),
           kind = "directory" => who = Nobody /\ cta = "none" /\ ~load,
           kind = "card" => who \in People /\ ~load,
           kind = "introductions" =>
               who \in Others /\ cta = "none" /\ StateOf(intro[who]) # "none"
    PROVE  WindowsInv'
<1> USE DEF WindowsInv
<1>1. /\ page' = PageAt(kind, who, cta) /\ loading' = load /\ page.kind = "none"
      /\ UNCHANGED <<intro, barred, chooser, ticked, marked, detail, call, adrift>>
    BY DEF OpenAt
<1>2. /\ page' \in PageRecord /\ page'.kind = kind /\ page'.who = who /\ page'.cta = cta
      /\ ~page'.reporting /\ ~page'.behind /\ page'.choice = [o \in People |-> {}]
    BY <1>1, RestTypes DEF PageAt
<1>3. WindowsTypeOK'
    BY <1>1, <1>2
    DEF WindowsTypeOK
<1>4. CallOK' /\ MarksOK'
    BY <1>1, <1>2 DEF CallOK, RequestOK, MarksOK
<1>5. chooser = Nobody /\ detail = NoDetail
    BY <1>1 DEF WindowOK
<1>6. WindowOK'
    BY <1>1, <1>2, <1>5, Persons DEF WindowOK, CallOK, RequestOK
<1>7. DetailOK'
    BY <1>1, <1>5 DEF DetailOK
<1> QED
    BY <1>3, <1>4, <1>6, <1>7

LEMMA OpenPagesInv ==
    ASSUME WindowsInv,
           \/ OpenDirectory \/ \E who \in People : OpenCard(who)
           \/ \E o \in Others : OpenIntroductions(o)
    PROVE  WindowsInv'
<1>1. CASE OpenDirectory
    BY <1>1, OpenAtInv DEF OpenDirectory
<1>2. CASE \E who \in People : OpenCard(who)
  <2> PICK who \in People : OpenCard(who)
    BY <1>2
  <2> PICK owns \in {who = Me, FALSE}, shares \in BOOLEAN :
         OpenAt(PageAt("card", who, CtaOf(who, owns, shares)), FALSE)
    BY DEF OpenCard
  <2>1. CtaOf(who, owns, shares) \in {"none", "own card", "introduction", "nothing yet"}
    BY DEF CtaOf
  <2> QED
    BY <2>1, OpenAtInv
<1>3. CASE \E o \in Others : OpenIntroductions(o)
    BY <1>3, OpenAtInv, Persons DEF OpenIntroductions
<1> QED
    BY <1>1, <1>2, <1>3

\* The window opens with nothing ticked, which is then the choice for this person.
LEMMA OpenChooserInv ==
    ASSUME WindowsInv, NEW o \in Others, OpenChooser(o)
    PROVE  WindowsInv'
<1> USE DEF WindowsInv
<1>1. /\ page.kind = "directory" /\ chooser' = o /\ ticked' = {}
      /\ UNCHANGED <<intro, barred, marked, detail, loading, call, adrift>>
      /\ page' = [page EXCEPT !.choice[o] = {}]
    BY DEF OpenChooser
<1>2. PICK p : p = [page EXCEPT !.choice[o] = {}]
    OBVIOUS
<1>3. /\ p \in PageRecord /\ p.choice[o] = {}
      /\ p.kind = page.kind /\ p.who = page.who /\ p.cta = page.cta
      /\ p.behind = page.behind /\ p.reporting = page.reporting
    BY <1>2, Persons DEF WindowsTypeOK, PageRecord
<1>4. WindowsTypeOK'
    BY <1>1, <1>2, <1>3, Persons
    DEF WindowsTypeOK
<1>5. CallOK' /\ MarksOK'
    BY <1>1 DEF CallOK, RequestOK, MarksOK
<1>6. WindowOK' /\ DetailOK'
    BY <1>1, <1>2, <1>3, Persons DEF WindowOK, DetailOK
<1> QED
    BY <1>4, <1>5, <1>6

LEMMA ChooserInv == WindowsInv /\ (OpenCta \/ CloseChooser) => WindowsInv'
<1> SUFFICES ASSUME WindowsInv, OpenCta \/ CloseChooser PROVE WindowsInv'
    OBVIOUS
<1> USE DEF WindowsInv
<1>1. /\ UNCHANGED <<intro, barred, page, ticked, marked, detail, loading, call, adrift>>
      /\ \/ page.cta = "introduction" /\ chooser' = page.who
         \/ chooser' = Nobody
    BY DEF OpenCta, CloseChooser
<1>2. page.cta = "introduction" => page.kind = "card" /\ page.who \in People
    BY DEF WindowOK
<1>3. WindowsTypeOK'
    BY <1>1, <1>2 DEF WindowsTypeOK
<1>4. CallOK' /\ MarksOK' /\ DetailOK'
    BY <1>1 DEF CallOK, RequestOK, MarksOK, DetailOK
<1>5. WindowOK'
    BY <1>1, <1>2 DEF WindowOK
<1> QED
    BY <1>3, <1>4, <1>5

\* A tick counts for the person the open window, or the offered acceptance, is about.
LEMMA TickKindInv ==
    ASSUME WindowsInv, NEW kind \in LinkKinds, TickKind(kind)
    PROVE  WindowsInv'
<1> USE DEF WindowsInv
<1> DEFINE flipped == IF kind \in ticked THEN ticked \ {kind} ELSE ticked \cup {kind}
<1>1. /\ ticked' = flipped
      /\ UNCHANGED <<intro, barred, chooser, marked, detail, loading, call, adrift>>
      /\ page' = [page EXCEPT !.choice[About] =
                    IF kind \in ticked THEN @ \ {kind} ELSE @ \cup {kind}]
    BY DEF TickKind
<1>2. /\ About \in People /\ ticked = page.choice[About]
      /\ page.kind \in {"introductions", "card"} => About = page.who
      /\ page.kind \in {"none", "directory"} => chooser = About
      /\ chooser # Nobody => About = chooser
  <2>1. About # Nobody
    BY DEF TickKind
  <2>2. CASE page.kind = "introductions"
    BY <2>1, <2>2, Persons DEF About, WindowOK
  <2>3. CASE page.kind # "introductions"
    <3>1. detail.state # "pending"
        BY <2>3 DEF WindowOK, NoDetail
    <3>2. About = chooser
        BY <3>1 DEF About, CardAnswers
    <3> QED
        BY <2>1, <2>3, <3>2 DEF WindowsTypeOK, WindowOK
  <2> QED
    BY <2>2, <2>3
<1>3. PICK p : p = [page EXCEPT !.choice[About] =
                     IF kind \in ticked THEN @ \ {kind} ELSE @ \cup {kind}]
    OBVIOUS
<1>4. page \in PageRecord /\ page.choice[About] \in SUBSET LinkKinds /\ flipped \in SUBSET LinkKinds
    BY <1>2 DEF WindowsTypeOK, PageRecord
<1>5. /\ p \in PageRecord /\ p.choice[About] = flipped
      /\ p.kind = page.kind /\ p.who = page.who /\ p.cta = page.cta
      /\ p.behind = page.behind /\ p.reporting = page.reporting
  <2>1. p = [page EXCEPT !.choice = [page.choice EXCEPT ![About] = flipped]]
    BY <1>2, <1>3, <1>4 DEF PageRecord
  <2> HIDE DEF flipped
  <2> QED
    BY <1>2, <1>4, <2>1 DEF PageRecord
<1> HIDE DEF flipped
<1>6. WindowsTypeOK'
    BY <1>1, <1>3, <1>4, <1>5
    DEF WindowsTypeOK
<1>7. CallOK' /\ MarksOK'
    BY <1>1 DEF CallOK, RequestOK, MarksOK
<1>8. WindowOK'
    BY <1>1, <1>2, <1>3, <1>5, Persons DEF WindowOK
<1>9. DetailOK'
    BY <1>1, <1>3, <1>5 DEF DetailOK
<1> QED
    BY <1>6, <1>7, <1>8, <1>9

LEMMA ProposeInv == WindowsInv /\ Propose => WindowsInv'
<1> SUFFICES ASSUME WindowsInv, Propose PROVE WindowsInv'
    OBVIOUS
<1> USE DEF WindowsInv
<1>1. /\ chooser # Nobody /\ chooser \in People /\ ticked = page.choice[chooser]
      /\ call' = [kind |-> "propose", to |-> chooser, fields |-> ticked,
                  asked |-> page.choice[chooser], at |-> "sent"]
      /\ UNCHANGED <<intro, barred, page, chooser, ticked, marked, detail, loading, adrift>>
    BY DEF Propose, WindowOK, WindowsTypeOK
<1>2. WindowsTypeOK'
    BY <1>1 DEF WindowsTypeOK, CallRecord
<1>3. CallOK' /\ MarksOK' /\ WindowOK' /\ DetailOK'
    BY <1>1 DEF CallOK, RequestOK, MarksOK, WindowOK, DetailOK
<1> QED
    BY <1>2, <1>3

LEMMA ProposedInv == WindowsInv /\ Proposed => WindowsInv'
<1> SUFFICES ASSUME WindowsInv, Proposed PROVE WindowsInv'
    OBVIOUS
<1> USE DEF WindowsInv
<1>1. /\ call' = NoCall /\ call.kind = "propose" /\ call.at \in {"ok", "refused"}
      /\ UNCHANGED <<intro, barred, page, detail, loading, adrift>>
    BY DEF Proposed
<1>2. \/ /\ call.at = "ok" /\ marked' = marked \cup {call.to} /\ chooser' = Nobody
         /\ ticked' = IF page.kind = "directory" THEN {} ELSE ticked
      \/ UNCHANGED <<marked, chooser, ticked>>
    BY DEF Proposed
<1>3. call.at = "ok" => call.to \in Others /\ StateOf(intro[call.to]) # "none"
    BY <1>1 DEF MarksOK
<1>4. WindowsTypeOK'
    BY <1>1, <1>2, <1>3, RestTypes DEF WindowsTypeOK
<1>5. CallOK' /\ MarksOK'
    BY <1>1, <1>2, <1>3 DEF CallOK, RequestOK, MarksOK, NoCall
<1>6. WindowOK' /\ DetailOK'
    BY <1>1, <1>2 DEF WindowOK, DetailOK, NoCall
<1> QED
    BY <1>4, <1>5, <1>6

\* What is read of an introduction is the decision there is.
LEMMA Read ==
    ASSUME intro \in [Others -> RowRecord], NEW o \in Others
    PROVE  DetailOf(o) \in DetailRecord /\ DetailOf(o).mine = intro[o].mine
<1>1. intro[o] \in RowRecord
    OBVIOUS
<1> QED
    BY <1>1, StateTypes DEF DetailOf, DetailRecord, RowRecord

LEMMA FirstLoadInv ==
    ASSUME WindowsInv, NEW readable \in BOOLEAN, FirstLoad(readable)
    PROVE  WindowsInv'
<1> USE DEF WindowsInv
<1>1. /\ loading' = FALSE /\ page.kind = "introductions" /\ page.who \in Others
      /\ detail' = IF readable THEN DetailOf(page.who) ELSE NoDetail
      /\ UNCHANGED <<intro, barred, chooser, ticked, marked, call, adrift>>
      /\ page' = [page EXCEPT !.behind = FALSE]
    BY DEF FirstLoad, WindowOK
<1>p. /\ page' \in PageRecord /\ page'.kind = page.kind /\ page'.who = page.who
      /\ page'.cta = page.cta /\ page'.choice = page.choice /\ page'.reporting = page.reporting
    BY <1>1 DEF WindowsTypeOK, PageRecord
<1>2. detail' \in DetailRecord /\ (detail' # NoDetail => detail'.mine = intro[page.who].mine)
    BY <1>1, Read, RestTypes DEF WindowsTypeOK
<1>3. WindowsTypeOK'
    BY <1>1, <1>2, <1>p DEF WindowsTypeOK
<1>4. CallOK' /\ MarksOK' /\ WindowOK' /\ DetailOK'
    BY <1>1, <1>2, <1>p DEF CallOK, RequestOK, MarksOK, WindowOK, DetailOK
<1> QED
    BY <1>3, <1>4

LEMMA ReloadedInv ==
    ASSUME WindowsInv, NEW readable \in BOOLEAN, Reloaded(readable)
    PROVE  WindowsInv'
<1> USE DEF WindowsInv
<1>1. /\ page.kind = "introductions" /\ page.who \in Others /\ call' = NoCall
      /\ detail' = IF readable THEN DetailOf(page.who) ELSE NoDetail
      /\ UNCHANGED <<intro, barred, chooser, ticked, marked, loading, adrift>>
      /\ page' = [page EXCEPT !.behind = FALSE]
    BY DEF Reloaded, WindowOK, CallOK, RequestOK, Answering
<1>p. /\ page' \in PageRecord /\ page'.kind = page.kind /\ page'.who = page.who
      /\ page'.cta = page.cta /\ page'.choice = page.choice /\ page'.reporting = page.reporting
    BY <1>1 DEF WindowsTypeOK, PageRecord
<1>2. detail' \in DetailRecord /\ (detail' # NoDetail => detail'.mine = intro[page.who].mine)
    BY <1>1, Read, RestTypes DEF WindowsTypeOK
<1>3. WindowsTypeOK'
    BY <1>1, <1>2, <1>p, RestTypes DEF WindowsTypeOK
<1>4. CallOK' /\ MarksOK' /\ WindowOK' /\ DetailOK'
    BY <1>1, <1>2, <1>p DEF CallOK, RequestOK, MarksOK, WindowOK, DetailOK, NoCall
<1> QED
    BY <1>3, <1>4

LEMMA PressInv ==
    ASSUME WindowsInv, NEW kind \in Answering \cup {"block", "report"}, Press(kind)
    PROVE  WindowsInv'
<1> USE DEF WindowsInv
<1>1. /\ page.kind = "introductions" /\ call.kind = "none" /\ page.who \in Others
      /\ ticked = page.choice[page.who]
      /\ UNCHANGED <<intro, barred, page, chooser, ticked, marked, detail, loading, adrift>>
    BY DEF Press, Busy, WindowOK
<1>2. call' = [kind |-> kind, to |-> page.who, at |-> "sent",
               fields |-> IF kind = "accept" THEN ticked ELSE {},
               asked |-> IF kind = "accept" THEN page.choice[page.who] ELSE {}]
    BY DEF Press
<1>3. call' \in CallRecord
    BY <1>1, <1>2, Persons DEF WindowsTypeOK, CallRecord
<1>4. WindowsTypeOK'
    BY <1>1, <1>3 DEF WindowsTypeOK
<1>5. CallOK' /\ MarksOK' /\ WindowOK' /\ DetailOK'
    BY <1>1, <1>2 DEF CallOK, RequestOK, MarksOK, WindowOK, DetailOK, Answering
<1> QED
    BY <1>4, <1>5

LEMMA OpenReportInv ==
    ASSUME WindowsInv, NEW open \in BOOLEAN, OpenReport(open)
    PROVE  WindowsInv'
<1> USE DEF WindowsInv
<1>1. /\ page' = [page EXCEPT !.reporting = open] /\ page.kind = "introductions"
      /\ UNCHANGED <<intro, barred, chooser, ticked, marked, detail, loading, call, adrift>>
    BY DEF OpenReport
<1>2. /\ page' \in PageRecord /\ page'.kind = page.kind /\ page'.who = page.who
      /\ page'.cta = page.cta /\ page'.behind = page.behind /\ page'.choice = page.choice
    BY <1>1 DEF WindowsTypeOK, PageRecord
<1>3. WindowsTypeOK'
    BY <1>1, <1>2 DEF WindowsTypeOK
<1>4. CallOK' /\ MarksOK' /\ WindowOK' /\ DetailOK'
    BY <1>1, <1>2 DEF CallOK, RequestOK, MarksOK, WindowOK, DetailOK
<1> QED
    BY <1>3, <1>4

LEMMA PressedInv == WindowsInv /\ Pressed => WindowsInv'
<1> SUFFICES ASSUME WindowsInv, Pressed PROVE WindowsInv'
    OBVIOUS
<1> USE DEF WindowsInv
<1>1. /\ call.kind \notin {"none", "propose"} /\ call.at \in {"ok", "refused"}
      /\ call' = IF call.at = "ok" /\ call.kind \notin {"block", "report"}
                 THEN [call EXCEPT !.at = "reload"] ELSE NoCall
      /\ page' = IF call.at = "ok" /\ call.kind = "report"
                 THEN [page EXCEPT !.reporting = FALSE] ELSE page
      /\ UNCHANGED <<intro, barred, chooser, ticked, marked, detail, loading, adrift>>
    BY DEF Pressed
<1>2. page.kind = "introductions"
    BY <1>1 DEF WindowOK
<1>3. /\ page' \in PageRecord /\ page'.kind = page.kind /\ page'.who = page.who
      /\ page'.cta = page.cta /\ page'.behind = page.behind /\ page'.choice = page.choice
    BY <1>1 DEF WindowsTypeOK, PageRecord
<1>4. CASE call.at = "ok" /\ call.kind \notin {"block", "report"}
  <2>1. /\ call' \in CallRecord /\ call'.at = "reload" /\ call'.kind = call.kind
        /\ call'.to = call.to /\ call'.fields = call.fields /\ call'.asked = call.asked
    BY <1>1, <1>4 DEF WindowsTypeOK, CallRecord
  <2>2. call.kind \in Answering
    BY <1>1, <1>4 DEF WindowsTypeOK, CallRecord
  <2>3. WindowsTypeOK'
    BY <1>1, <1>3, <2>1 DEF WindowsTypeOK
  <2>4. CallOK' /\ MarksOK' /\ WindowOK' /\ DetailOK'
    BY <1>1, <1>2, <1>3, <2>1, <2>2 DEF CallOK, RequestOK, MarksOK, WindowOK, DetailOK, Answering
  <2> QED
    BY <2>3, <2>4
<1>5. CASE ~(call.at = "ok" /\ call.kind \notin {"block", "report"})
  <2>1. call' = NoCall
    BY <1>1, <1>5
  <2>2. WindowsTypeOK'
    BY <1>1, <1>3, <2>1, RestTypes DEF WindowsTypeOK
  <2>3. CallOK' /\ MarksOK' /\ WindowOK'
    BY <1>1, <1>2, <1>3, <2>1 DEF CallOK, RequestOK, MarksOK, WindowOK, NoCall
  <2>4. DetailOK'
    BY <1>1, <1>3, <1>5, <2>1 DEF DetailOK
  <2> QED
    BY <2>2, <2>3, <2>4
<1> QED
    BY <1>4, <1>5

LEMMA AnswerLostInv == WindowsInv /\ AnswerLost => WindowsInv'
<1> SUFFICES ASSUME WindowsInv, AnswerLost PROVE WindowsInv'
    OBVIOUS
<1> USE DEF WindowsInv
<1> DEFINE untold == call.at = "ok" /\ call.kind \in Answering
<1>1. /\ call' = NoCall /\ page' = [page EXCEPT !.behind = @ \/ untold] /\ GoesAdrift
      /\ call.at \in {"sent", "ok", "refused"}
      /\ UNCHANGED <<intro, barred, chooser, ticked, marked, detail, loading>>
    BY DEF AnswerLost
<1>2. /\ page' \in PageRecord /\ page'.kind = page.kind /\ page'.who = page.who
      /\ page'.cta = page.cta /\ page'.choice = page.choice /\ page'.reporting = page.reporting
      /\ ~page'.behind => ~page.behind /\ ~untold
  <2>1. page \in PageRecord /\ page.behind \in BOOLEAN
    BY DEF WindowsTypeOK, PageRecord
  <2>2. PICK b \in BOOLEAN : b = (page.behind \/ untold)
    BY <2>1
  <2>3. page' = [page EXCEPT !.behind = b]
    BY <1>1, <2>2
  <2> HIDE DEF untold
  <2> QED
    BY <2>1, <2>2, <2>3 DEF PageRecord
<1>3. WindowsTypeOK'
    BY <1>1, <1>2, AdriftOK, RestTypes DEF WindowsTypeOK
<1>4. CallOK'
    BY <1>1, AdriftOK DEF CallOK, RequestOK, NoCall
<1>5. WindowOK' /\ MarksOK'
    BY <1>1, <1>2 DEF WindowOK, MarksOK, NoCall
<1>6. DetailOK'
  <2>1. call.at # "ok" \/ call.kind \in {"propose", "block", "report"} \cup Answering
    BY DEF WindowsTypeOK, CallRecord, CallOK
  <2> QED
    BY <1>1, <1>2, <2>1 DEF DetailOK, WindowOK
<1> QED
    BY <1>3, <1>4, <1>5, <1>6

\* The other person decides, or lifts the block: the member's decision stays.
LEMMA OtherActsInv ==
    ASSUME WindowsInv, NEW o \in Others, OtherActs(o)
    PROVE  WindowsInv'
<1> USE DEF WindowsInv
<1>1. UNCHANGED <<page, chooser, ticked, marked, detail, loading, call, adrift>>
    BY DEF OtherActs
<1>2. \/ \E d \in Answering : intro' = [intro EXCEPT ![o].theirs = d] /\ UNCHANGED barred
      \/ barred' = barred \ {o} /\ UNCHANGED intro
    BY DEF OtherActs
<1>3. /\ intro' \in [Others -> RowRecord] /\ barred' \subseteq Others
      /\ \A p \in Others : /\ intro'[p].mine = intro[p].mine
                           /\ intro'[p].fields = intro[p].fields
                           /\ intro'[p].asked = intro[p].asked
                           /\ intro'[p].theirs = "none" => intro[p].theirs = "none"
  <2>1. CASE \E d \in Answering : intro' = [intro EXCEPT ![o].theirs = d] /\ UNCHANGED barred
    BY <2>1 DEF WindowsTypeOK, RowRecord, Decisions, Answering
  <2>2. CASE barred' = barred \ {o} /\ UNCHANGED intro
    BY <2>2 DEF WindowsTypeOK
  <2> QED
    BY <1>2, <2>1, <2>2
<1>4. WindowsTypeOK'
    BY <1>1, <1>3 DEF WindowsTypeOK
<1>5. CallOK' /\ WindowOK'
    BY <1>1 DEF CallOK, RequestOK, WindowOK
<1>6. \A p \in Others : StateOf(intro[p]) # "none" => StateOf(intro'[p]) # "none"
    BY <1>3, StateTypes DEF WindowsTypeOK
<1>7. MarksOK'
    BY <1>1, <1>3, <1>6 DEF MarksOK, WindowsTypeOK, WindowOK
<1>8. DetailOK'
    BY <1>1, <1>3 DEF DetailOK, WindowOK
<1> QED
    BY <1>4, <1>5, <1>7, <1>8

LEMMA NextWindows == WindowsInv /\ [WindowsNext]_windowVars => WindowsInv'
<1> SUFFICES ASSUME WindowsInv, [WindowsNext]_windowVars PROVE WindowsInv'
    OBVIOUS
<1>1. CASE UNCHANGED windowVars
    BY <1>1 DEF windowVars, WindowsInv, WindowsTypeOK, CallOK, RequestOK, WindowOK, MarksOK, DetailOK
<1>2. CASE OpenDirectory \/ \E who \in People : OpenCard(who)
    BY <1>2, OpenPagesInv
<1>3. CASE \E o \in Others : OpenIntroductions(o) \/ OpenChooser(o) \/ OtherActs(o)
    BY <1>3, OpenPagesInv, OpenChooserInv, OtherActsInv
<1>4. CASE \/ LeavePage \/ OpenCta \/ CloseChooser \/ Propose \/ ServeCall \/ Proposed
           \/ Pressed \/ AnswerLost \/ \E c \in adrift : ServeAdrift(c)
    BY <1>4, LeavePageInv, ChooserInv, ProposeInv, ServeCallInv, ProposedInv, PressedInv,
       AnswerLostInv, ServeAdriftInv
<1>5. CASE \/ \E kind \in LinkKinds : TickKind(kind)
           \/ \E kind \in Answering \cup {"block", "report"} : Press(kind)
           \/ \E open \in BOOLEAN : OpenReport(open)
           \/ \E readable \in BOOLEAN : FirstLoad(readable) \/ Reloaded(readable)
    BY <1>5, TickKindInv, PressInv, OpenReportInv, FirstLoadInv, ReloadedInv
<1> QED
    BY <1>1, <1>2, <1>3, <1>4, <1>5 DEF WindowsNext

\* The windows keep to their types, over any pages, people and contacts.
THEOREM WindowTypesHold == WindowsSpec => []WindowsTypeOK
<1>1. WindowsInv => WindowsTypeOK
    BY DEF WindowsInv
<1> QED
    BY InitWindows, NextWindows, <1>1, PTL DEF WindowsSpec

\* A member reveals to a person what was ticked while the window was about that person
\* (directory-panel.tsx:527), and "proposed" has an introduction behind it.
THEOREM RevealedAsTicked == WindowsSpec => []ProposedAsChosen
<1>1. WindowsInv => ProposedAsChosen
    BY DEF WindowsInv, MarksOK, ProposedAsChosen
<1> QED
    BY InitWindows, NextWindows, <1>1, PTL DEF WindowsSpec

\* A loaded card shows the member's own decision (intro-card.tsx:133) unless one has taken
\* effect since it loaded without the page being told: the answer was lost, or it had been
\* sent by a page left before.
THEOREM DecisionShown == WindowsSpec => []OwnAnswerShown
<1>1. WindowsInv => OwnAnswerShown
    BY DEF WindowsInv, CallOK, RequestOK, DetailOK, OwnAnswerShown, Busy
<1> QED
    BY InitWindows, NextWindows, <1>1, PTL DEF WindowsSpec

-----------------------------------------------------------------------------
(* The directory *)

\* A load that was not cancelled is the last one, of the filters as they are; one that was
\* cancelled behind its check is known as overtaken.
LoadsOK ==
    \A l \in LoadNames :
        /\ UnderWay(l) => /\ l = changed /\ loads[l].of = Query(filters)
                          /\ loads[l].rec = recMode
        /\ loads[l].cancelled => loads[l].at = "asked" \/ loads[l].overtaken

\* What is shown is of the filters as soon as the last load has written it.
ShownOK ==
    /\ (\A l \in LoadNames : UnderWay(l) => loads[l].at = "recs") =>
          /\ members.what # "loading"
          /\ (members.what = "list" /\ ~members.overtaken) => members.of = Query(filters)
    /\ (\A l \in LoadNames : ~UnderWay(l)) =>
          /\ strip.what # "loading"
          /\ (strip.what = "list" /\ ~strip.overtaken) => strip.of = recMode

DirectoryInv == DirectoryTypeOK /\ address = Query(filters) /\ LoadsOK /\ ShownOK

\* The address and the API are told the same filters, and told them again they stay.
LEMMA QueryTypes ==
    ASSUME NEW f \in FilterStates
    PROVE  /\ Query(f) \in FilterStates /\ Query(f) \in QueryRecord
           /\ Query(Query(f)) = Query(f) /\ Query(f).mode = f.mode
           /\ \A intentPossible \in BOOLEAN : FromQuery(Query(f), intentPossible) = Query(f)
<1>1. /\ f.mode \in Modes /\ f.facets \in SUBSET Facets /\ f.text \in Texts
      /\ f = [mode |-> f.mode, facets |-> f.facets, text |-> f.text]
    BY DEF FilterStates
<1>2. /\ Trimmed(f.text) \in Texts /\ Trimmed(Trimmed(f.text)) = Trimmed(f.text)
    BY <1>1 DEF Trimmed, Texts
<1>3. Query(f) = [mode |-> f.mode, facets |-> f.facets, text |-> Trimmed(f.text)]
    BY <1>1 DEF Query
<1>4. Query(f) \in FilterStates /\ Query(f) \in QueryRecord
    BY <1>1, <1>2, <1>3 DEF FilterStates, QueryRecord
<1>5. Query(Query(f)) = Query(f)
    BY <1>1, <1>2, <1>3 DEF Query
<1>6. ASSUME NEW intentPossible \in BOOLEAN
      PROVE  FromQuery(Query(f), intentPossible) = Query(f)
    BY <1>1, <1>3 DEF FromQuery
<1> QED
    BY <1>3, <1>4, <1>5, <1>6

\* The queries an address may hold.
AddressRecord == [mode : Modes \cup {"absent", "unknown"}, facets : SUBSET Facets, text : Texts]

LEMMA Addresses ==
    /\ NoQuery \in AddressRecord /\ FilterStates \subseteq AddressRecord
    /\ [mode |-> "unknown", facets |-> Facets, text |-> "anna"] \in AddressRecord
<1>1. NoQuery \in AddressRecord
    BY DEF NoQuery, AddressRecord, Texts
<1>2. FilterStates \subseteq AddressRecord
    BY DEF FilterStates, AddressRecord
<1>3. "anna" \in Texts /\ Facets \in SUBSET Facets
    BY DEF Texts
<1>4. [mode |-> "unknown", facets |-> Facets, text |-> "anna"] \in AddressRecord
    BY <1>3 DEF AddressRecord
<1> QED
    BY <1>1, <1>2, <1>4

LEMMA FromQueryType ==
    ASSUME NEW query \in AddressRecord,
           NEW intentPossible \in BOOLEAN
    PROVE  FromQuery(query, intentPossible) \in FilterStates
<1>1. DefaultMode(intentPossible) \in Modes
    BY DEF DefaultMode, Modes
<1> QED
    BY <1>1 DEF FromQuery, FilterStates, AddressRecord

LEMMA LoadTypes ==
    /\ NoQuery \in QueryRecord /\ NoLoad \in LoadRecord
    /\ \A f \in FilterStates, mode \in RecModes :
          /\ LoadOf(f, mode) \in LoadRecord /\ LoadOf(f, mode).at = "asked"
          /\ LoadOf(f, mode).of = Query(f) /\ LoadOf(f, mode).rec = mode
          /\ ~LoadOf(f, mode).cancelled
    /\ Loading \in [what : {"loading", "list", "nobody"}, of : QueryRecord, overtaken : BOOLEAN]
    /\ StripLoading \in [what : {"loading", "list", "nobody"}, of : RecModes \cup {"nothing"},
                         overtaken : BOOLEAN]
<1>1. NoQuery \in QueryRecord
    BY DEF NoQuery, QueryRecord, Texts
<1>2. NoLoad \in LoadRecord
    BY <1>1 DEF NoLoad, LoadRecord
<1>3. ASSUME NEW f \in FilterStates, NEW mode \in RecModes
      PROVE  /\ LoadOf(f, mode) \in LoadRecord /\ LoadOf(f, mode).at = "asked"
             /\ LoadOf(f, mode).of = Query(f) /\ LoadOf(f, mode).rec = mode
             /\ ~LoadOf(f, mode).cancelled
    BY <1>1, QueryTypes DEF LoadOf, NoLoad, LoadRecord
<1> QED
    BY <1>1, <1>2, <1>3 DEF Loading, StripLoading

\* A page that is drawn for the first time waits for its first load.
LEMMA PageDrawn ==
    ASSUME filters' \in FilterStates, PageOf(filters')
    PROVE  DirectoryInv'
<1>1. /\ recMode' = "useful" /\ address' = Query(filters') /\ members' = Loading
      /\ strip' = StripLoading /\ shut' = FALSE /\ changed' = 0
      /\ loads' = [l \in LoadNames |-> IF l = 0 THEN LoadOf(filters', "useful") ELSE NoLoad]
    BY DEF PageOf
<1>2. 0 \in LoadNames /\ "useful" \in RecModes
    BY DirectoryAssumption DEF LoadNames
<1>3. /\ loads' \in [LoadNames -> LoadRecord] /\ loads'[0] = LoadOf(filters', "useful")
      /\ \A l \in LoadNames : l # 0 => loads'[l] = NoLoad
    BY <1>1, <1>2, LoadTypes
<1>4. DirectoryTypeOK'
    BY <1>1, <1>2, <1>3, LoadTypes, QueryTypes DEF DirectoryTypeOK
<1>5. LoadsOK'
    BY <1>1, <1>2, <1>3, LoadTypes DEF LoadsOK, UnderWay, NoLoad
<1>6. UnderWay(0)' /\ loads'[0].at = "asked"
    BY <1>2, <1>3, LoadTypes DEF UnderWay
<1>7. ShownOK'
    BY <1>2, <1>6 DEF ShownOK
<1> QED
    BY <1>1, <1>4, <1>5, <1>7 DEF DirectoryInv

LEMMA InitDirectory == DirectoryInit => DirectoryInv
<1> SUFFICES ASSUME DirectoryInit PROVE DirectoryInv
    OBVIOUS
<1> PICK query \in {NoQuery, [mode |-> "unknown", facets |-> Facets, text |-> "anna"]},
         intentPossible \in BOOLEAN : filters = FromQuery(query, intentPossible)
    BY DEF DirectoryInit
<1>1. query \in AddressRecord
    BY Addresses
<1>2. filters \in FilterStates
    BY <1>1, FromQueryType
<1>3. /\ recMode = "useful" /\ address = Query(filters) /\ members = Loading
      /\ strip = StripLoading /\ shut = FALSE /\ changed = 0
      /\ loads = [l \in LoadNames |-> IF l = 0 THEN LoadOf(filters, "useful") ELSE NoLoad]
    BY DEF DirectoryInit
<1>4. 0 \in LoadNames /\ "useful" \in RecModes
    BY DirectoryAssumption DEF LoadNames
<1>5. /\ loads \in [LoadNames -> LoadRecord] /\ loads[0] = LoadOf(filters, "useful")
      /\ \A l \in LoadNames : l # 0 => loads[l] = NoLoad
    BY <1>2, <1>3, <1>4, LoadTypes
<1>6. DirectoryTypeOK
    BY <1>2, <1>3, <1>4, <1>5, LoadTypes, QueryTypes DEF DirectoryTypeOK
<1>7. LoadsOK
    BY <1>2, <1>3, <1>4, <1>5, LoadTypes DEF LoadsOK, UnderWay, NoLoad
<1>8. UnderWay(0) /\ loads[0].at = "asked"
    BY <1>2, <1>4, <1>5, LoadTypes DEF UnderWay
<1>9. ShownOK
    BY <1>4, <1>8 DEF ShownOK
<1> QED
    BY <1>3, <1>6, <1>7, <1>9 DEF DirectoryInv

\* Every change cancels the load under way and starts one of the filters as they are then.
LEMMA ApplyInv ==
    ASSUME DirectoryInv, NEW f \in FilterStates, NEW mode \in RecModes, Apply(f, mode)
    PROVE  DirectoryInv'
<1> USE DEF DirectoryInv
<1>1. /\ filters' = f /\ recMode' = mode /\ address' = Query(f) /\ changed' = changed + 1
      /\ loads' = [Cancelled EXCEPT ![changed + 1] = LoadOf(f, mode)]
      /\ changed < MaxChanges /\ UNCHANGED <<members, strip, shut>>
    BY DEF Apply
<1> PICK n : n = changed + 1
    OBVIOUS
<1>2. changed \in Nat /\ n \in LoadNames
    BY <1>1, DirectoryAssumption DEF DirectoryTypeOK, LoadNames
<1>3. \A l \in LoadNames : loads[l] \in LoadRecord
    BY DEF DirectoryTypeOK
<1>4. /\ Cancelled \in [LoadNames -> LoadRecord]
      /\ \A l \in LoadNames :
            /\ Cancelled[l].cancelled => Cancelled[l].at = "asked" \/ Cancelled[l].overtaken
            /\ Cancelled[l].cancelled \/ Cancelled[l].at = "none"
  <2>1. ASSUME NEW l \in LoadNames
        PROVE  LET c == IF UnderWay(l)
                        THEN [loads[l] EXCEPT !.cancelled = TRUE,
                                              !.overtaken = @ \/ loads[l].at # "asked"]
                        ELSE loads[l]
               IN /\ c \in LoadRecord
                  /\ c.cancelled => c.at = "asked" \/ c.overtaken
                  /\ c.cancelled \/ c.at = "none"
    <3>1. PICK x : x = [loads[l] EXCEPT !.cancelled = TRUE,
                                        !.overtaken = @ \/ loads[l].at # "asked"]
        OBVIOUS
    <3>2. loads[l] \in LoadRecord /\ x \in LoadRecord
        BY <1>3, <3>1 DEF LoadRecord
    <3>3. /\ x.cancelled /\ x.at = loads[l].at
          /\ x.overtaken = (loads[l].overtaken \/ loads[l].at # "asked")
        <4>1. /\ "cancelled" \in DOMAIN loads[l] /\ "overtaken" \in DOMAIN loads[l]
              /\ "at" \in DOMAIN loads[l]
            BY <3>2 DEF LoadRecord
        <4> QED
            BY <3>1, <4>1, Zenon
    <3>4. ~UnderWay(l) => /\ loads[l].cancelled => loads[l].at = "asked" \/ loads[l].overtaken
                          /\ loads[l].cancelled \/ loads[l].at = "none"
        BY DEF LoadsOK, UnderWay
    <3> QED
        BY <3>1, <3>2, <3>3, <3>4
  <2> QED
    BY <2>1 DEF Cancelled
<1>5. /\ loads' \in [LoadNames -> LoadRecord] /\ loads'[n] = LoadOf(f, mode)
      /\ \A l \in LoadNames : l # n => loads'[l] = Cancelled[l]
    BY <1>1, <1>2, <1>4, LoadTypes
<1>6. DirectoryTypeOK'
    BY <1>1, <1>2, <1>5, QueryTypes DEF DirectoryTypeOK
<1>7. LoadsOK'
    <2>1. LoadOf(f, mode).of = Query(f) /\ LoadOf(f, mode).rec = mode
          /\ ~LoadOf(f, mode).cancelled
        BY LoadTypes
    <2>2. \A l \in LoadNames : l # n => ~UnderWay(l)'
        BY <1>4, <1>5 DEF UnderWay
    <2>3. \A l \in LoadNames : loads'[l].cancelled
                => loads'[l].at = "asked" \/ loads'[l].overtaken
        BY <1>4, <1>5, <2>1
    <2> HIDE DEF DirectoryInv
    <2> QED
        BY <1>1, <1>2, <1>5, <2>1, <2>2, <2>3 DEF LoadsOK
<1>8. UnderWay(n)' /\ loads'[n].at = "asked"
    BY <1>2, <1>5, LoadTypes DEF UnderWay
<1>9. ShownOK'
    BY <1>2, <1>8 DEF ShownOK
<1> QED
    BY <1>1, <1>6, <1>7, <1>9

LEMMA ChangesInv ==
    ASSUME DirectoryInv,
           \/ \E mode \in Modes : ChooseMode(mode)
           \/ \E facet \in Facets : ChooseFacet(facet)
           \/ \E typed \in {"", "anna "} : Search(typed)
           \/ \E mode \in RecModes : ChooseRecMode(mode)
           \/ ClearFilters \/ ShowEveryone
    PROVE  DirectoryInv'
<1>1. filters \in FilterStates /\ recMode \in RecModes
    BY DEF DirectoryInv, DirectoryTypeOK
<1>2. /\ \A mode \in Modes : [filters EXCEPT !.mode = mode] \in FilterStates
      /\ \A facet \in Facets :
            /\ [filters EXCEPT !.facets = @ \cup {facet}] \in FilterStates
            /\ [filters EXCEPT !.facets = @ \ {facet}] \in FilterStates
      /\ \A typed \in Texts : [filters EXCEPT !.text = typed] \in FilterStates
      /\ [filters EXCEPT !.facets = {}, !.text = ""] \in FilterStates
      /\ {"", "anna "} \subseteq Texts /\ "all" \in Modes
    BY <1>1 DEF FilterStates, Texts, Modes
<1> QED
    BY <1>1, <1>2, ApplyInv
    DEF ChooseMode, ChooseFacet, Search, ChooseRecMode, ClearFilters, ShowEveryone

LEMMA OpenPageInv ==
    ASSUME DirectoryInv, NEW query \in {address, NoQuery}, NEW intentPossible \in BOOLEAN,
           OpenPage(query, intentPossible)
    PROVE  DirectoryInv'
<1>1. query \in AddressRecord
    BY Addresses DEF DirectoryInv, DirectoryTypeOK
<1>2. filters' \in FilterStates
    BY <1>1, FromQueryType DEF OpenPage
<1> QED
    BY <1>2, PageDrawn DEF OpenPage

\* What a load writes: of its own query, and marked if it had been overtaken.
LEMMA Written ==
    ASSUME DirectoryTypeOK, NEW l \in LoadNames, NEW what \in {"list", "nobody"}
    PROVE  /\ ListOf(l, what) \in [what : {"loading", "list", "nobody"}, of : QueryRecord,
                                   overtaken : BOOLEAN]
           /\ ListOf(l, what).what = what /\ ListOf(l, what).overtaken = loads[l].overtaken
           /\ what = "list" => ListOf(l, what).of = loads[l].of
           /\ StripOf(l, what) \in [what : {"loading", "list", "nobody"},
                                    of : RecModes \cup {"nothing"}, overtaken : BOOLEAN]
           /\ StripOf(l, what).what = what /\ StripOf(l, what).overtaken = loads[l].overtaken
           /\ what = "list" => StripOf(l, what).of = loads[l].rec
<1>1. loads[l] \in LoadRecord
    BY DEF DirectoryTypeOK
<1> QED
    BY <1>1, LoadTypes DEF ListOf, StripOf, LoadRecord

\* A step of one load: it stays the load it was or ends, and writes the list (w) and the
\* recommendations (v) of its own or keeps what is shown.
LoadStep(l, w, v, next) ==
    /\ members' = IF w = "kept" THEN members ELSE ListOf(l, w)
    /\ strip' = IF v = "kept" THEN strip ELSE StripOf(l, v)
    /\ loads' = [loads EXCEPT ![l] = next]
    /\ UNCHANGED <<filters, recMode, address, changed>> /\ shut' \in BOOLEAN
    /\ next \in LoadRecord /\ loads[l].at # "none"
    /\ next.at # "none" => /\ next.of = loads[l].of /\ next.rec = loads[l].rec
                           /\ next.cancelled = loads[l].cancelled

\* A load under way writes the list before it comes to the recommendations, and these before
\* it ends; a cancelled one writes only what it marks as overtaken.
LEMMA LoadStepInv ==
    ASSUME DirectoryInv, NEW l \in LoadNames, NEW w \in {"kept", "list", "nobody"},
           NEW v \in {"kept", "list", "nobody"}, NEW next, LoadStep(l, w, v, next),
           next.cancelled => next.overtaken,
           w # "kept" \/ v # "kept" => (loads[l].cancelled => loads[l].overtaken),
           UnderWay(l) /\ loads[l].at # "recs" /\ next.at \in {"none", "recs"} => w # "kept",
           UnderWay(l) /\ next.at = "none" => v # "kept"
    PROVE  DirectoryInv'
<1> USE DEF DirectoryInv
<1>1. /\ loads \in [LoadNames -> LoadRecord] /\ loads' \in [LoadNames -> LoadRecord]
      /\ loads'[l] = next /\ \A k \in LoadNames : k # l => loads'[k] = loads[k]
    BY DEF LoadStep, DirectoryTypeOK
<1>2. UNCHANGED <<filters, recMode, address, changed>>
    BY DEF LoadStep
<1>3. DirectoryTypeOK'
    BY <1>1, <1>2, Written DEF LoadStep, DirectoryTypeOK
<1>4. \A k \in LoadNames \ {l} : UnderWay(k)' <=> UnderWay(k)
    BY <1>1 DEF UnderWay
<1>5. /\ UnderWay(l)' <=> next.at # "none" /\ ~next.cancelled
      /\ UnderWay(l) <=> ~loads[l].cancelled
    BY <1>1 DEF UnderWay, LoadStep
<1>6. /\ UnderWay(l) => loads[l].of = Query(filters) /\ loads[l].rec = recMode
      /\ UnderWay(l)' => UnderWay(l)
      /\ UnderWay(l) /\ next.at # "none" => UnderWay(l)'
    BY <1>5 DEF LoadStep, LoadsOK
<1>7. LoadsOK'
    BY <1>1, <1>2, <1>4, <1>5, <1>6 DEF LoadsOK, LoadStep
<1>8. ASSUME \A k \in LoadNames : UnderWay(k)' => loads'[k].at = "recs"
      PROVE  /\ members'.what # "loading"
             /\ (members'.what = "list" /\ ~members'.overtaken) => members'.of = Query(filters')
  <2>1. CASE w # "kept"
    BY <1>2, <1>5, <1>6, <2>1, Written DEF LoadStep
  <2>2. CASE w = "kept"
    <3>1. UnderWay(l) => loads[l].at = "recs"
      BY <1>1, <1>5, <1>6, <1>8, <2>2 DEF LoadRecord
    <3>2. \A k \in LoadNames : UnderWay(k) => loads[k].at = "recs"
      BY <1>1, <1>4, <1>8, <3>1
    <3> QED
      BY <1>2, <2>2, <3>2 DEF LoadStep, ShownOK
  <2> QED
    BY <2>1, <2>2
<1>9. ASSUME \A k \in LoadNames : ~UnderWay(k)'
      PROVE  /\ strip'.what # "loading"
             /\ (strip'.what = "list" /\ ~strip'.overtaken) => strip'.of = recMode'
  <2>1. CASE v # "kept"
    BY <1>2, <1>5, <1>6, <2>1, Written DEF LoadStep
  <2>2. CASE v = "kept"
    <3>1. \A k \in LoadNames : ~UnderWay(k)
      BY <1>4, <1>6, <1>9, <2>2
    <3> QED
      BY <1>2, <2>2, <3>1 DEF LoadStep, ShownOK
  <2> QED
    BY <2>1, <2>2
<1>10. ShownOK'
    BY <1>8, <1>9 DEF ShownOK
<1> QED
    BY <1>2, <1>3, <1>7, <1>10

LEMMA BothAnsweredInv ==
    ASSUME DirectoryInv, NEW l \in LoadNames, NEW directory \in {"ok", "closed", "error"},
           NEW recs \in {"ok", "error"}, BothAnswered(l, directory, recs)
    PROVE  DirectoryInv'
<1>1. /\ loads[l] \in LoadRecord /\ loads[l].at = "asked" /\ loads \in [LoadNames -> LoadRecord]
      /\ UNCHANGED <<filters, recMode, address, shut, changed>> /\ shut \in BOOLEAN
    BY DEF BothAnswered, DirectoryInv, DirectoryTypeOK
<1>2. NoLoad \in LoadRecord /\ NoLoad.at = "none" /\ ~NoLoad.cancelled
    BY LoadTypes DEF NoLoad
<1>3. CASE loads[l].cancelled /\ loads' = [loads EXCEPT ![l] = NoLoad]
           /\ UNCHANGED <<members, strip>>
  <2>1. LoadStep(l, "kept", "kept", NoLoad)
    BY <1>1, <1>2, <1>3 DEF LoadStep
  <2> QED
    BY <1>2, <1>3, <2>1, LoadStepInv DEF UnderWay
<1>4. CASE /\ ~loads[l].cancelled /\ directory \in {"ok", "closed"}
           /\ loads' = [loads EXCEPT ![l].at = "directory", ![l].directory = directory,
                                     ![l].recs = recs]
           /\ UNCHANGED <<members, strip>>
  <2>1. PICK next : next = [loads[l] EXCEPT !.at = "directory", !.directory = directory,
                                            !.recs = recs]
    OBVIOUS
  <2>2. /\ next \in LoadRecord /\ next.at = "directory" /\ next.of = loads[l].of
        /\ next.rec = loads[l].rec /\ next.cancelled = loads[l].cancelled
    BY <1>1, <1>4, <2>1 DEF LoadRecord
  <2>3. loads' = [loads EXCEPT ![l] = next]
    BY <1>1, <1>4, <2>1
  <2>4. LoadStep(l, "kept", "kept", next)
    BY <1>1, <1>4, <2>2, <2>3 DEF LoadStep
  <2> QED
    BY <1>4, <2>2, <2>4, LoadStepInv
<1>5. CASE ~loads[l].cancelled /\ members' = ListOf(l, "nobody") /\ ThenRecommendations(l, recs)
  <2>1. CASE recs = "ok"
    <3>1. PICK next : next = [loads[l] EXCEPT !.at = "recs"]
      OBVIOUS
    <3>2. /\ next \in LoadRecord /\ next.at = "recs" /\ next.of = loads[l].of
          /\ next.rec = loads[l].rec /\ next.cancelled = loads[l].cancelled
      BY <1>1, <3>1 DEF LoadRecord
    <3>3. loads' = [loads EXCEPT ![l] = next] /\ UNCHANGED strip
      BY <1>1, <1>5, <2>1, <3>1 DEF ThenRecommendations
    <3>4. LoadStep(l, "nobody", "kept", next)
      BY <1>1, <1>5, <3>2, <3>3 DEF LoadStep
    <3> QED
      BY <1>5, <3>2, <3>4, LoadStepInv
  <2>2. CASE recs # "ok"
    <3>1. LoadStep(l, "nobody", "nobody", NoLoad)
      BY <1>1, <1>2, <1>5, <2>2 DEF LoadStep, ThenRecommendations
    <3> QED
      BY <1>2, <1>5, <3>1, LoadStepInv
  <2> QED
    BY <2>1, <2>2
<1> QED
    BY <1>3, <1>4, <1>5 DEF BothAnswered

LEMMA DirectoryReadInv ==
    ASSUME DirectoryInv, NEW l \in LoadNames, NEW readable \in BOOLEAN,
           DirectoryRead(l, readable)
    PROVE  DirectoryInv'
<1> PICK w : w = IF loads[l].directory = "ok" /\ readable THEN "list" ELSE "nobody"
    OBVIOUS
<1>1. /\ loads[l] \in LoadRecord /\ loads[l].at = "directory"
      /\ loads \in [LoadNames -> LoadRecord] /\ shut \in BOOLEAN
      /\ loads[l].cancelled => loads[l].overtaken
    BY DEF DirectoryRead, DirectoryInv, DirectoryTypeOK, LoadsOK
<1>2. /\ members' = ListOf(l, w) /\ ThenRecommendations(l, loads[l].recs) /\ shut' \in BOOLEAN
      /\ UNCHANGED <<filters, recMode, address, changed>> /\ w \in {"list", "nobody"}
    BY <1>1 DEF DirectoryRead
<1>3. CASE loads[l].recs = "ok"
  <2>1. PICK next : next = [loads[l] EXCEPT !.at = "recs"]
    OBVIOUS
  <2>2. /\ next \in LoadRecord /\ next.at = "recs" /\ next.of = loads[l].of
        /\ next.rec = loads[l].rec /\ next.cancelled = loads[l].cancelled
        /\ next.overtaken = loads[l].overtaken
    BY <1>1, <2>1 DEF LoadRecord
  <2>3. loads' = [loads EXCEPT ![l] = next] /\ UNCHANGED strip
    BY <1>1, <1>2, <1>3, <2>1 DEF ThenRecommendations
  <2>4. LoadStep(l, w, "kept", next)
    BY <1>1, <1>2, <2>2, <2>3 DEF LoadStep
  <2> QED
    BY <1>1, <1>2, <2>2, <2>4, LoadStepInv
<1>4. CASE loads[l].recs # "ok"
  <2>1. NoLoad \in LoadRecord /\ NoLoad.at = "none" /\ ~NoLoad.cancelled
    BY LoadTypes DEF NoLoad
  <2>2. LoadStep(l, w, "nobody", NoLoad)
    BY <1>1, <1>2, <1>4, <2>1 DEF LoadStep, ThenRecommendations
  <2> QED
    BY <1>1, <1>2, <2>1, <2>2, LoadStepInv
<1> QED
    BY <1>3, <1>4

LEMMA LoadEndsInv ==
    ASSUME DirectoryInv, NEW l \in LoadNames,
           (\E readable \in BOOLEAN : RecommendationsRead(l, readable)) \/ NetworkFails(l)
    PROVE  DirectoryInv'
<1>1. /\ loads[l] \in LoadRecord /\ loads \in [LoadNames -> LoadRecord] /\ shut \in BOOLEAN
      /\ loads[l].cancelled => loads[l].at = "asked" \/ loads[l].overtaken
      /\ NoLoad \in LoadRecord /\ NoLoad.at = "none" /\ ~NoLoad.cancelled
    BY LoadTypes DEF DirectoryInv, DirectoryTypeOK, LoadsOK, NoLoad
<1>2. ASSUME NEW readable \in BOOLEAN, RecommendationsRead(l, readable) PROVE DirectoryInv'
  <2> PICK v : v = IF readable THEN "list" ELSE "nobody"
    OBVIOUS
  <2>1. LoadStep(l, "kept", v, NoLoad) /\ loads[l].at = "recs" /\ v \in {"list", "nobody"}
    BY <1>1, <1>2 DEF RecommendationsRead, LoadStep
  <2> QED
    BY <1>1, <2>1, LoadStepInv
<1>3. CASE NetworkFails(l) /\ loads[l].cancelled
  <2>1. LoadStep(l, "kept", "kept", NoLoad)
    BY <1>1, <1>3 DEF NetworkFails, LoadStep
  <2> QED
    BY <1>1, <1>3, <2>1, LoadStepInv DEF UnderWay
<1>4. CASE NetworkFails(l) /\ ~loads[l].cancelled
  <2>1. LoadStep(l, "nobody", "nobody", NoLoad)
    BY <1>1, <1>4 DEF NetworkFails, LoadStep
  <2> QED
    BY <1>1, <1>4, <2>1, LoadStepInv
<1> QED
    BY <1>2, <1>3, <1>4

LEMMA NextDirectory == DirectoryInv /\ [DirectoryNext]_directoryVars => DirectoryInv'
<1> SUFFICES ASSUME DirectoryInv, [DirectoryNext]_directoryVars PROVE DirectoryInv'
    OBVIOUS
<1>1. CASE UNCHANGED directoryVars
    BY <1>1 DEF directoryVars, DirectoryInv, DirectoryTypeOK, LoadsOK, ShownOK, UnderWay
<1>2. CASE \/ \E mode \in Modes : ChooseMode(mode)
           \/ \E facet \in Facets : ChooseFacet(facet)
           \/ \E typed \in {"", "anna "} : Search(typed)
           \/ \E mode \in RecModes : ChooseRecMode(mode)
           \/ ClearFilters \/ ShowEveryone
    BY <1>2, ChangesInv
<1>3. CASE \E query \in {address, NoQuery}, intentPossible \in BOOLEAN :
              OpenPage(query, intentPossible)
    BY <1>3, OpenPageInv
<1>4. CASE \E l \in LoadNames :
              \/ \E directory \in {"ok", "closed", "error"}, recs \in {"ok", "error"} :
                    BothAnswered(l, directory, recs)
              \/ \E readable \in BOOLEAN :
                    DirectoryRead(l, readable) \/ RecommendationsRead(l, readable)
              \/ NetworkFails(l)
    BY <1>4, BothAnsweredInv, DirectoryReadInv, LoadEndsInv
<1> QED
    BY <1>1, <1>2, <1>3, <1>4 DEF DirectoryNext

\* The panel keeps to its types, for any number of changes.
THEOREM DirectoryTypesHold == DirectorySpec => []DirectoryTypeOK
<1>1. DirectoryInv => DirectoryTypeOK
    BY DEF DirectoryInv
<1> QED
    BY InitDirectory, NextDirectory, <1>1, PTL DEF DirectorySpec

\* The list is the one the filters ask for and the address opens (directory-panel.tsx:165),
\* whatever answers come in which order.
THEOREM ListMatchesFilters == DirectorySpec => []ListIsOfItsFilters
<1>1. DirectoryInv => ListIsOfItsFilters
  <2> SUFFICES ASSUME DirectoryInv, ~shut, \A l \in LoadNames : ~UnderWay(l)
               PROVE  ListIsOfItsFilters
    BY DEF ListIsOfItsFilters
  <2>1. /\ members.what # "loading" /\ strip.what # "loading"
        /\ (members.what = "list" /\ ~members.overtaken) => members.of = Query(filters)
        /\ (strip.what = "list" /\ ~strip.overtaken) => strip.of = recMode
    BY DEF DirectoryInv, ShownOK
  <2>2. /\ address = Query(filters) /\ Query(filters).mode = filters.mode
        /\ \A intentPossible \in BOOLEAN :
              Query(FromQuery(address, intentPossible)) = Query(filters)
    BY QueryTypes DEF DirectoryInv, DirectoryTypeOK
  <2>3. /\ Panel.hint = filters.mode /\ Panel.list = members.of
        /\ Panel.named <=> members.what = "list"
    BY DEF Panel
  <2> QED
    BY <2>1, <2>2, <2>3 DEF ListIsOfItsFilters
<1> QED
    BY InitDirectory, NextDirectory, <1>1, PTL DEF DirectorySpec

-----------------------------------------------------------------------------
(***************************************************************************)
(* The sum of the three screens adds nothing to them: a behaviour of the   *)
(* specification that is model-checked is one of each screen.              *)
(***************************************************************************)
THEOREM ScreensCompose ==
    ScreensSpec => DirectorySpec /\ WindowsSpec /\ CardSpec
<1>1. ScreensInit => DirectoryInit /\ WindowsInit /\ CardInit
  BY DEF ScreensInit
<1>2. [ScreensNext]_screensVars => [DirectoryNext]_directoryVars
  BY DEF ScreensNext, screensVars
<1>3. [ScreensNext]_screensVars => [WindowsNext]_windowVars
  BY DEF ScreensNext, screensVars
<1>4. [ScreensNext]_screensVars => [CardNext]_cardVars
  BY DEF ScreensNext, screensVars
<1>5. QED
  BY <1>1, <1>2, <1>3, <1>4, PTL DEF ScreensSpec, DirectorySpec, WindowsSpec, CardSpec

\* Every variable of the three screens keeps to its type.
THEOREM ScreensTypes == ScreensSpec => []ScreensTypesOK
<1>1. DirectoryTypeOK /\ WindowsTypeOK /\ CardTypeOK => ScreensTypesOK
  BY DEF ScreensTypesOK
<1>2. QED
  BY <1>1, ScreensCompose, DirectoryTypesHold, WindowTypesHold, CardTypesHold, PTL
=============================================================================

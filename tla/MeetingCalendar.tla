--------------------------- MODULE MeetingCalendar ---------------------------
(***************************************************************************)
(* The meeting of a mutual introduction in the caller's Google calendar:   *)
(* the control on the introduction's card, POST /api/me/calendar/google    *)
(* and Google.  The control has no email field; what the grant goes        *)
(* through is modelled in OAuthGrants and is one word here.                *)
(***************************************************************************)
EXTENDS FiniteSets, Naturals

CONSTANTS
    Cards,      \* the cards of one introduction open in the browsers of its party
    Presses     \* presses of their buttons, each made once

ASSUME CalendarAssumption == "nobody" \notin Cards /\ "nothing" \notin Presses

VARIABLES
    grantState,     \* googleGrantState of the caller's grant
    counterpart,    \* whether the counterpart's card belongs to an active account
    card,           \* each card: the control's state when rendered, what it shows, for which press
    press,          \* each press: where it is, and the card that waits for it
    events          \* the events in the calendar, by the press that made them

calendarVars == <<grantState, counterpart, card, press, events>>

GrantStates == {"not_connected", "connected", "expired", "revoked"}
ControlStates == {"not_configured", "not_connected", "expired", "revoked", "ready"}
Failures == {"not_connected", "reconnect_required", "scope_missing", "rate_limited",
             "google_unavailable", "counterpart_not_found", "invalid_time",
             "invalid_timezone", "other"}

ControlRecord == [control : ControlStates, shows : {"form", "busy", "done"} \cup Failures,
                  about : Presses \cup {"nothing"}]
PressRecord == [phase : {"new", "sent", "found", "calling", "made", "over"},
                from : Cards \cup {"nobody"}]

CalendarTypeOK ==
    /\ grantState \in GrantStates /\ counterpart \in BOOLEAN
    /\ card \in [Cards -> ControlRecord]
    /\ press \in [Presses -> PressRecord]
    /\ events \in [Presses -> Nat]

\* calendarControlState: what this instance has, then what the grantState is.
ControlState(configured) ==
    CASE ~configured -> "not_configured"
      [] configured /\ grantState = "connected" -> "ready"
      [] configured /\ grantState # "connected" -> grantState

Rendered(configured) ==
    [control |-> ControlState(configured), shows |-> "form", about |-> "nothing"]

CalendarInit ==
    /\ grantState \in GrantStates /\ counterpart = TRUE
    /\ \E configured \in BOOLEAN : card = [c \in Cards |-> Rendered(configured)]
    /\ press = [r \in Presses |-> [phase |-> "new", from |-> "nobody"]]
    /\ events = [r \in Presses |-> 0]

-----------------------------------------------------------------------------
\* The form is there until an event is known to be made, under a failure too; a time that
\* is no time is refused in the browser.
Submit(c, r) ==
    /\ card[c].control = "ready" /\ card[c].shows \notin {"busy", "done"}
    /\ press[r].phase = "new"
    /\ \/ /\ card' = [card EXCEPT ![c].shows = "invalid_time", ![c].about = r]
          /\ press' = [press EXCEPT ![r].phase = "over"]
       \/ /\ card' = [card EXCEPT ![c].shows = "busy", ![c].about = r]
          /\ press' = [press EXCEPT ![r] = [phase |-> "sent", from |-> c]]
    /\ UNCHANGED <<grantState, counterpart, events>>

\* Mutant: the code of the route is shown as it came.
FailureVerbatim(code) == code

\* calendarFailure: the codes of the route, as causes the person can act on.
Failure(code) ==
    CASE code \in {"invalid_start", "invalid_end"} -> "invalid_time"
      [] code \in Failures -> code
      [] OTHER -> "other"

\* The card still waits for the answer, unless its connection was lost.
Tell(r, shows) ==
    /\ press' = [press EXCEPT ![r] = [phase |-> "over", from |-> "nobody"]]
    /\ card' = [c \in Cards |-> IF c = press[r].from THEN [card[c] EXCEPT !.shows = shows]
                                ELSE card[c]]

Advance(r, phase) == press' = [press EXCEPT ![r].phase = phase] /\ UNCHANGED card

\* The session, the body and the counterpart.
Validate(r) ==
    /\ press[r].phase = "sent"
    /\ \/ \E code \in {"unauthorized", "invalid_end", "invalid_timezone"} : Tell(r, Failure(code))
       \/ ~counterpart /\ Tell(r, Failure("counterpart_not_found"))
       \/ counterpart /\ Advance(r, "found")
    /\ UNCHANGED <<grantState, counterpart, events>>

\* loadGoogleAccessToken; a connected grantState's refresh may fail as well.
LoadToken(r) ==
    /\ press[r].phase = "found"
    /\ \/ grantState = "not_connected" /\ Tell(r, Failure("not_connected"))
       \/ grantState # "not_connected" /\ Tell(r, Failure("reconnect_required"))
       \/ grantState = "connected" /\ Advance(r, "calling")
    /\ UNCHANGED <<grantState, counterpart, events>>

\* What a call to Google throws when Google has refused it, and when nobody knows.
Refusals == {"invalid_grant", "unauthorized", "forbidden", "rate_limited", "invalid_request"}
Unknowns == {"network_error", "server_error", "malformed_response"}

\* Mutant: a call without an answer is reported like a busy Google.
TimeoutIsBusy(error) ==
    CASE error \in {"invalid_grant", "unauthorized"} -> "reconnect_required"
      [] error = "forbidden" -> "scope_missing"
      [] error \in {"rate_limited", "network_error"} -> "rate_limited"
      [] error \in {"invalid_request", "server_error", "malformed_response"} ->
            "google_unavailable"

\* googleFailureResponse
Reported(error) ==
    CASE error \in {"invalid_grant", "unauthorized"} -> "reconnect_required"
      [] error = "forbidden" -> "scope_missing"
      [] error = "rate_limited" -> "rate_limited"
      [] error \in {"invalid_request"} \cup Unknowns -> "google_unavailable"

\* createCalendarEvent, once: the event is made and its answer read; it is refused; or the
\* call times out, breaks or is answered with no event, and the event may be there.
CallGoogle(r) ==
    /\ press[r].phase = "calling"
    /\ \/ events' = [events EXCEPT ![r] = @ + 1] /\ Advance(r, "made")
       \/ \E error \in Refusals \cup Unknowns, n \in 0 .. 1 :
             /\ error \in Refusals => n = 0
             /\ events' = [events EXCEPT ![r] = @ + n] /\ Tell(r, Failure(Reported(error)))
    /\ UNCHANGED <<grantState, counterpart>>

\* The audit row and the answer; if the row cannot be written, a 500.
AuditEvent(r) ==
    /\ press[r].phase = "made"
    /\ Tell(r, "done") \/ Tell(r, Failure("internal_error"))
    /\ UNCHANGED <<grantState, counterpart, events>>

\* The connection breaks, or the instance dies with the request.
LosePress(r) ==
    /\ press[r].from \in Cards
    /\ card' = [card EXCEPT ![press[r].from].shows = "other"]
    /\ \E phase \in {press[r].phase, "over"} :
          press' = [press EXCEPT ![r] = [phase |-> phase, from |-> "nobody"]]
    /\ UNCHANGED <<grantState, counterpart, events>>

\* The grantState is connected, withdrawn or disconnected; the counterpart's account is closed.
GrantMoves(g) ==
    /\ grantState' = g /\ g # grantState
    /\ UNCHANGED <<counterpart, card, press, events>>
CounterpartLeaves ==
    /\ counterpart /\ counterpart' = FALSE
    /\ UNCHANGED <<grantState, card, press, events>>

CalendarNext ==
    \/ \E r \in Presses :
          \/ \E c \in Cards : Submit(c, r)
          \/ Validate(r) \/ LoadToken(r) \/ CallGoogle(r) \/ AuditEvent(r) \/ LosePress(r)
    \/ \E g \in GrantStates : GrantMoves(g)
    \/ CounterpartLeaves

CalendarSpec == CalendarInit /\ [][CalendarNext]_calendarVars

-----------------------------------------------------------------------------
(* Properties *)

\* What a card says of the calendar is so, wherever the request was lost: "done" is an
\* event, a named cause is none ("claim nothing about the calendar" is left to the two
\* answers that cannot know, google_unavailable and other), and a press is never two.
CalendarTold ==
    /\ \A r \in Presses : events[r] <= 1
    /\ \A c \in Cards : card[c].about # "nothing" =>
          /\ card[c].shows = "done" => events[card[c].about] = 1
          /\ card[c].shows \in Failures \ {"google_unavailable", "other"}
                => events[card[c].about] = 0
==============================================================================

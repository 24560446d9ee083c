------------------------------- MODULE SignIn -------------------------------
(***************************************************************************)
(* Signing in to one account with a code sent by e-mail, and the sessions  *)
(* that come of it.  Any number of requests run at once, each statement or *)
(* transaction of a request in a step of its own, so that what a request   *)
(* compares with may have changed by the time it writes.                   *)
(*                                                                         *)
(* Codes are numbered in the order of created_at, which PostgreSQL's now() *)
(* takes from the start of the transaction that inserts them.              *)
(***************************************************************************)
EXTENDS Naturals, FiniteSets

CONSTANTS
    Visits,           \* the requests that can be in flight at once
    Sessions,         \* rows of sessions
    MaxCodes,         \* bound: codes made
    MaxPerWindow,     \* OTP_REQUEST_MAX_PER_WINDOW
    MaxAttempts,      \* OTP_MAX_ATTEMPTS
    MaxFailures       \* OTP_VERIFY_WINDOW_MAX

ASSUME SignInAssumption ==
    /\ IsFiniteSet(Visits)
    /\ {MaxCodes, MaxPerWindow, MaxAttempts, MaxFailures} \subseteq Nat \ {0}

VARIABLES
    code,       \* auth_otp_codes; "guessed" counts the wrong codes compared with one (history)
    made,       \* codes numbered so far
    recent,     \* codes created inside the window
    failures,   \* otp_verify_failures inside the window
    session,    \* sessions, and the code that opened each (history)
    visit       \* each request: where it is and what it has read

signInVars == <<code, made, recent, failures, session, visit>>

Codes == 1..MaxCodes
NoCode == 0
CodeStates == {"unmade", "open", "used", "expired"}
SessionStates == {"none", "fresh", "aging", "expired", "gone"}
VisitPhases == {"idle", "superseding", "inserting", "picking", "redeeming", "counting",
                "recording", "extending"}

SignInTypeOK ==
    /\ code \in [Codes -> [st : CodeStates, tries : Nat, guessed : Nat]]
    /\ made \in 0..MaxCodes
    /\ recent \in Nat
    /\ failures \in Nat
    /\ session \in [Sessions -> [st : SessionStates, by : Codes \cup {NoCode}]]
    /\ visit \in [Visits -> [phase : VisitPhases, code : Codes \cup {NoCode},
                             seen : SUBSET Codes, session : SUBSET Sessions]]

NoVisit == [phase |-> "idle", code |-> NoCode, seen |-> {}, session |-> {}]

SignInInit ==
    /\ code = [c \in Codes |-> [st |-> "unmade", tries |-> 0, guessed |-> 0]]
    /\ made = 0
    /\ recent = 0
    /\ failures = 0
    /\ session = [s \in Sessions |-> [st |-> "none", by |-> NoCode]]
    /\ visit = [v \in Visits |-> NoVisit]

OpenCodes == {c \in Codes : code[c].st = "open"}
Live(s) == session[s].st \in {"fresh", "aging"}
Leave(v) == visit' = [visit EXCEPT ![v] = NoVisit]
Used(cs) == [c \in Codes |-> IF c \in cs /\ code[c].st = "open"
                             THEN [code[c] EXCEPT !.st = "used"] ELSE code[c]]

-----------------------------------------------------------------------------
(***************************************************************************)
(* POST /api/auth/otp/request: the count of recent codes; then, in one     *)
(* transaction, an UPDATE that uses up the codes it sees (Supersede) and   *)
(* the INSERT of a new one (MakeCode).  Two transactions do not see each   *)
(* other's new code.  A delivery that fails changes nothing here.          *)
(***************************************************************************)
RequestCode(v) ==
    /\ visit[v].phase = "idle"
    /\ recent < MaxPerWindow
    /\ visit' = [visit EXCEPT ![v].phase = "superseding"]
    /\ UNCHANGED <<code, made, recent, failures, session>>

Supersede(v) ==
    /\ visit[v].phase = "superseding"
    /\ made < MaxCodes
    /\ made' = made + 1
    /\ visit' = [visit EXCEPT ![v].phase = "inserting", ![v].code = made + 1,
                              ![v].seen = OpenCodes]
    /\ UNCHANGED <<code, recent, failures, session>>

MakeCode(v) ==
    /\ visit[v].phase = "inserting"
    /\ code' = [Used(visit[v].seen) EXCEPT ![visit[v].code].st = "open"]
    /\ recent' = recent + 1
    /\ Leave(v)
    /\ UNCHANGED <<made, failures, session>>

(***************************************************************************)
(* POST /api/auth/otp/verify: the count of failures; the newest code that  *)
(* is open (Newest), and its attempts; then, by the code supplied, one of  *)
(* two writes.                                                             *)
(***************************************************************************)
Verify(v) ==
    /\ visit[v].phase = "idle"
    /\ failures < MaxFailures
    /\ visit' = [visit EXCEPT ![v].phase = "picking"]
    /\ UNCHANGED <<code, made, recent, failures, session>>

Newest(c) == \A d \in OpenCodes : d <= c

Pick(v) ==
    /\ visit[v].phase = "picking"
    /\ UNCHANGED <<made, recent, failures, session>>
    /\ \/ OpenCodes = {} /\ Leave(v) /\ UNCHANGED code
       \/ \E c \in OpenCodes :
            /\ Newest(c)
            /\ \/ /\ code[c].tries >= MaxAttempts
                  /\ Leave(v)
                  /\ code' = Used({c})
               \/ /\ code[c].tries < MaxAttempts
                  /\ visit' = [visit EXCEPT ![v].phase = "redeeming", ![v].code = c]
                  /\ UNCHANGED code
               \/ /\ code[c].tries < MaxAttempts
                  /\ visit' = [visit EXCEPT ![v].phase = "counting", ![v].code = c]
                  /\ code' = [code EXCEPT ![c].guessed = @ + 1]

\* Mutant: the failure is recorded, the attempt is not.
Uncounted(c) == code[c].tries

(***************************************************************************)
(* A wrong code: the attempt is counted in the row itself, then the        *)
(* failure is recorded.                                                    *)
(***************************************************************************)
Counted(c) == code[c].tries + 1

CountAttempt(v) ==
    /\ visit[v].phase = "counting"
    /\ LET c == visit[v].code
           tries == Counted(c) IN
         code' = [code EXCEPT ![c].tries = tries,
                              ![c].st = IF tries >= MaxAttempts /\ code[c].st = "open"
                                        THEN "used" ELSE code[c].st]
    /\ visit' = [visit EXCEPT ![v].phase = "recording"]
    /\ UNCHANGED <<made, recent, failures, session>>

RecordFailure(v) ==
    /\ visit[v].phase = "recording"
    /\ failures' = failures + 1
    /\ Leave(v)
    /\ UNCHANGED <<code, made, recent, session>>

(***************************************************************************)
(* The right code: one transaction uses it up if nobody has, with every    *)
(* other open one, clears the failures and creates the session.            *)
(***************************************************************************)
StillUnused(c) == code[c].st # "used"

Redeem(v) ==
    /\ visit[v].phase = "redeeming"
    /\ LET c == visit[v].code IN
         \/ /\ StillUnused(c)
            /\ code' = [Used(Codes) EXCEPT ![c].st = "used"]
            /\ failures' = 0
            /\ \E s \in Sessions : /\ session[s].st = "none"
                                   /\ session' = [session EXCEPT ![s] = [st |-> "fresh", by |-> c]]
         \/ /\ ~StillUnused(c)
            /\ UNCHANGED <<code, failures, session>>
    /\ Leave(v)
    /\ UNCHANGED <<made, recent>>

-----------------------------------------------------------------------------
(***************************************************************************)
(* requireAccount: a request that finds its session unexpired extends it,  *)
(* once a day at most, in a second statement by the row's id.              *)
(***************************************************************************)
RequireAccount(v, s) ==
    /\ visit[v].phase = "idle"
    /\ session[s].st = "aging"
    /\ visit' = [visit EXCEPT ![v].phase = "extending", ![v].session = {s}]
    /\ UNCHANGED <<code, made, recent, failures, session>>

\* Mutant: the row is upserted.
Restored(row) == [row EXCEPT !.st = "fresh"]

Extended(row) == IF row.st = "gone" THEN row ELSE [row EXCEPT !.st = "fresh"]

ExtendSession(v) ==
    /\ visit[v].phase = "extending"
    /\ session' = [s \in Sessions |-> IF s \in visit[v].session THEN Extended(session[s])
                                      ELSE session[s]]
    /\ Leave(v)
    /\ UNCHANGED <<code, made, recent, failures>>

(***************************************************************************)
(* Logging out or revoking one session deletes its row; "sign out on all   *)
(* devices" deletes every row there is.                                    *)
(***************************************************************************)
Made == {s \in Sessions : session[s].st # "none"}

EndSessions(gone) ==
    /\ gone \subseteq Made
    /\ session' = [s \in Sessions |-> IF s \in gone THEN [session[s] EXCEPT !.st = "gone"]
                                      ELSE session[s]]
    /\ UNCHANGED <<code, made, recent, failures, visit>>

Logout(s) == EndSessions({s})
RevokeAll == (\E s \in Sessions : Live(s)) /\ EndSessions(Made)

-----------------------------------------------------------------------------
(***************************************************************************)
(* The clock.  Older codes expire first; the two windows slide.            *)
(***************************************************************************)
CodeExpires(c) ==
    /\ code[c].st = "open"
    /\ \A d \in OpenCodes : c <= d
    /\ code' = [code EXCEPT ![c].st = "expired"]
    /\ UNCHANGED <<made, recent, failures, session, visit>>

RequestWindowSlides ==
    /\ recent > 0
    /\ recent' = recent - 1
    /\ UNCHANGED <<code, made, failures, session, visit>>

FailureWindowSlides ==
    /\ failures > 0
    /\ failures' = failures - 1
    /\ UNCHANGED <<code, made, recent, session, visit>>

SessionAges(s) ==
    /\ Live(s)
    /\ session' = [session EXCEPT ![s].st = IF @ = "fresh" THEN "aging" ELSE "expired"]
    /\ UNCHANGED <<code, made, recent, failures, visit>>

SignInNext ==
    \/ \E v \in Visits : RequestCode(v) \/ Supersede(v) \/ MakeCode(v)
    \/ \E v \in Visits : Verify(v) \/ Pick(v) \/ CountAttempt(v) \/ RecordFailure(v) \/ Redeem(v)
    \/ \E v \in Visits, s \in Sessions : RequireAccount(v, s)
    \/ \E v \in Visits : ExtendSession(v)
    \/ \E s \in Sessions : Logout(s) \/ SessionAges(s)
    \/ RevokeAll
    \/ \E c \in Codes : CodeExpires(c)
    \/ RequestWindowSlides \/ FailureWindowSlides

SignInSpec == SignInInit /\ [][SignInNext]_signInVars

-----------------------------------------------------------------------------
(***************************************************************************)
(* However many verifications of a code run at once, it opens one session. *)
(***************************************************************************)
CodeOpensOneSession ==
    \A s, t \in Sessions : (s # t /\ session[s].by = session[t].by) => session[s].by = NoCode

(***************************************************************************)
(* A session that was ended stays ended, whatever request still carries it *)
(* and extends it afterwards.                                              *)
(***************************************************************************)
EndedStaysEnded ==
    [][\A s \in Sessions : session[s].st = "gone" => session'[s].st = "gone"]_signInVars

(***************************************************************************)
(* The attempts are read, compared and counted in separate statements; all *)
(* the same no code is compared with more wrong guesses than MaxAttempts   *)
(* and one for each further request in flight, however long it is tried.   *)
(***************************************************************************)
GuessesBounded ==
    \A c \in Codes : code[c].guessed <= MaxAttempts + Cardinality(Visits) - 1
=============================================================================

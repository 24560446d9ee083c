---------------------------- MODULE OAuthGrants ----------------------------
(***************************************************************************)
(* The Google connection of an account: the authorization flows that make  *)
(* it, the access-token loader that renews it before a Google call, and    *)
(* the disconnect that forgets it.  Every database statement commits on    *)
(* its own, and between two statements of a request stands a call to       *)
(* Google, so the row a request writes need not be the row it read.        *)
(*                                                                         *)
(* A token is known by the consent it belongs to: Google's tokens of one   *)
(* consent die together.  One provider: the other one is the same code     *)
(* under its own key.  Every stored grant covers the scopes of its         *)
(* provider (callback/route.ts refuses to store another), so they are left *)
(* out.                                                                    *)
(***************************************************************************)
EXTENDS Naturals, FiniteSets

CONSTANTS
    Accounts,
    Flows,        \* ids of authorization attempts (oauth_flow_states.jti)
    Requests,     \* requests: callbacks, Google calls, disconnects; each is served once
    MaxConsents   \* bound: consents Google hands out

ASSUME OAuthAssumption == /\ Accounts # {}
                          /\ MaxConsents \in Nat \ {0}

VARIABLES
    flow,         \* the rows of oauth_flow_states
    grant,        \* the rows of oauth_grants, one per account
    google,       \* Google's side: consents given so far, and those still in force
    req           \* each request: where it is, and what it has read or been answered

grantsVars == <<flow, grant, google, req>>

Consents == 1..MaxConsents
NoConsent == 0
Tokens == Consents \cup {NoConsent}

(***************************************************************************)
(* "access" and "renew" are the consents behind the two tokens of a row,   *)
(* NoConsent for a NULL refresh token.                                     *)
(***************************************************************************)
Expiries == {"none", "future", "past"}
Grants == [held : BOOLEAN, access : Tokens, renew : Tokens, expiry : Expiries,
           failed : BOOLEAN, revoked : BOOLEAN]
NoGrant == [held |-> FALSE, access |-> NoConsent, renew |-> NoConsent, expiry |-> "none",
            failed |-> FALSE, revoked |-> FALSE]

FlowStates == {"unused", "open", "spent", "expired"}
Phases == {"idle", "exchanging", "storing", "refreshing", "recording", "deleting", "revoking",
           "done"}
Answers == {"none", "token", "invalid_grant", "error"}

GrantsTypeOK ==
    /\ flow \in [Flows -> [st : FlowStates, by : Accounts]]
    /\ grant \in [Accounts -> Grants]
    /\ google \in [given : 0..MaxConsents, alive : SUBSET Consents, by : [Consents -> Accounts]]
    /\ req \in [Requests -> [phase : Phases, acct : Accounts, flows : SUBSET Flows,
                             token : Tokens, renew : BOOLEAN, expiry : Expiries,
                             answer : Answers]]

Somebody == CHOOSE a \in Accounts : TRUE
Idle == [phase |-> "idle", acct |-> Somebody, flows |-> {}, token |-> NoConsent,
         renew |-> FALSE, expiry |-> "none", answer |-> "none"]

(***************************************************************************)
(* Nobody is connected, or one account has been for a while: its token has *)
(* expired and can be renewed.                                             *)
(***************************************************************************)
OldGrant == [NoGrant EXCEPT !.held = TRUE, !.access = 1, !.renew = 1, !.expiry = "past"]

GrantsInit ==
    /\ flow = [f \in Flows |-> [st |-> "unused", by |-> Somebody]]
    /\ req = [r \in Requests |-> Idle]
    /\ \E given \in {0, 1} :
         /\ grant = [a \in Accounts |-> IF given = 1 /\ a = Somebody THEN OldGrant ELSE NoGrant]
         /\ google = [given |-> given, alive |-> 1..given, by |-> [c \in Consents |-> Somebody]]

-----------------------------------------------------------------------------
(***************************************************************************)
(* The two readings of a row.                                              *)
(***************************************************************************)
GoogleGrantState(g) ==
    IF ~g.held THEN "not_connected"
    ELSE IF g.revoked THEN "revoked"
    ELSE IF g.failed \/ (g.expiry = "past" /\ g.renew = NoConsent) THEN "expired"
    ELSE "connected"

NeedsRefresh(g) == g.renew # NoConsent /\ g.expiry # "future"

(***************************************************************************)
(* A finished request holds no token; the flow it took stays on record.    *)
(***************************************************************************)
Finish(r) == req' = [req EXCEPT ![r] = [Idle EXCEPT !.phase = "done", !.flows = req[r].flows]]

(***************************************************************************)
(* GET /api/oauth/google/start.  Its purge (and the retention pass's)      *)
(* deletes rows that are spent or expired: a row that is gone and one that *)
(* cannot be redeemed answer alike.                                        *)
(***************************************************************************)
StartFlow(a, f) ==
    /\ flow[f].st = "unused"
    /\ flow' = [flow EXCEPT ![f] = [st |-> "open", by |-> a]]
    /\ UNCHANGED <<grant, google, req>>

\* Mutant: any signed-in session will do.
AnySession(a, f) == TRUE

(***************************************************************************)
(* The conditional UPDATE of consumeFlowState: whoever finds the flow open *)
(* and inside its ten minutes takes it.                                    *)
(***************************************************************************)
Redeemable(f) == flow[f].st = "open"

(***************************************************************************)
(* GET /api/oauth/google/callback up to the exchange.  The state binds the *)
(* flow to the account that started it, and the session must be that       *)
(* account's; Google's "denied" leaves the flow open, every other refusal  *)
(* changes nothing.                                                        *)
(***************************************************************************)
SessionMatches(a, f) == flow[f].by = a

Callback(r, a, f) ==
    /\ req[r].phase = "idle"
    /\ SessionMatches(a, f)
    /\ Redeemable(f)
    /\ flow' = [flow EXCEPT ![f].st = "spent"]
    /\ req' = [req EXCEPT ![r].phase = "exchanging", ![r].acct = a, ![r].flows = {f}]
    /\ UNCHANGED <<grant, google>>

(***************************************************************************)
(* Google answers the exchange: a new consent, with or without a refresh   *)
(* token or an expiry, or a failure.  A consent that does not cover the    *)
(* scopes is dropped by the callback and stays with Google.                *)
(***************************************************************************)
Exchanged(r) ==
    /\ req[r].phase = "exchanging"
    /\ google.given < MaxConsents
    /\ LET c == google.given + 1 IN
         /\ google' = [given |-> c, alive |-> google.alive \cup {c},
                       by |-> [google.by EXCEPT ![c] = flow[CHOOSE f \in req[r].flows : TRUE].by]]
         /\ \E covers \in BOOLEAN, renew \in BOOLEAN, expiry \in {"none", "future"} :
              IF covers THEN req' = [req EXCEPT ![r].phase = "storing", ![r].token = c,
                                                ![r].renew = renew, ![r].expiry = expiry]
              ELSE Finish(r)
    /\ UNCHANGED <<flow, grant>>

ExchangeFailed(r) ==
    /\ req[r].phase = "exchanging"
    /\ Finish(r)
    /\ UNCHANGED <<flow, grant, google>>

(***************************************************************************)
(* upsertGrant: the row of the account is replaced, except that a token    *)
(* set without a refresh token keeps the stored one.                       *)
(***************************************************************************)
UpsertGrant(r) ==
    /\ req[r].phase = "storing"
    /\ LET a == req[r].acct IN
         grant' = [grant EXCEPT ![a] =
                     [held |-> TRUE, access |-> req[r].token,
                      renew |-> IF req[r].renew THEN req[r].token ELSE grant[a].renew,
                      expiry |-> req[r].expiry, failed |-> FALSE, revoked |-> FALSE]]
    /\ Finish(r)
    /\ UNCHANGED <<flow, google>>

-----------------------------------------------------------------------------
(***************************************************************************)
(* loadGoogleAccessToken, before a contacts import or a calendar event.  A *)
(* row that is not "connected", or a token that needs no renewal, ends the *)
(* load without a write; otherwise the refresh token goes to Google.       *)
(***************************************************************************)
LoadAccessToken(r, a) ==
    /\ req[r].phase = "idle"
    /\ GoogleGrantState(grant[a]) = "connected"
    /\ NeedsRefresh(grant[a])
    /\ req' = [req EXCEPT ![r].phase = "refreshing", ![r].acct = a, ![r].token = grant[a].renew]
    /\ UNCHANGED <<flow, grant, google>>

(***************************************************************************)
(* Google renews the tokens of a consent in force and refuses the others   *)
(* with invalid_grant; any other error may come at any time.               *)
(***************************************************************************)
RefreshAnswered(r) ==
    /\ req[r].phase = "refreshing"
    /\ \E answer \in {"token", "invalid_grant", "error"}, expiry \in {"none", "future"} :
         /\ answer = "token" => req[r].token \in google.alive
         /\ answer = "invalid_grant" => req[r].token \notin google.alive
         /\ answer # "token" => expiry = "none"
         /\ req' = [req EXCEPT ![r].phase = "recording", ![r].answer = answer,
                               ![r].expiry = expiry]
    /\ UNCHANGED <<flow, grant, google>>

(***************************************************************************)
(* recordGrantRefresh and recordGrantRefreshFailure update the row the     *)
(* account has by now, if it has one: neither inserts, neither asks        *)
(* whether it is the row that was read, and neither takes back revoked_at. *)
(***************************************************************************)
Renewed(g, r) == [g EXCEPT !.access = req[r].token, !.expiry = req[r].expiry, !.failed = FALSE]
Refused(g, r) == [g EXCEPT !.failed = TRUE,
                           !.revoked = g.revoked \/ req[r].answer = "invalid_grant"]

\* Mutant: the result is upserted.
Upserted(g, r) == IF req[r].answer = "token" THEN [Renewed(g, r) EXCEPT !.held = TRUE]
                  ELSE Refused(g, r)

Recorded(g, r) == IF ~g.held THEN g
                  ELSE IF req[r].answer = "token" THEN Renewed(g, r)
                  ELSE Refused(g, r)

RecordRefresh(r) ==
    /\ req[r].phase = "recording"
    /\ grant' = [grant EXCEPT ![req[r].acct] = Recorded(grant[req[r].acct], r)]
    /\ Finish(r)
    /\ UNCHANGED <<flow, google>>

-----------------------------------------------------------------------------
(***************************************************************************)
(* DELETE /api/me/oauth/google: the access token is read, the row is       *)
(* deleted, and Google is asked to revoke the token, once.                 *)
(***************************************************************************)
Disconnect(r, a) ==
    /\ req[r].phase = "idle"
    /\ req' = [req EXCEPT ![r].phase = "deleting", ![r].acct = a, ![r].token = grant[a].access]
    /\ UNCHANGED <<flow, grant, google>>

DeleteGrant(r) ==
    /\ req[r].phase = "deleting"
    /\ grant' = [grant EXCEPT ![req[r].acct] = NoGrant]
    /\ req' = [req EXCEPT ![r].phase = "revoking"]
    /\ UNCHANGED <<flow, google>>

RevokeAtGoogle(r) ==
    /\ req[r].phase = "revoking"
    /\ \/ google' = [google EXCEPT !.alive = google.alive \ {req[r].token}]
       \/ UNCHANGED google
    /\ Finish(r)
    /\ UNCHANGED <<flow, grant>>

-----------------------------------------------------------------------------
(***************************************************************************)
(* Time and the user's page at Google.                                     *)
(***************************************************************************)
FlowExpires(f) ==
    /\ flow[f].st = "open"
    /\ flow' = [flow EXCEPT ![f].st = "expired"]
    /\ UNCHANGED <<grant, google, req>>

TokenExpires(a) ==
    /\ grant[a].expiry = "future"
    /\ grant' = [grant EXCEPT ![a].expiry = "past"]
    /\ UNCHANGED <<flow, google, req>>

WithdrawnAtGoogle(c) ==
    /\ c \in google.alive
    /\ google' = [google EXCEPT !.alive = google.alive \ {c}]
    /\ UNCHANGED <<flow, grant, req>>

GrantsNext ==
    \/ \E a \in Accounts, f \in Flows : StartFlow(a, f)
    \/ \E r \in Requests, a \in Accounts, f \in Flows : Callback(r, a, f)
    \/ \E r \in Requests : Exchanged(r) \/ ExchangeFailed(r) \/ UpsertGrant(r)
    \/ \E r \in Requests, a \in Accounts : LoadAccessToken(r, a) \/ Disconnect(r, a)
    \/ \E r \in Requests : RefreshAnswered(r) \/ RecordRefresh(r)
    \/ \E r \in Requests : DeleteGrant(r) \/ RevokeAtGoogle(r)
    \/ \E f \in Flows : FlowExpires(f)
    \/ \E a \in Accounts : TokenExpires(a)
    \/ \E c \in Consents : WithdrawnAtGoogle(c)

GrantsSpec == GrantsInit /\ [][GrantsNext]_grantsVars

-----------------------------------------------------------------------------
(***************************************************************************)
(* Nobody's row ever holds a token of a consent that was given in another  *)
(* account's flow, whoever opened the callback, in whatever order flows,   *)
(* renewals and disconnects finish.                                        *)
(***************************************************************************)
ConsentsNotCrossed ==
    \A a \in Accounts : \A c \in {grant[a].access, grant[a].renew} \ {NoConsent} :
        google.by[c] = a

(***************************************************************************)
(* A flow is exchanged at most once, by whatever callbacks carry its state *)
(* (consumeFlowState: "single use even under concurrent callbacks").       *)
(***************************************************************************)
FlowRedeemedOnce ==
    \A r, s \in Requests : r # s => req[r].flows \cap req[s].flows = {}

(***************************************************************************)
(* The connection moves as ConnectionLifecycle says: a late answer to a    *)
(* renewal, written after a disconnect or a revocation, brings nothing     *)
(* back.                                                                   *)
(***************************************************************************)
Connection == INSTANCE ConnectionLifecycle
    WITH state <- [a \in Accounts |-> GoogleGrantState(grant[a])],
         redeemed <- [a \in Accounts |->
                        {r \in Requests : req[r].phase = "storing" /\ req[r].acct = a}]

ImplementsConnection == Connection!Spec
=============================================================================

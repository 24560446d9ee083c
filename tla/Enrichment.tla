------------------------------ MODULE Enrichment ------------------------------
(***************************************************************************)
(* "Fill in from the web": the panel of the onboarding wizard and of the   *)
(* profile editor, POST /api/me/enrich of one account with its hourly      *)
(* quota, and the provider's transport with its deadline and its one       *)
(* retry.  What a draft says is not modelled: nothing of it is stored, and *)
(* the panel hands it to the form one row at a time.                       *)
(***************************************************************************)
EXTENDS FiniteSets, Naturals

CONSTANTS
    Panels,         \* the panels open in the browsers of the account
    Fills,          \* requests, each served once
    HourlyMax,      \* ENRICHMENT_RATE_LIMIT_PER_HOUR
    Timeout,        \* ENRICHMENT_REQUEST_TIMEOUT_MS, in units of time
    MinRetry        \* MIN_RETRY_BUDGET_MS

ASSUME EnrichmentAssumption ==
    /\ IsFiniteSet(Fills) /\ "nobody" \notin Panels
    /\ HourlyMax \in Nat \ {0} /\ Timeout \in Nat \ {0} /\ MinRetry \in 1 .. Timeout

VARIABLES
    provider,       \* selectEnrichmentProvider: "enabled" or "disabled" on this instance
    hasProfile,     \* whether the account has a profile yet
    ledger,         \* rows of enrichment_requests in the last hour
    fill,           \* each request: the phase, the panel, the provider's time left, its calls
    panel,          \* what each panel shows, "busy" while it waits
    asked,          \* history: the calls made to the provider
    charged,        \* history: the requests that took quota
    peak            \* history: the most requests ever between the count and their row

fillVars == <<provider, hasProfile, ledger, fill, panel, asked, charged, peak>>

Errors == {"rate_limited", "disabled", "failed", "network"}
NewFill == [phase |-> "new", from |-> "nobody", left |-> 0, calls |-> 0]
DoneFill == [NewFill EXCEPT !.phase = "done"]

Between == {r \in Fills : fill[r].phase = "counted"}

FillRecord == [phase : {"new", "sent", "counted", "calling", "done"},
               from : Panels \cup {"nobody"}, left : 0 .. Timeout, calls : 0 .. 2]

EnrichmentTypeOK ==
    /\ provider \in {"enabled", "disabled"} /\ hasProfile \in BOOLEAN
    /\ ledger \in 0 .. Cardinality(Fills)
    /\ fill \in [Fills -> FillRecord]
    /\ panel \in [Panels -> {"idle", "busy", "draft", "degraded"} \cup Errors]
    /\ asked \in Nat /\ charged \in 0 .. Cardinality(Fills) /\ peak \in 0 .. Cardinality(Fills)

EnrichmentInit ==
    /\ provider \in {"enabled", "disabled"} /\ hasProfile \in BOOLEAN
    /\ ledger = 0 /\ asked = 0 /\ charged = 0 /\ peak = 0
    /\ fill = [r \in Fills |-> NewFill]
    /\ panel = [p \in Panels |-> "idle"]

-----------------------------------------------------------------------------
\* The panel still waits for the answer, unless its connection was lost.
Reply(r, shows) ==
    /\ fill' = [fill EXCEPT ![r] = DoneFill]
    /\ panel' = [p \in Panels |-> IF p = fill[r].from THEN shows ELSE panel[p]]

\* run: a press, also of "retry"; not while the panel is busy.
Press(p, r) ==
    /\ panel[p] # "busy" /\ fill[r].phase = "new"
    /\ panel' = [panel EXCEPT ![p] = "busy"]
    /\ fill' = [fill EXCEPT ![r] = [NewFill EXCEPT !.phase = "sent", !.from = p]]
    /\ UNCHANGED <<provider, hasProfile, ledger, asked, charged, peak>>

\* Mutant: the limit is taken for the last count that is still allowed.
OverLimit == ledger > HourlyMax

Limited == ledger >= HourlyMax

\* A disabled provider is told before the quota is looked at; then the rows of the last
\* hour are counted, ...
Count(r) ==
    /\ fill[r].phase = "sent"
    /\ \/ provider = "disabled" /\ Reply(r, "disabled") /\ UNCHANGED peak
       \/ provider = "enabled" /\ Limited /\ Reply(r, "rate_limited") /\ UNCHANGED peak
       \/ /\ provider = "enabled" /\ ~Limited
          /\ fill' = [fill EXCEPT ![r].phase = "counted"]
          /\ peak' = IF Cardinality(Between) + 1 > peak THEN Cardinality(Between) + 1 ELSE peak
          /\ UNCHANGED panel
    /\ UNCHANGED <<provider, hasProfile, ledger, asked, charged>>

\* ... and one is added, in a statement of its own.  An account without a profile, that of
\* every onboarding wizard, is refused only now.
Charge(r) ==
    /\ fill[r].phase = "counted"
    /\ ledger' = ledger + 1 /\ charged' = charged + 1
    /\ IF hasProfile
       THEN /\ fill' = [fill EXCEPT ![r].phase = "calling", ![r].left = Timeout]
            /\ UNCHANGED panel
       ELSE Reply(r, "failed")
    /\ UNCHANGED <<provider, hasProfile, asked, peak>>

\* One retry, and only with this much of the budget left.
Retries(r, left) == fill[r].calls = 0 /\ left >= MinRetry

\* generate, with what is left of the deadline as its timeout: a draft; no usable answer,
\* asked for once more or answered with the draft made of the caller's own fields; or a
\* failure, reported as it is.  The deadline before the answer is a failure, while the
\* answer's body is read it is no usable answer.
AskProvider(r, took, outcome) ==
    LET left == fill[r].left - took IN
    /\ fill[r].phase = "calling" /\ took <= fill[r].left
    /\ left = 0 => outcome # "draft"
    /\ asked' = asked + 1
    /\ \/ outcome = "draft" /\ Reply(r, "draft")
       \/ outcome = "failure" /\ Reply(r, "failed")
       \/ outcome = "nothing" /\ ~Retries(r, left) /\ Reply(r, "degraded")
       \/ /\ outcome = "nothing" /\ Retries(r, left)
          /\ fill' = [fill EXCEPT ![r].left = left, ![r].calls = 1]
          /\ UNCHANGED panel
    /\ UNCHANGED <<provider, hasProfile, ledger, charged, peak>>

\* The access token cannot be had: nothing is asked.
NoToken(r) ==
    /\ fill[r].phase = "calling" /\ fill[r].calls = 0
    /\ Reply(r, "failed")
    /\ UNCHANGED <<provider, hasProfile, ledger, asked, charged, peak>>

\* The connection is lost: the panel may be pressed again while the request is served.
LoseConnection(r) ==
    /\ fill[r].from \in Panels
    /\ panel' = [panel EXCEPT ![fill[r].from] = "network"]
    /\ fill' = [fill EXCEPT ![r].from = "nobody"]
    /\ UNCHANGED <<provider, hasProfile, ledger, asked, charged, peak>>

\* The server instance dies with its request.
Die(r) ==
    /\ fill[r].phase \in {"sent", "counted", "calling"}
    /\ Reply(r, "network")
    /\ UNCHANGED <<provider, hasProfile, ledger, asked, charged, peak>>

\* A row is an hour old.
HourPasses ==
    /\ ledger > 0 /\ ledger' = ledger - 1
    /\ UNCHANGED <<provider, hasProfile, fill, panel, asked, charged, peak>>

EnrichmentNext ==
    \/ \E r \in Fills :
          \/ \E p \in Panels : Press(p, r)
          \/ Count(r) \/ Charge(r) \/ NoToken(r) \/ LoseConnection(r) \/ Die(r)
          \/ \E took \in 1 .. Timeout, o \in {"draft", "nothing", "failure"} :
                AskProvider(r, took, o)
    \/ HourPasses

EnrichmentSpec == EnrichmentInit /\ [][EnrichmentNext]_fillVars

-----------------------------------------------------------------------------
(* Properties *)

\* What the provider is asked is bounded by the quota, whatever requests overlap, are
\* pressed again after a lost answer, or die: at most two calls for a row of the ledger,
\* and in an hour no more rows than the limit and the requests that were counted at the
\* same moment (the count and the insert are two statements); none for a provider that
\* is switched off.
SpendBounded ==
    /\ asked <= 2 * charged
    /\ ledger > 0 => ledger <= HourlyMax - 1 + peak
    /\ provider = "disabled" => charged = 0
===============================================================================

------------------------- MODULE IntroductionsProofs -------------------------
(***************************************************************************)
(* Proofs about an introduction, for any number of requests and any contact *)
(* fields: types, the agreement of the state with the consents, the notices *)
(* of the outcome, and what a party may be shown.                          *)
(***************************************************************************)
EXTENDS Introductions, TLAPS

LEMMA PairFacts ==
    ASSUME NEW p \in Parties
    PROVE  /\ Other(p) \in Parties /\ Other(p) # p
           /\ \A q \in Parties : q = p \/ q = Other(p)
BY IntroductionsAssumption DEF Other

\* The one party of a request that is not being served.
LEMMA IdleType == \A phase \in Phases :
    Idle(phase) \in [phase : Phases, kind : Kinds, party : Parties,
                     fields : SUBSET Fields, seen : States]
BY IntroductionsAssumption DEF Idle, Kinds, States

-----------------------------------------------------------------------------
\* The request that has the row locked has read the state that stands.
Locked ==
    \A r \in Requests : req[r].kind \in Decisions /\ req[r].phase = "cleared"
        => lock = r /\ req[r].seen = state /\ state # "none"

\* Nothing is there before the row is.
Fresh == state = "none" => consent = [p \in Parties |-> NoConsent]

\* What a view has read is still covered: an introduction stays mutual, and what its
\* parties agree to reveal only adds to what they have agreed to.
Covered ==
    /\ state = "mutual" => Common(consent) \subseteq agreed
    /\ \A r \in Requests : req[r].phase \in {"seen", "matched"} /\ req[r].seen = "mutual"
          => /\ state = "mutual"
             /\ req[r].phase = "matched" => req[r].fields \subseteq agreed

Agreement == StateIsConsent /\ NoticesTellTheOutcome /\ ShownAgreed

IntroInv == TypeOK /\ Locked /\ Fresh /\ Covered /\ Agreement

LEMMA InitIntroInv == Init => IntroInv
<1> SUFFICES ASSUME Init PROVE IntroInv
    OBVIOUS
<1>1. TypeOK
    BY IdleType DEF Init, TypeOK, States, NoConsent, Phases
<1>2. Locked /\ Fresh /\ Covered /\ ShownAgreed
    BY DEF Init, Locked, Fresh, Covered, Idle, Decisions, Endings, ShownAgreed
<1>3. StateIsConsent /\ NoticesTellTheOutcome
    BY IntroductionsAssumption
       DEF Init, StateIsConsent, NoticesTellTheOutcome, BothAccept, NoConsent, Endings
<1>4. QED
    BY <1>1, <1>2, <1>3 DEF IntroInv, Agreement

-----------------------------------------------------------------------------
\* A step that writes no row.
LEMMA RowsStay ==
    ASSUME IntroInv, UNCHANGED rows,
           blocks' \subseteq Parties, lock' \in Requests \cup {Free}, late' \subseteq Requests,
           shown' \subseteq Parties \X Fields, \A s \in shown' : s[2] \in agreed,
           req' \in [Requests -> [phase : Phases, kind : Kinds, party : Parties,
                                  fields : SUBSET Fields, seen : States]],
           Locked', Covered'
    PROVE  IntroInv'
<1>1. TypeOK'
    BY DEF IntroInv, TypeOK, rows
<1>2. Fresh' /\ StateIsConsent' /\ NoticesTellTheOutcome'
    BY DEF IntroInv, Agreement, Fresh, StateIsConsent, NoticesTellTheOutcome, BothAccept, rows
<1>3. ShownAgreed'
    BY DEF rows, ShownAgreed
<1>4. QED
    BY <1>1, <1>2, <1>3 DEF IntroInv, Agreement

\* A request that ends without writing a row or showing anything.
LEMMA FinishStays ==
    ASSUME IntroInv, NEW r \in Requests, Finish(r), UNCHANGED <<rows, blocks, shown>>,
           late' \subseteq Requests, lock' = lock \/ (lock = r /\ lock' = Free)
    PROVE  IntroInv'
<1>1. /\ \A o \in Requests : req'[o] = IF o = r THEN Idle("done") ELSE req[o]
      /\ req' \in [Requests -> [phase : Phases, kind : Kinds, party : Parties,
                                fields : SUBSET Fields, seen : States]]
    BY IdleType DEF Finish, IntroInv, TypeOK, Phases
<1>2. Locked' /\ Covered'
    BY <1>1 DEF IntroInv, Locked, Covered, Idle, Decisions, Endings, rows, Common
<1>3. QED
    BY <1>1, <1>2, RowsStay DEF IntroInv, TypeOK, Agreement, ShownAgreed, rows

\* A request that begins to be served, locking the row if it is an answer.
LEMMA ServeStays ==
    ASSUME IntroInv, NEW r \in Requests, NEW k \in Kinds, NEW p \in Parties,
           NEW f \in SUBSET Fields, NEW phase \in {"cleared", "seen"}, Arrive(r),
           Serve(r, k, p, f, phase), UNCHANGED <<rows, blocks, shown>>,
           \/ phase = "cleared" /\ k \in Decisions /\ lock = Free /\ lock' = r /\ state # "none"
           \/ phase = "cleared" /\ k \notin Decisions /\ UNCHANGED lock
           \/ phase = "seen" /\ UNCHANGED lock
    PROVE  IntroInv'
<1>1. /\ \A o \in Requests : req'[o] = IF o # r THEN req[o]
            ELSE [phase |-> phase, kind |-> k, party |-> p, fields |-> f, seen |-> state]
      /\ req' \in [Requests -> [phase : Phases, kind : Kinds, party : Parties,
                                fields : SUBSET Fields, seen : States]]
      /\ late' \subseteq Requests
    BY DEF Serve, Arrive, IntroInv, TypeOK, Phases
<1>2. Locked'
    BY <1>1, IntroductionsAssumption DEF IntroInv, Locked, rows
<1>3. Covered'
    BY <1>1 DEF IntroInv, Covered, rows, Common
<1>4. QED
    BY <1>1, <1>2, <1>3, RowsStay DEF IntroInv, TypeOK, Agreement, ShownAgreed, rows
-----------------------------------------------------------------------------
\* Of a request served to its end only "done" is left, and nobody holds the row.
LEMMA Served ==
    ASSUME IntroInv, NEW r \in Requests, Finish(r)
    PROVE  /\ req' \in [Requests -> [phase : Phases, kind : Kinds, party : Parties,
                                     fields : SUBSET Fields, seen : States]]
           /\ req'[r].phase = "done"
           /\ \A o \in Requests : o # r => req'[o] = req[o]
BY IdleType DEF Finish, IntroInv, TypeOK, Phases, Idle

LEMMA CreateStays == ASSUME IntroInv, NEW r \in Requests, Create(r) PROVE IntroInv'
<1> DEFINE p == req[r].party
<1>1. p \in Parties /\ req[r].fields \in SUBSET Fields
    BY DEF IntroInv, TypeOK
<1>2. CASE state # "none"
    <2>1. /\ Finish(r) /\ UNCHANGED <<rows, blocks, shown>>
          /\ lock' = lock /\ late' \subseteq Requests
        BY <1>2 DEF Create, IntroInv, TypeOK
    <2>2. QED
        BY <2>1, FinishStays
<1>3. CASE state = "none"
    <2>1. /\ state' = "pending" /\ UNCHANGED <<mutuals, agreed, blocks, lock, shown, late>>
          /\ consent' = [consent EXCEPT ![p] = [decision |-> "accept",
                            fields |-> req[r].fields, source |-> "implicit_by_initiation"]]
          /\ notices' = notices \cup {<<"requested", Other(p)>>}
        BY <1>3 DEF Create
    <2>2. Other(p) \in Parties /\ Other(p) # p
        BY <1>1, PairFacts
    <2>3. \A q \in Parties : consent[q].decision = "none"
        BY <1>3 DEF IntroInv, Fresh, NoConsent
    <2>4. /\ consent'[p].decision = "accept"
          /\ \A q \in Parties : q # p => consent'[q].decision = "none"
        BY <2>1, <2>3, <1>1 DEF IntroInv, TypeOK
    <2>5. TypeOK'
        BY <2>1, <2>2, <1>1, Served DEF Create, IntroInv, TypeOK, States, Decisions
    <2>r. req'[r].phase = "done" /\ \A o \in Requests : o # r => req'[o] = req[o]
        BY Served DEF Create
    <2>6. Fresh' /\ ShownAgreed' /\ Locked' /\ Covered'
        <3>1. Fresh' /\ ShownAgreed'
            BY <2>1 DEF IntroInv, Agreement, Fresh, ShownAgreed
        <3>2. Locked'
            BY <2>1, <2>r, <1>3 DEF IntroInv, Locked
        <3>3. Covered'
            BY <2>1, <2>r, <1>3 DEF IntroInv, Covered
        <3>4. QED
            BY <3>1, <3>2, <3>3
    <2>7. StateIsConsent'
        BY <2>1, <2>2, <2>4, <1>1 DEF StateIsConsent, BothAccept, Endings
    <2>8. NoticesTellTheOutcome'
        <3>1. \A n \in notices' : n \in notices \/ n[1] = "requested"
            BY <2>1
        <3>2. notices \subseteq notices'
            BY <2>1
        <3>3. \A q \in Parties : consent[q].decision \notin Endings
                               /\ consent'[q].decision \notin Endings
            BY <2>3, <2>4 DEF Endings
        <3>4. QED
            BY <3>1, <3>2, <3>3, <2>1, <1>3
               DEF IntroInv, Agreement, NoticesTellTheOutcome, Endings
    <2>9. QED
        BY <2>5, <2>6, <2>7, <2>8 DEF IntroInv, Agreement
<1>4. QED
    BY <1>2, <1>3

LEMMA EndStays == ASSUME IntroInv, NEW r \in Requests, RespondEnd(r) PROVE IntroInv'
<1> DEFINE p == req[r].party
<1>1. p \in Parties /\ req[r].fields \in SUBSET Fields /\ req[r].kind \in Endings
    BY DEF RespondEnd, IntroInv, TypeOK
<1>2. lock = r /\ lock' = Free
    BY <1>1 DEF RespondEnd, IntroInv, Locked, Decisions
<1>3. CASE state # "pending"
    BY <1>2, <1>3, FinishStays DEF RespondEnd, IntroInv, TypeOK
<1>4. CASE state = "pending"
    <2>1. /\ state' = Ended(req[r].kind) /\ UNCHANGED <<mutuals, agreed, blocks, shown, late>>
          /\ consent' = [consent EXCEPT ![p] = [decision |-> req[r].kind,
                            fields |-> req[r].fields, source |-> "explicit"]]
          /\ notices' = notices \cup {<<req[r].kind, Other(p)>>}
        BY <1>4, <1>1 DEF RespondEnd, Consented, Informed, IntroInv, Locked, Decisions
    <2>2. Other(p) \in Parties /\ Other(p) # p
        BY <1>1, PairFacts
    <2>3. \A q \in Parties : consent[q].decision \notin Endings
        BY <1>4 DEF IntroInv, Agreement, StateIsConsent
    <2>4. /\ consent'[p].decision = req[r].kind
          /\ \A q \in Parties : q # p => consent'[q] = consent[q]
        BY <2>1, <1>1 DEF IntroInv, TypeOK
    <2>s. state' \in {"declined", "revoked"}
        BY <2>1 DEF Ended
    <2>5. TypeOK'
        BY <2>1, <2>2, <2>s, <1>1, <1>2, Served
           DEF RespondEnd, IntroInv, TypeOK, States, Decisions, Endings
    <2>r. req'[r].phase = "done" /\ \A o \in Requests : o # r => req'[o] = req[o]
        BY Served DEF RespondEnd
    <2>6. Fresh' /\ ShownAgreed' /\ Locked' /\ Covered'
        <3>1. Fresh' /\ ShownAgreed'
            BY <2>1, <2>s DEF IntroInv, Agreement, Fresh, ShownAgreed
        <3>2. Locked'
            BY <2>r, <1>2 DEF IntroInv, Locked
        <3>3. Covered'
            BY <2>1, <2>r, <2>s, <1>4 DEF IntroInv, Covered
        <3>4. QED
            BY <3>1, <3>2, <3>3
    <2>7. StateIsConsent'
        BY <2>s, <2>4, <1>1 DEF StateIsConsent, BothAccept, Endings
    <2>8. NoticesTellTheOutcome'
        <3>1. {q \in Parties : consent'[q].decision \in Endings} = {p}
            BY <2>3, <2>4, <1>1
        <3>2. {n \in notices : n[1] \in Endings} = {}
            BY <2>3 DEF IntroInv, Agreement, NoticesTellTheOutcome
        <3>3. {n \in notices' : n[1] \in Endings} = {<<consent'[p].decision, Other(p)>>}
            BY <3>2, <2>1, <2>4, <1>1
        <3>4. {n \in notices' : n[1] = "mutual"} = {n \in notices : n[1] = "mutual"}
            BY <2>1, <1>1 DEF Endings
        <3>5. QED
            BY <3>1, <3>3, <3>4, <2>1, <2>s, <1>4
               DEF IntroInv, Agreement, NoticesTellTheOutcome
    <2>9. QED
        BY <2>5, <2>6, <2>7, <2>8 DEF IntroInv, Agreement
<1>5. QED
    BY <1>3, <1>4

LEMMA AcceptStays == ASSUME IntroInv, NEW r \in Requests, RespondAccept(r) PROVE IntroInv'
<1> DEFINE p == req[r].party
           new == [decision |-> "accept", fields |-> req[r].fields, source |-> "explicit"]
<1>1. p \in Parties /\ req[r].fields \in SUBSET Fields
    BY DEF IntroInv, TypeOK
<1>2. lock = r /\ lock' = Free /\ req[r].seen = state /\ state # "none"
    BY DEF RespondAccept, IntroInv, Locked, Decisions
<1>3. CASE state \notin {"pending", "mutual"}
    <2>1. Finish(r) /\ UNCHANGED <<rows, blocks, shown>> /\ late' = late
        BY <1>2, <1>3 DEF RespondAccept
    <2>2. QED
        BY <1>2, <2>1, FinishStays DEF IntroInv, TypeOK
<1>4. CASE state \in {"pending", "mutual"}
    <2>1. /\ Finish(r) /\ UNCHANGED <<blocks, shown, late>>
          /\ consent' = [consent EXCEPT ![p] = new]
          /\ agreed' = agreed \cup (IF state' = "mutual" THEN Common(consent') ELSE {})
        BY <1>2, <1>4 DEF RespondAccept, Consented
    <2>2. \/ /\ state = "pending" /\ BothAccept(consent') /\ state' = "mutual"
             /\ notices' = notices \cup {"mutual"} \X Parties /\ mutuals' = mutuals + 1
          \/ /\ ~(state = "pending" /\ BothAccept(consent')) /\ state' = state
             /\ notices' = notices /\ mutuals' = mutuals
        BY <1>2, <1>4 DEF RespondAccept
    <2>3. /\ consent'[p].decision = "accept"
          /\ \A q \in Parties : q # p => consent'[q] = consent[q]
          /\ \A q \in Parties : consent[q].decision \notin Endings
                               /\ consent'[q].decision \notin Endings
        BY <2>1, <1>1, <1>4
           DEF IntroInv, TypeOK, Agreement, StateIsConsent, Endings
    <2>4. Common(consent') \subseteq Fields
        BY DEF Common
    <2>5. TypeOK'
        <3>1. consent' \in [Parties -> [decision : {"none"} \cup Decisions, fields : SUBSET Fields,
                                       source : {"none", "explicit", "implicit_by_initiation"}]]
            BY <2>1, <1>1 DEF IntroInv, TypeOK, Decisions
        <3>2. state' \in States /\ mutuals' \in Nat
            BY <2>2 DEF IntroInv, TypeOK, States
        <3>3. agreed' \subseteq Fields
            BY <2>1, <2>4 DEF IntroInv, TypeOK
        <3>4. notices' \subseteq ({"requested", "mutual"} \cup Endings) \X Parties
            BY <2>2 DEF IntroInv, TypeOK
        <3>5. QED
            BY <3>1, <3>2, <3>3, <3>4, <2>1, <1>2, Served DEF IntroInv, TypeOK
    <2>r. req'[r].phase = "done" /\ \A o \in Requests : o # r => req'[o] = req[o]
        BY <2>1, Served
    <2>6. Fresh' /\ ShownAgreed' /\ Locked' /\ Covered'
        <3>1. Fresh' /\ ShownAgreed'
            BY <2>1, <2>2, <1>4 DEF IntroInv, Agreement, Fresh, ShownAgreed
        <3>2. Locked'
            BY <2>r, <1>2 DEF IntroInv, Locked
        <3>3. Covered'
            BY <2>1, <2>2, <2>r DEF IntroInv, Covered
        <3>4. QED
            BY <3>1, <3>2, <3>3
    <2>7. StateIsConsent'
        <3>1. state = "mutual" => BothAccept(consent')
            BY <2>3 DEF IntroInv, Agreement, StateIsConsent, BothAccept
        <3>2. /\ state' \in {"pending", "mutual"}
              /\ state' = "mutual" <=> BothAccept(consent')
            BY <3>1, <2>2, <1>4
        <3>3. QED
            BY <3>2, <2>3 DEF StateIsConsent
    <2>8. NoticesTellTheOutcome'
        <3>1. /\ {q \in Parties : consent'[q].decision \in Endings} = {}
              /\ {q \in Parties : consent[q].decision \in Endings} = {}
            BY <2>3
        <3>2. {n \in notices' : n[1] \in Endings} = {n \in notices : n[1] \in Endings}
            BY <2>2 DEF Endings
        <3>3. CASE state' = state
            BY <3>1, <3>2, <3>3, <2>2, <1>4
               DEF IntroInv, Agreement, NoticesTellTheOutcome
        <3>4. CASE state = "pending" /\ state' = "mutual"
            <4>1. notices' = notices \cup {"mutual"} \X Parties /\ mutuals' = mutuals + 1
                BY <3>4, <2>2
            <4>2. {n \in notices : n[1] = "mutual"} = {} /\ mutuals = 0
                BY <3>4 DEF IntroInv, Agreement, NoticesTellTheOutcome
            <4>3. {n \in notices' : n[1] = "mutual"} = {"mutual"} \X Parties
                BY <4>1, <4>2
            <4>4. QED
                BY <4>1, <4>2, <4>3, <3>1, <3>2, <3>4
                   DEF IntroInv, Agreement, NoticesTellTheOutcome
        <3>5. QED
            BY <3>3, <3>4, <2>2
    <2>9. QED
        BY <2>5, <2>6, <2>7, <2>8 DEF IntroInv, Agreement
<1>5. QED
    BY <1>3, <1>4

-----------------------------------------------------------------------------
LEMMA NextIntroInv == IntroInv /\ [Next]_vars => IntroInv'
<1> SUFFICES ASSUME IntroInv, [Next]_vars PROVE IntroInv'
    OBVIOUS
<1>t. TypeOK /\ Locked /\ Covered /\ ShownAgreed
    BY DEF IntroInv, Agreement
<1>1. ASSUME NEW r \in Requests, NEW p \in Parties, NEW f \in SUBSET Fields,
             CheckEligible(r, p, f)
      PROVE  IntroInv'
    <2>1. /\ Arrive(r) /\ UNCHANGED <<rows, blocks, lock, shown>>
          /\ Finish(r) \/ Serve(r, "request", p, f, "cleared")
        BY <1>1 DEF CheckEligible
    <2>2. late' \subseteq Requests /\ "request" \in Kinds /\ "request" \notin Decisions
        BY <2>1, <1>t DEF Arrive, TypeOK, Kinds, Decisions, Endings
    <2>3. CASE Finish(r)
        BY <2>1, <2>2, <2>3, FinishStays
    <2>4. CASE Serve(r, "request", p, f, "cleared")
        BY <2>1, <2>2, <2>4, ServeStays
    <2>5. QED
        BY <2>1, <2>3, <2>4
<1>2. ASSUME NEW r \in Requests, NEW p \in Parties, NEW f \in SUBSET Fields,
             NEW k \in Decisions, RespondBegin(r, k, p, f)
      PROVE  IntroInv'
    <2>1. /\ Arrive(r) /\ lock = Free /\ UNCHANGED <<rows, blocks, shown>>
          /\ \/ Finish(r) /\ UNCHANGED lock
             \/ Serve(r, k, p, f, "cleared") /\ lock' = r /\ state # "none"
        BY <1>2 DEF RespondBegin, Lockable
    <2>2. late' \subseteq Requests /\ k \in Kinds
        BY <2>1, <1>t DEF Arrive, TypeOK, Kinds
    <2>3. QED
        BY <2>1, <2>2, FinishStays, ServeStays
<1>3. ASSUME NEW r \in Requests, NEW p \in Parties, ViewState(r, p) PROVE IntroInv'
    <2>1. /\ Arrive(r) /\ UNCHANGED <<rows, blocks, lock, shown>>
          /\ Finish(r) \/ Serve(r, "view", p, {}, "seen")
        BY <1>3 DEF ViewState
    <2>2. late' \subseteq Requests /\ "view" \in Kinds
        BY <2>1, <1>t DEF Arrive, TypeOK, Kinds
    <2>3. QED
        BY <2>1, <2>2, FinishStays, ServeStays
<1>4. ASSUME NEW r \in Requests, ViewConsents(r) PROVE IntroInv'
    <2> DEFINE f == Matched(req[r].party)
    <2>1. /\ req[r].phase = "seen" /\ UNCHANGED <<rows, blocks, lock, shown, late>>
          /\ req' = [req EXCEPT ![r] = [@ EXCEPT !.phase = "matched", !.fields = f]]
        BY <1>4 DEF ViewConsents
    <2>2. f = Common(consent) /\ f \subseteq Fields
        BY DEF Matched, Common
    <2>3. /\ req'[r] = [req[r] EXCEPT !.phase = "matched", !.fields = f]
          /\ \A o \in Requests : o # r => req'[o] = req[o]
          /\ req' \in [Requests -> [phase : Phases, kind : Kinds, party : Parties,
                                    fields : SUBSET Fields, seen : States]]
        BY ZenonT(40), <2>1, <2>2, <1>t DEF TypeOK, Phases
    <2>4. Locked'
        BY <2>1, <2>3, <1>t DEF Locked, TypeOK, rows
    <2>5. Covered'
        BY <2>1, <2>2, <2>3, <1>t DEF Covered, TypeOK, rows
    <2>6. QED
        BY <2>1, <2>3, <2>4, <2>5, <1>t, RowsStay DEF TypeOK, ShownAgreed
<1>5. ASSUME NEW r \in Requests, ViewReveal(r) PROVE IntroInv'
    <2>1. /\ Finish(r) /\ UNCHANGED <<rows, blocks, lock, late>> /\ req[r].phase = "matched"
          /\ \/ shown' = shown
             \/ req[r].seen = "mutual" /\ shown' = shown \cup {req[r].party} \X req[r].fields
        BY <1>5 DEF ViewReveal
    <2>2. /\ req' \in [Requests -> [phase : Phases, kind : Kinds, party : Parties,
                                    fields : SUBSET Fields, seen : States]]
          /\ req'[r].phase = "done"
          /\ \A o \in Requests : o # r => req'[o] = req[o]
        BY <2>1, Served
    <2>3. shown' \subseteq Parties \X Fields /\ \A s \in shown' : s[2] \in agreed
        BY <2>1, <1>t DEF TypeOK, Covered, ShownAgreed
    <2>4. Locked' /\ Covered'
        BY <2>1, <2>2, <1>t DEF Locked, Covered, rows
    <2>5. QED
        BY <2>1, <2>2, <2>3, <2>4, <1>t, RowsStay DEF TypeOK
<1>6. ASSUME NEW p \in Parties, Block(p) \/ Unblock(p) PROVE IntroInv'
    <2>1. /\ UNCHANGED <<rows, lock, req, shown>>
          /\ blocks' \subseteq Parties /\ late' \subseteq Requests
        BY <1>6, <1>t DEF Block, Unblock, TypeOK
    <2>2. Locked' /\ Covered'
        BY <2>1, <1>t DEF Locked, Covered, rows
    <2>3. QED
        BY <2>1, <2>2, <1>t, RowsStay DEF TypeOK, ShownAgreed
<1>7. CASE UNCHANGED vars
    <2>1. Locked' /\ Covered'
        BY <1>7, <1>t DEF vars, Locked, Covered
    <2>2. QED
        BY <2>1, <1>7, <1>t, RowsStay DEF vars, rows, TypeOK, ShownAgreed
<1>8. QED
    BY <1>1, <1>2, <1>3, <1>4, <1>5, <1>6, <1>7, CreateStays, EndStays, AcceptStays
       DEF Next, RequestStep

\* The inductive invariant holds throughout: the row, the lock and the consents.
THEOREM IntroductionCorrect == Spec => []IntroInv
<1>1. QED
    BY InitIntroInv, NextIntroInv, PTL DEF Spec

-----------------------------------------------------------------------------
\* TypeOK of Spec: the introduction, its consents, its notices and what requests
\* remember keep the types the schema gives them.
THEOREM IntroductionTypes == Spec => []TypeOK
<1>1. IntroInv => TypeOK
    BY DEF IntroInv
<1>2. QED
    BY <1>1, IntroductionCorrect, PTL

\* StateIsConsent of Spec: however answers overlap, the row is mutual exactly when
\* both parties accept, and ended exactly when one of them ended it (respond route).
THEOREM ConsentDecides == Spec => []StateIsConsent
<1>1. IntroInv => StateIsConsent
    BY DEF IntroInv, Agreement
<1>2. QED
    BY <1>1, IntroductionCorrect, PTL

\* NoticesTellTheOutcome of Spec: one transition with its two notices, or one notice
\* of the ending, or neither, whatever requests repeat (respond route, AC-32).
THEOREM OneOutcome == Spec => []NoticesTellTheOutcome
<1>1. IntroInv => NoticesTellTheOutcome
    BY DEF IntroInv, Agreement
<1>2. QED
    BY <1>1, IntroductionCorrect, PTL

\* ShownAgreed of Spec: no interleaving of a view's separate reads with answers and
\* blocks shows a field that both parties had not agreed to reveal (view route, AC-34).
THEOREM RevealNeedsBoth == Spec => []ShownAgreed
<1>1. IntroInv => ShownAgreed
    BY DEF IntroInv, Agreement
<1>2. QED
    BY <1>1, IntroductionCorrect, PTL

-----------------------------------------------------------------------------
\* A request is late only under a block that stands, and then it is past its arrival and
\* has not been let through to an answer.
LateInv ==
    /\ late # {} => blocks # {}
    /\ \A r \in late : req[r].phase \notin {"new", "cleared"}

LEMMA InitLateInv == Init => LateInv
BY DEF Init, LateInv

\* The phase of everyone but the request that moves stays.
OthersStay(r) == \A o \in Requests \ {r} : req'[o] = req[o]

LEMMA ServedPhase ==
    ASSUME TypeOK, NEW r \in Requests
    PROVE  /\ \A phase : Idle(phase).phase = phase
           /\ Finish(r) => OthersStay(r) /\ req'[r].phase = "done"
           /\ \A k, p, f, phase : Serve(r, k, p, f, phase) =>
                 OthersStay(r) /\ req'[r].phase = phase /\ req'[r].seen = state
BY DEF TypeOK, Finish, Serve, Idle, OthersStay

\* A request that arrives under a block is late, and is not let through.
LEMMA ArrivalLate ==
    ASSUME TypeOK, LateInv, NEW r \in Requests, Arrive(r), OthersStay(r), UNCHANGED blocks,
           req'[r].phase \in {"done", "seen"} \/ (blocks = {} /\ req'[r].phase = "cleared")
    PROVE  LateInv'
BY DEF TypeOK, LateInv, Arrive, OthersStay

\* A request that goes on after its arrival.
LEMMA GoesOnLate ==
    ASSUME TypeOK, LateInv, NEW r \in Requests, OthersStay(r), UNCHANGED <<blocks, late>>,
           req'[r].phase \in {"done", "matched"}
    PROVE  LateInv'
BY DEF TypeOK, LateInv, OthersStay

LEMMA NextLateInv == TypeOK /\ LateInv /\ [Next]_vars => LateInv'
<1> SUFFICES ASSUME TypeOK, LateInv, [Next]_vars PROVE LateInv'
    OBVIOUS
<1>1. ASSUME NEW r \in Requests, NEW p \in Parties, NEW f \in SUBSET Fields,
             CheckEligible(r, p, f)
      PROVE  LateInv'
    <2>1. Arrive(r) /\ UNCHANGED blocks /\ (Finish(r) \/ blocks = {})
        BY <1>1 DEF CheckEligible, Blocked
    <2>2. Finish(r) \/ Serve(r, "request", p, f, "cleared")
        BY <1>1 DEF CheckEligible
    <2>3. QED
        BY <2>1, <2>2, ServedPhase, ArrivalLate
<1>2. ASSUME NEW r \in Requests, NEW p \in Parties, NEW f \in SUBSET Fields,
             NEW k \in Decisions, RespondBegin(r, k, p, f)
      PROVE  LateInv'
    <2>1. Arrive(r) /\ UNCHANGED blocks /\ (Finish(r) \/ blocks = {})
        BY <1>2 DEF RespondBegin, Blocked
    <2>2. Finish(r) \/ Serve(r, k, p, f, "cleared")
        BY <1>2 DEF RespondBegin
    <2>3. QED
        BY <2>1, <2>2, ServedPhase, ArrivalLate
<1>3. ASSUME NEW r \in Requests, NEW p \in Parties, ViewState(r, p) PROVE LateInv'
    <2>1. Arrive(r) /\ UNCHANGED blocks /\ (Finish(r) \/ Serve(r, "view", p, {}, "seen"))
        BY <1>3 DEF ViewState
    <2>2. QED
        BY <2>1, ServedPhase, ArrivalLate
<1>4. ASSUME NEW r \in Requests,
             Create(r) \/ RespondEnd(r) \/ RespondAccept(r) \/ ViewReveal(r)
      PROVE  LateInv'
    <2>1. Finish(r) /\ UNCHANGED <<blocks, late>>
        BY <1>4 DEF Create, RespondEnd, RespondAccept, ViewReveal
    <2>2. QED
        BY <2>1, ServedPhase, GoesOnLate
<1>5. ASSUME NEW r \in Requests, ViewConsents(r) PROVE LateInv'
    <2>1. /\ UNCHANGED <<blocks, late>>
          /\ req' = [req EXCEPT ![r] = [req[r] EXCEPT !.phase = "matched",
                                                      !.fields = Matched(req[r].party)]]
        BY <1>5 DEF ViewConsents
    <2>2. OthersStay(r) /\ req'[r].phase = "matched"
        BY <2>1 DEF TypeOK, OthersStay
    <2>3. QED
        BY <2>1, <2>2, GoesOnLate
<1>6. ASSUME NEW p \in Parties, Block(p) \/ Unblock(p) PROVE LateInv'
    BY <1>6 DEF Block, Unblock, LateInv
<1>7. CASE UNCHANGED vars
    BY <1>7 DEF vars, LateInv
<1>8. QED
    BY <1>1, <1>2, <1>3, <1>4, <1>5, <1>6, <1>7 DEF Next, RequestStep

\* The steps that end a request which had been let through: of those a late one can only
\* take the last step of a view, which shows nothing while a block stands.
LEMMA LateStep ==
    ASSUME IntroInv, LateInv, Next, NEW l \in late,
           req[l].phase \in {"cleared", "matched"}, req'[l].phase = "done"
    PROVE  UNCHANGED <<rows, shown>>
<1>1. TypeOK /\ l \in Requests /\ blocks # {} /\ req[l].phase = "matched"
    BY DEF IntroInv, TypeOK, LateInv
<1>2. \A r \in Requests : OthersStay(r) => r = l
    BY <1>1 DEF OthersStay
<1>3. ASSUME NEW r \in Requests, RequestStep(r) PROVE UNCHANGED <<rows, shown>>
    <2>1. ASSUME \E p \in Parties, f \in SUBSET Fields :
                    CheckEligible(r, p, f) \/ \E k \in Decisions : RespondBegin(r, k, p, f)
          PROVE  UNCHANGED <<rows, shown>>
        BY <2>1 DEF CheckEligible, RespondBegin
    <2>2. ASSUME NEW p \in Parties, ViewState(r, p) PROVE UNCHANGED <<rows, shown>>
        BY <2>2 DEF ViewState
    <2>3. ASSUME ViewConsents(r) PROVE UNCHANGED <<rows, shown>>
        BY <2>3 DEF ViewConsents
    <2>4. ASSUME Create(r) \/ RespondEnd(r) \/ RespondAccept(r) PROVE FALSE
        <3>1. Finish(r) /\ req[r].phase = "cleared"
            BY <2>4 DEF Create, RespondEnd, RespondAccept
        <3>2. r = l
            BY <3>1, <1>1, <1>2, ServedPhase
        <3>3. QED
            BY <3>1, <3>2, <1>1
    <2>5. ASSUME ViewReveal(r) PROVE UNCHANGED <<rows, shown>>
        BY <2>5, <1>1 DEF ViewReveal, Blocked
    <2>6. QED
        BY <1>3, <2>1, <2>2, <2>3, <2>4, <2>5 DEF RequestStep
<1>4. ASSUME NEW p \in Parties, Block(p) \/ Unblock(p) PROVE UNCHANGED <<rows, shown>>
    BY <1>4 DEF Block, Unblock
<1>5. QED
    BY <1>3, <1>4 DEF Next

\* LateRefused of Spec: however requests overlap with blocks and unblocks, one that comes
\* in under a block creates, answers and reveals nothing while the block stands.
THEOREM BlocksFreeze == Spec => LateRefused
<1>1. IntroInv /\ LateInv /\ [Next]_vars =>
         [\A r \in late : req[r].phase \in {"cleared", "matched"} /\ req'[r].phase = "done"
             => UNCHANGED <<rows, shown>>]_vars
    BY LateStep
<1>2. IntroInv => TypeOK
    BY DEF IntroInv
<1>3. Spec => []LateInv
    BY <1>2, InitLateInv, NextLateInv, IntroductionCorrect, PTL DEF Spec
<1>4. QED
    BY <1>1, <1>3, IntroductionCorrect, PTL DEF Spec, LateRefused
=============================================================================

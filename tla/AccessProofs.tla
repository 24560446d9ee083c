----------------------------- MODULE AccessProofs -----------------------------
(***************************************************************************)
(* Proofs about what stands behind an account's access, for any numbers of *)
(* requests, codes, sessions, grants, rows and instances: the one-time     *)
(* codes and sessions, the second factor, the Google grants and their      *)
(* refinement, the rotation of the encryption key, and the token buckets.  *)
(***************************************************************************)
EXTENDS MCAccess, FiniteSetTheorems, TLAPS

-----------------------------------------------------------------------------
(* Sign-in *)

VisitRecord == [phase : VisitPhases, code : Codes \cup {NoCode}, seen : SUBSET Codes,
                session : SUBSET Sessions]
CodeRecord == [st : CodeStates, tries : Nat, guessed : Nat]

\* A request that redeems or counts has a code that was made; one that inserts a code has
\* a number for it that nobody else has.
HasCode ==
    \A v \in Visits :
        /\ visit[v].phase \in {"redeeming", "counting"} =>
               visit[v].code \in Codes /\ code[visit[v].code].st # "unmade"
        /\ visit[v].phase = "inserting" =>
               /\ visit[v].code \in Codes /\ visit[v].code <= made
               /\ code[visit[v].code].st = "unmade"
               /\ \A w \in Visits \ {v} :
                      visit[w].phase = "inserting" => visit[w].code # visit[v].code

NoneAhead == \A c \in Codes : c > made => code[c].st = "unmade"

\* The code that opened a session is used up.
OpenedByUsed ==
    \A s \in Sessions : session[s].by # NoCode => /\ session[s].by \in Codes
                                                  /\ code[session[s].by].st = "used"

SignInInv == SignInTypeOK /\ HasCode /\ NoneAhead /\ OpenedByUsed /\ CodeOpensOneSession

LEMMA TypesHold ==
    ASSUME SignInInv
    PROVE  /\ code \in [Codes -> CodeRecord] /\ visit \in [Visits -> VisitRecord]
           /\ session \in [Sessions -> [st : SessionStates, by : Codes \cup {NoCode}]]
           /\ made \in 0..MaxCodes /\ recent \in Nat /\ failures \in Nat
BY DEF SignInInv, SignInTypeOK, CodeRecord, VisitRecord

LEMMA NoVisitType == NoVisit \in VisitRecord /\ NoVisit.phase = "idle"
BY DEF NoVisit, VisitRecord, VisitPhases

LEMMA UsedType ==
    ASSUME SignInInv, NEW cs
    PROVE  /\ Used(cs) \in [Codes -> CodeRecord]
           /\ \A c \in Codes : /\ Used(cs)[c].tries = code[c].tries
                               /\ Used(cs)[c].guessed = code[c].guessed
                               /\ code[c].st # "open" => Used(cs)[c] = code[c]
                               /\ code[c].st = "open" => Used(cs)[c].st \in {"open", "used"}
                               /\ code[c].st = "open" /\ c \in cs => Used(cs)[c].st = "used"
BY TypesHold DEF Used, CodeRecord, CodeStates

LEMMA InitSignIn == SignInInit => SignInInv
<1> SUFFICES ASSUME SignInInit PROVE SignInInv
    OBVIOUS
<1>1. SignInTypeOK
    BY SignInAssumption, NoVisitType
       DEF SignInInit, SignInTypeOK, CodeStates, SessionStates, VisitRecord
<1>2. HasCode /\ NoneAhead /\ OpenedByUsed /\ CodeOpensOneSession
    BY NoVisitType DEF SignInInit, HasCode, NoneAhead, OpenedByUsed, CodeOpensOneSession
<1>3. QED
    BY <1>1, <1>2 DEF SignInInv

-----------------------------------------------------------------------------
(***************************************************************************)
(* What a step may do to the codes without opening a session: made codes   *)
(* stay made, used ones stay used.                                         *)
(***************************************************************************)
SignInOnwards ==
    /\ code' \in [Codes -> CodeRecord]
    /\ \A c \in Codes : /\ code[c].st = "unmade" <=> code'[c].st = "unmade"
                        /\ code[c].st = "used" => code'[c].st = "used"

LEMMA CodesStay ==
    ASSUME SignInInv, UNCHANGED code
    PROVE  SignInOnwards
BY TypesHold DEF SignInOnwards

\* A request moves on, without a code or with one that is made.
LEMMA VisitMoves ==
    ASSUME SignInInv, NEW v \in Visits, NEW w \in VisitRecord, visit' = [visit EXCEPT ![v] = w],
           w.phase # "inserting",
           w.phase \in {"redeeming", "counting"} => w.code \in Codes /\ code[w.code].st # "unmade",
           SignInOnwards, UNCHANGED made, recent' \in Nat, failures' \in Nat, UNCHANGED session
    PROVE  SignInInv'
<1>1. \A u \in Visits : visit'[u] = IF u = v THEN w ELSE visit[u]
    BY TypesHold
<1>2. SignInTypeOK'
    BY TypesHold DEF SignInTypeOK, SignInOnwards, CodeRecord, VisitRecord
<1>3. HasCode'
    BY <1>1 DEF SignInInv, HasCode, SignInOnwards
<1>4. NoneAhead' /\ OpenedByUsed' /\ CodeOpensOneSession'
    BY DEF SignInInv, NoneAhead, OpenedByUsed, CodeOpensOneSession, SignInOnwards
<1>5. QED
    BY <1>2, <1>3, <1>4 DEF SignInInv

LEMMA VisitLeaves ==
    ASSUME SignInInv, NEW v \in Visits, Leave(v),
           SignInOnwards, UNCHANGED made, recent' \in Nat, failures' \in Nat, UNCHANGED session
    PROVE  SignInInv'
BY NoVisitType, VisitMoves DEF Leave

\* A step of no request, on codes and sessions.
LEMMA SessionsEnd ==
    ASSUME SignInInv, UNCHANGED <<made, visit>>, SignInOnwards, recent' \in Nat, failures' \in Nat,
           session' \in [Sessions -> [st : SessionStates, by : Codes \cup {NoCode}]],
           \A s \in Sessions : session'[s].by = session[s].by
    PROVE  SignInInv'
<1>1. SignInTypeOK'
    BY TypesHold DEF SignInTypeOK, SignInOnwards, CodeRecord, VisitRecord
<1>2. HasCode'
    BY DEF SignInInv, HasCode, SignInOnwards
<1>3. NoneAhead' /\ OpenedByUsed' /\ CodeOpensOneSession'
    BY DEF SignInInv, NoneAhead, OpenedByUsed, CodeOpensOneSession, SignInOnwards
<1>4. QED
    BY <1>1, <1>2, <1>3 DEF SignInInv

-----------------------------------------------------------------------------
LEMMA RequestCodeInv ==
    ASSUME SignInInv, NEW v \in Visits, RequestCode(v)
    PROVE  SignInInv'
<1>1. PICK w : w = [visit[v] EXCEPT !.phase = "superseding"]
    OBVIOUS
<1>2. visit' = [visit EXCEPT ![v] = w] /\ UNCHANGED <<code, made, recent, failures, session>>
    BY <1>1 DEF RequestCode
<1>3. w \in VisitRecord /\ w.phase = "superseding"
    BY <1>1, TypesHold DEF VisitRecord, VisitPhases
<1>4. QED
    BY <1>2, <1>3, CodesStay, TypesHold, VisitMoves

LEMMA SupersedeInv ==
    ASSUME SignInInv, NEW v \in Visits, Supersede(v)
    PROVE  SignInInv'
<1>1. PICK w : w = [visit[v] EXCEPT !.phase = "inserting", !.code = made + 1, !.seen = OpenCodes]
    OBVIOUS
<1>2. made < MaxCodes /\ made' = made + 1 /\ UNCHANGED <<code, recent, failures, session>>
      /\ visit' = [visit EXCEPT ![v] = w]
    BY <1>1 DEF Supersede
<1>3. made + 1 \in Codes /\ made' \in 0..MaxCodes /\ made \in Nat
    BY <1>2, TypesHold, SignInAssumption DEF Codes
<1>4. w \in VisitRecord /\ w.phase = "inserting" /\ w.code = made + 1
    BY <1>1, <1>3, TypesHold DEF VisitRecord, VisitPhases, OpenCodes
<1>5. \A u \in Visits : visit'[u] = IF u = v THEN w ELSE visit[u]
    BY <1>2, TypesHold
<1>6. SignInTypeOK'
    BY <1>2, <1>3, <1>4, TypesHold DEF SignInTypeOK, CodeRecord, VisitRecord
<1>7. HasCode'
  <2>1. \A u \in Visits : visit[u].phase = "inserting" => visit[u].code # made + 1
    BY <1>3 DEF SignInInv, HasCode, Codes
  <2>2. code[made + 1].st = "unmade"
    BY <1>3 DEF SignInInv, NoneAhead, Codes
  <2>3. \A u \in Visits : visit[u].phase = "inserting" => visit[u].code <= made'
    BY <1>2, <1>3 DEF SignInInv, HasCode, Codes
  <2>4. made + 1 <= made'
    BY <1>2, <1>3
  <2>5. QED
    BY <1>2, <1>3, <1>4, <1>5, <2>1, <2>2, <2>3, <2>4 DEF SignInInv, HasCode
<1>8. NoneAhead'
    BY <1>2, <1>3 DEF SignInInv, NoneAhead, Codes
<1>9. OpenedByUsed' /\ CodeOpensOneSession'
    BY <1>2 DEF SignInInv, OpenedByUsed, CodeOpensOneSession
<1>10. QED
    BY <1>6, <1>7, <1>8, <1>9 DEF SignInInv

LEMMA MakeCodeInv ==
    ASSUME SignInInv, NEW v \in Visits, MakeCode(v)
    PROVE  SignInInv'
<1>1. PICK c \in Codes : c = visit[v].code /\ c <= made /\ code[c].st = "unmade"
    BY DEF MakeCode, SignInInv, HasCode
<1>2. PICK used : used = Used(visit[v].seen)
    OBVIOUS
<1>3. code' = [used EXCEPT ![c].st = "open"] /\ visit' = [visit EXCEPT ![v] = NoVisit]
      /\ UNCHANGED <<made, failures, session>> /\ recent' = recent + 1
    BY <1>1, <1>2 DEF MakeCode, Leave
<1>4. used \in [Codes -> CodeRecord] /\ used[c] = code[c]
      /\ \A d \in Codes : /\ code[d].st # "open" => used[d] = code[d]
                          /\ code[d].st = "open" => used[d].st \in {"open", "used"}
    BY <1>1, <1>2, UsedType
<1>5. code' \in [Codes -> CodeRecord] /\ code'[c].st = "open"
      /\ \A d \in Codes \ {c} : code'[d] = used[d]
    BY <1>3, <1>4 DEF CodeRecord, CodeStates
<1>6. \A u \in Visits : visit'[u] = IF u = v THEN NoVisit ELSE visit[u]
    BY <1>3, TypesHold
<1>7. SignInTypeOK'
    BY <1>3, <1>5, TypesHold, NoVisitType DEF SignInTypeOK, CodeRecord, VisitRecord
<1>8. \A d \in Codes : /\ code[d].st # "unmade" => code'[d].st # "unmade"
                       /\ code[d].st = "used" => code'[d].st = "used"
                       /\ code[d].st = "unmade" /\ d # c => code'[d].st = "unmade"
    BY <1>1, <1>4, <1>5
<1>9. \A u \in Visits \ {v} : visit[u].phase = "inserting" => visit[u].code # c
    BY <1>1 DEF MakeCode, SignInInv, HasCode
<1>10. HasCode'
    BY <1>3, <1>6, <1>8, <1>9, NoVisitType DEF SignInInv, HasCode
<1>11. NoneAhead'
    BY <1>1, <1>3, <1>8, TypesHold DEF SignInInv, NoneAhead, Codes
<1>12. OpenedByUsed' /\ CodeOpensOneSession'
    BY <1>3, <1>8 DEF SignInInv, OpenedByUsed, CodeOpensOneSession
<1>13. QED
    BY <1>7, <1>10, <1>11, <1>12 DEF SignInInv
-----------------------------------------------------------------------------
LEMMA VerifyInv ==
    ASSUME SignInInv, NEW v \in Visits, Verify(v)
    PROVE  SignInInv'
<1>1. PICK w : w = [visit[v] EXCEPT !.phase = "picking"]
    OBVIOUS
<1>2. visit' = [visit EXCEPT ![v] = w] /\ UNCHANGED <<code, made, recent, failures, session>>
    BY <1>1 DEF Verify
<1>3. w \in VisitRecord /\ w.phase = "picking"
    BY <1>1, TypesHold DEF VisitRecord, VisitPhases
<1>4. QED
    BY <1>2, <1>3, CodesStay, TypesHold, VisitMoves

\* A comparison is counted in the history of its code.
Compared(c) == code' = [code EXCEPT ![c].guessed = code[c].guessed + 1]

LEMMA ComparedOnwards ==
    ASSUME SignInInv, NEW c \in Codes, Compared(c)
    PROVE  /\ SignInOnwards
           /\ \A d \in Codes : /\ code'[d].tries = code[d].tries
                               /\ code'[d].guessed = IF d = c THEN code[d].guessed + 1
                                                              ELSE code[d].guessed
BY TypesHold DEF Compared, SignInOnwards, CodeRecord

LEMMA PickCases ==
    ASSUME SignInInv, NEW v \in Visits, Pick(v)
    PROVE  /\ UNCHANGED <<made, recent, failures, session>>
           /\ \/ Leave(v) /\ UNCHANGED code
              \/ \E c \in OpenCodes : Leave(v) /\ code' = Used({c})
              \/ \E c \in OpenCodes, w \in VisitRecord :
                    /\ code[c].tries < MaxAttempts
                    /\ visit' = [visit EXCEPT ![v] = w] /\ w.code = c
                    /\ \/ w.phase = "redeeming" /\ UNCHANGED code
                       \/ w.phase = "counting" /\ Compared(c)
<1>1. UNCHANGED <<made, recent, failures, session>>
    BY DEF Pick
<1>2. CASE \E c \in OpenCodes : /\ code[c].tries < MaxAttempts
                                /\ visit' = [visit EXCEPT ![v].phase = "redeeming", ![v].code = c]
                                /\ UNCHANGED code
  <2>1. PICK c \in OpenCodes : /\ code[c].tries < MaxAttempts
                               /\ visit' = [visit EXCEPT ![v].phase = "redeeming", ![v].code = c]
                               /\ UNCHANGED code
    BY <1>2
  <2>2. PICK w : w = [visit[v] EXCEPT !.phase = "redeeming", !.code = c]
    OBVIOUS
  <2>3. visit' = [visit EXCEPT ![v] = w]
    BY <2>1, <2>2
  <2>4. w \in VisitRecord /\ w.phase = "redeeming" /\ w.code = c
    BY <2>2, TypesHold DEF VisitRecord, VisitPhases, OpenCodes
  <2>5. QED
    BY <1>1, <2>1, <2>3, <2>4
<1>3. CASE \E c \in OpenCodes : /\ code[c].tries < MaxAttempts
                                /\ visit' = [visit EXCEPT ![v].phase = "counting", ![v].code = c]
                                /\ Compared(c)
  <2>1. PICK c \in OpenCodes : /\ code[c].tries < MaxAttempts
                               /\ visit' = [visit EXCEPT ![v].phase = "counting", ![v].code = c]
                               /\ Compared(c)
    BY <1>3
  <2>2. PICK w : w = [visit[v] EXCEPT !.phase = "counting", !.code = c]
    OBVIOUS
  <2>3. visit' = [visit EXCEPT ![v] = w]
    BY <2>1, <2>2
  <2>4. w \in VisitRecord /\ w.phase = "counting" /\ w.code = c
    BY <2>2, TypesHold DEF VisitRecord, VisitPhases, OpenCodes
  <2>5. QED
    BY <1>1, <2>1, <2>3, <2>4
<1>4. QED
    BY <1>1, <1>2, <1>3 DEF Pick, Compared

LEMMA PickInv ==
    ASSUME SignInInv, NEW v \in Visits, Pick(v)
    PROVE  SignInInv'
<1>1. UNCHANGED <<made, recent, failures, session>> /\ recent' \in Nat /\ failures' \in Nat
    BY TypesHold DEF Pick
<1>2. CASE Leave(v) /\ UNCHANGED code
    BY <1>1, <1>2, CodesStay, VisitLeaves
<1>3. CASE \E c \in OpenCodes : Leave(v) /\ code' = Used({c})
  <2>1. SignInOnwards
    BY <1>3, UsedType DEF SignInOnwards
  <2>2. QED
    BY <1>1, <1>3, <2>1, VisitLeaves
<1>4. CASE \E c \in OpenCodes, w \in VisitRecord :
                    /\ visit' = [visit EXCEPT ![v] = w] /\ w.code = c
                    /\ \/ w.phase = "redeeming" /\ UNCHANGED code
                       \/ w.phase = "counting" /\ Compared(c)
  <2>1. PICK c \in OpenCodes, w \in VisitRecord :
                    /\ visit' = [visit EXCEPT ![v] = w] /\ w.code = c
                    /\ \/ w.phase = "redeeming" /\ UNCHANGED code
                       \/ w.phase = "counting" /\ Compared(c)
    BY <1>4
  <2>2. c \in Codes /\ code[c].st = "open"
    BY DEF OpenCodes
  <2>3. SignInOnwards
    BY <2>1, <2>2, CodesStay, ComparedOnwards
  <2>4. QED
    BY <1>1, <2>1, <2>2, <2>3, VisitMoves
<1>5. QED
    BY <1>2, <1>3, <1>4, PickCases

(***************************************************************************)
(* The attempt is counted in the row, which may be used up by then.        *)
(***************************************************************************)
LEMMA CountCases ==
    ASSUME SignInInv, NEW v \in Visits, CountAttempt(v)
    PROVE  /\ visit[v].code \in Codes
           /\ SignInOnwards
           /\ \A d \in Codes : /\ code'[d].guessed = code[d].guessed
                               /\ code'[d].tries = IF d = visit[v].code THEN code[d].tries + 1
                                                                        ELSE code[d].tries
<1>1. PICK c \in Codes : c = visit[v].code /\ code[c].st # "unmade"
    BY DEF CountAttempt, SignInInv, HasCode
<1>2. PICK st : st = IF code[c].tries + 1 >= MaxAttempts /\ code[c].st = "open"
                     THEN "used" ELSE code[c].st
    OBVIOUS
<1>3. code' = [code EXCEPT ![c].tries = code[c].tries + 1, ![c].st = st]
    BY <1>1, <1>2 DEF CountAttempt, Counted
<1>4. PICK row : row = [code[c] EXCEPT !.tries = code[c].tries + 1, !.st = st]
    OBVIOUS
<1>5. code' = [code EXCEPT ![c] = row]
    BY <1>3, <1>4
<1>6. st \in CodeStates \ {"unmade"} /\ (code[c].st = "used" => st = "used")
    BY <1>1, <1>2, TypesHold DEF CodeRecord, CodeStates
<1>7. row \in CodeRecord /\ row.st = st /\ row.tries = code[c].tries + 1
      /\ row.guessed = code[c].guessed
  <2>1. code[c] \in CodeRecord
    BY TypesHold
  <2>2. code[c].tries + 1 \in Nat /\ st \in CodeStates
    BY <1>6, <2>1 DEF CodeRecord
  <2>3. QED
    BY <1>4, <2>1, <2>2 DEF CodeRecord
<1>8. \A d \in Codes : code'[d] = IF d = c THEN row ELSE code[d]
    BY <1>5, TypesHold
<1>9. SignInOnwards
    BY <1>1, <1>5, <1>6, <1>7, <1>8, TypesHold DEF SignInOnwards
<1>10. QED
    BY <1>1, <1>7, <1>8, <1>9

LEMMA CountAttemptInv ==
    ASSUME SignInInv, NEW v \in Visits, CountAttempt(v)
    PROVE  SignInInv'
<1>1. PICK w : w = [visit[v] EXCEPT !.phase = "recording"]
    OBVIOUS
<1>2. visit' = [visit EXCEPT ![v] = w] /\ UNCHANGED <<made, recent, failures, session>>
    BY <1>1 DEF CountAttempt
<1>3. w \in VisitRecord /\ w.phase = "recording"
    BY <1>1, TypesHold DEF VisitRecord, VisitPhases
<1>4. QED
    BY <1>2, <1>3, CountCases, TypesHold, VisitMoves

LEMMA RecordFailureInv ==
    ASSUME SignInInv, NEW v \in Visits, RecordFailure(v)
    PROVE  SignInInv'
<1>1. Leave(v) /\ UNCHANGED <<code, made, recent, session>> /\ failures' \in Nat /\ recent' \in Nat
    BY TypesHold DEF RecordFailure
<1>2. QED
    BY <1>1, CodesStay, VisitLeaves

(***************************************************************************)
(* The one step that opens a session: nobody has one by its code yet, since*)
(* the code of every session is used up.                                   *)
(***************************************************************************)
LEMMA RedeemInv ==
    ASSUME SignInInv, NEW v \in Visits, Redeem(v)
    PROVE  SignInInv'
<1>1. PICK c \in Codes : c = visit[v].code /\ code[c].st # "unmade"
    BY DEF Redeem, SignInInv, HasCode
<1>2. Leave(v) /\ UNCHANGED <<made, recent>>
    BY DEF Redeem
<1>3. CASE UNCHANGED <<code, failures, session>>
    BY <1>2, <1>3, CodesStay, TypesHold, VisitLeaves
<1>4. CASE /\ StillUnused(c)
           /\ code' = [Used(Codes) EXCEPT ![c].st = "used"]
           /\ failures' = 0
           /\ \E s \in Sessions : session' = [session EXCEPT ![s] = [st |-> "fresh", by |-> c]]
  <2>1. PICK s \in Sessions : session' = [session EXCEPT ![s] = [st |-> "fresh", by |-> c]]
    BY <1>4
  <2>2. PICK used : used = Used(Codes)
    OBVIOUS
  <2>3. used \in [Codes -> CodeRecord]
        /\ \A d \in Codes : /\ code[d].st # "open" => used[d] = code[d]
                            /\ code[d].st = "open" => used[d].st \in {"open", "used"}
    BY <2>2, UsedType
  <2>4. code' = [used EXCEPT ![c].st = "used"]
    BY <1>4, <2>2
  <2>5. code' \in [Codes -> CodeRecord] /\ code'[c].st = "used"
        /\ \A d \in Codes \ {c} : code'[d] = used[d]
    BY <2>3, <2>4 DEF CodeRecord, CodeStates
  <2>6. SignInOnwards
    BY <1>1, <2>3, <2>5 DEF SignInOnwards
  <2>7. \A u \in Visits : visit'[u] = IF u = v THEN NoVisit ELSE visit[u]
    BY <1>2, TypesHold DEF Leave
  <2>8. SignInTypeOK'
    <3>1. session' \in [Sessions -> [st : SessionStates, by : Codes \cup {NoCode}]]
        BY <2>1, TypesHold DEF SessionStates
    <3>2. visit' \in [Visits -> VisitRecord]
        BY <1>2, NoVisitType, TypesHold DEF Leave
    <3>3. QED
        BY <1>2, <1>4, <2>5, <3>1, <3>2, TypesHold DEF SignInTypeOK, CodeRecord, VisitRecord
  <2>9. HasCode' /\ NoneAhead'
    BY <1>2, <2>6, <2>7, NoVisitType DEF SignInInv, HasCode, NoneAhead, SignInOnwards
  <2>10. \A t \in Sessions : session[t].by # c
    <3>1. c # NoCode
        BY SignInAssumption DEF Codes, NoCode
    <3>2. QED
        BY <1>4, <3>1 DEF StillUnused, SignInInv, OpenedByUsed
  <2>11. \A t \in Sessions : session'[t].by = IF t = s THEN c ELSE session[t].by
    BY <2>1, TypesHold
  <2>12. OpenedByUsed' /\ CodeOpensOneSession'
    BY <2>5, <2>6, <2>10, <2>11 DEF SignInInv, OpenedByUsed, CodeOpensOneSession, SignInOnwards
  <2>13. QED
    BY <2>8, <2>9, <2>12 DEF SignInInv
<1>5. QED
    BY <1>1, <1>3, <1>4 DEF Redeem

-----------------------------------------------------------------------------
LEMMA RequireAccountInv ==
    ASSUME SignInInv, NEW v \in Visits, NEW s \in Sessions, RequireAccount(v, s)
    PROVE  SignInInv'
<1>1. PICK w : w = [visit[v] EXCEPT !.phase = "extending", !.session = {s}]
    OBVIOUS
<1>2. visit' = [visit EXCEPT ![v] = w] /\ UNCHANGED <<code, made, recent, failures, session>>
    BY <1>1 DEF RequireAccount
<1>3. w \in VisitRecord /\ w.phase = "extending"
    BY <1>1, TypesHold DEF VisitRecord, VisitPhases
<1>4. QED
    BY <1>2, <1>3, CodesStay, TypesHold, VisitMoves

LEMMA ExtendSessionInv ==
    ASSUME SignInInv, NEW v \in Visits, ExtendSession(v)
    PROVE  SignInInv'
<1>1. /\ session' \in [Sessions -> [st : SessionStates, by : Codes \cup {NoCode}]]
      /\ \A s \in Sessions : session'[s].by = session[s].by
    BY TypesHold DEF ExtendSession, Extended, SessionStates
<1>2. visit' = [visit EXCEPT ![v] = NoVisit] /\ UNCHANGED <<code, made, recent, failures>>
    BY DEF ExtendSession, Leave
<1>3. \A u \in Visits : visit'[u] = IF u = v THEN NoVisit ELSE visit[u]
    BY <1>2, TypesHold
<1>4. SignInTypeOK'
    BY <1>1, <1>2, NoVisitType, TypesHold DEF SignInTypeOK, CodeRecord, VisitRecord
<1>5. HasCode' /\ NoneAhead'
    BY <1>2, <1>3, NoVisitType DEF SignInInv, HasCode, NoneAhead
<1>6. OpenedByUsed' /\ CodeOpensOneSession'
    BY <1>1, <1>2 DEF SignInInv, OpenedByUsed, CodeOpensOneSession
<1>7. QED
    BY <1>4, <1>5, <1>6 DEF SignInInv

LEMMA EndSessionsInv ==
    ASSUME SignInInv, NEW gone, EndSessions(gone)
    PROVE  SignInInv'
<1>1. /\ session' \in [Sessions -> [st : SessionStates, by : Codes \cup {NoCode}]]
      /\ \A s \in Sessions : session'[s].by = session[s].by
    BY TypesHold DEF EndSessions, SessionStates
<1>2. UNCHANGED <<code, made, recent, failures, visit>>
    BY DEF EndSessions
<1>3. QED
    BY <1>1, <1>2, CodesStay, TypesHold, SessionsEnd

LEMMA SessionAgesInv ==
    ASSUME SignInInv, NEW s \in Sessions, SessionAges(s)
    PROVE  SignInInv'
<1>1. /\ session' \in [Sessions -> [st : SessionStates, by : Codes \cup {NoCode}]]
      /\ \A t \in Sessions : session'[t].by = session[t].by
    BY TypesHold DEF SessionAges, SessionStates
<1>2. UNCHANGED <<code, made, recent, failures, visit>>
    BY DEF SessionAges
<1>3. QED
    BY <1>1, <1>2, CodesStay, TypesHold, SessionsEnd

LEMMA CodeExpiresInv ==
    ASSUME SignInInv, NEW c \in Codes, CodeExpires(c)
    PROVE  SignInInv'
<1>1. SignInOnwards
    BY TypesHold DEF CodeExpires, SignInOnwards, CodeRecord, CodeStates
<1>2. UNCHANGED <<made, recent, failures, session, visit>>
    BY DEF CodeExpires
<1>3. QED
    BY <1>1, <1>2, TypesHold, SessionsEnd

LEMMA WindowsInv ==
    ASSUME SignInInv, RequestWindowSlides \/ FailureWindowSlides
    PROVE  SignInInv'
<1>1. UNCHANGED <<code, made, session, visit>> /\ recent' \in Nat /\ failures' \in Nat
    BY TypesHold DEF RequestWindowSlides, FailureWindowSlides
<1>2. QED
    BY <1>1, CodesStay, TypesHold, SessionsEnd

LEMMA SignInStays ==
    ASSUME SignInInv, UNCHANGED signInVars
    PROVE  SignInInv'
BY CodesStay, TypesHold, SessionsEnd DEF signInVars

LEMMA NextSignIn == SignInInv /\ [SignInNext]_signInVars => SignInInv'
<1> SUFFICES ASSUME SignInInv, [SignInNext]_signInVars PROVE SignInInv'
    OBVIOUS
<1>1. CASE SignInNext
    BY <1>1, RequestCodeInv, SupersedeInv, MakeCodeInv, VerifyInv, PickInv, CountAttemptInv,
       RecordFailureInv, RedeemInv, RequireAccountInv, ExtendSessionInv, EndSessionsInv,
       SessionAgesInv, CodeExpiresInv, WindowsInv DEF SignInNext, Logout, RevokeAll
<1>2. QED
    BY <1>1, SignInStays

-----------------------------------------------------------------------------
(***************************************************************************)
(* Codes, sessions and requests keep their types.                          *)
(***************************************************************************)
THEOREM SignInTypes == SignInSpec => []SignInTypeOK
<1>1. SignInInv => SignInTypeOK
    BY DEF SignInInv
<1>2. QED
    BY <1>1, InitSignIn, NextSignIn, PTL DEF SignInSpec

(***************************************************************************)
(* However many verifications of one code overlap, it opens one session.   *)
(***************************************************************************)
THEOREM OneSessionPerCode == SignInSpec => []CodeOpensOneSession
<1>1. SignInInv => CodeOpensOneSession
    BY DEF SignInInv
<1>2. QED
    BY <1>1, InitSignIn, NextSignIn, PTL DEF SignInSpec

(***************************************************************************)
(* No request brings back a session that was ended.                        *)
(***************************************************************************)
LEMMA GoneStays ==
    ASSUME SignInInv, [SignInNext]_signInVars
    PROVE  \A s \in Sessions : session[s].st = "gone" => session'[s].st = "gone"
<1> SUFFICES ASSUME NEW s \in Sessions, session[s].st = "gone" PROVE session'[s].st = "gone"
    OBVIOUS
<1>1. CASE UNCHANGED session
    BY <1>1
<1>2. ASSUME NEW v \in Visits, Redeem(v) PROVE session'[s].st = "gone"
    BY <1>2, TypesHold DEF Redeem
<1>3. ASSUME NEW v \in Visits, ExtendSession(v) PROVE session'[s].st = "gone"
    BY <1>3 DEF ExtendSession, Extended
<1>4. ASSUME NEW gone, EndSessions(gone) PROVE session'[s].st = "gone"
    BY <1>4, TypesHold DEF EndSessions
<1>5. ASSUME NEW t \in Sessions, SessionAges(t) PROVE session'[s].st = "gone"
    BY <1>5, TypesHold DEF SessionAges, Live
<1>6. CASE SignInNext
    BY <1>1, <1>2, <1>3, <1>4, <1>5, <1>6
       DEF SignInNext, RequestCode, Supersede, MakeCode, Verify, Pick, CountAttempt,
           RecordFailure, RequireAccount, Logout, RevokeAll, CodeExpires, RequestWindowSlides,
           FailureWindowSlides
<1>7. QED
    BY <1>1, <1>6 DEF signInVars

THEOREM EndedSessionsStay == SignInSpec => EndedStaysEnded
<1>1. SignInInv /\ [SignInNext]_signInVars =>
          [\A s \in Sessions : session[s].st = "gone" => session'[s].st = "gone"]_signInVars
    BY GoneStays
<1>2. QED
    BY <1>1, InitSignIn, NextSignIn, PTL DEF SignInSpec, EndedStaysEnded
-----------------------------------------------------------------------------
(***************************************************************************)
(* The bound on the guesses of a code.  Between its comparison and its     *)
(* count a wrong guess is a request in "counting": the guesses of a code   *)
(* are its counted attempts and those requests, and none is added once     *)
(* MaxAttempts are counted.                                                *)
(***************************************************************************)
Pending(vs, c) == {v \in Visits : vs[v].phase = "counting" /\ vs[v].code = c}

GuessInv ==
    \A c \in Codes : /\ code[c].guessed = code[c].tries + Cardinality(Pending(visit, c))
                     /\ code[c].guessed <= MaxAttempts + Cardinality(Visits) - 1

LEMMA PendingFinite ==
    ASSUME NEW vs, NEW c
    PROVE  /\ IsFiniteSet(Pending(vs, c)) /\ Cardinality(Pending(vs, c)) \in Nat
           /\ Cardinality(Visits) \in Nat
           /\ Cardinality(Pending(vs, c)) <= Cardinality(Visits)
<1>1. Pending(vs, c) \subseteq Visits
    BY DEF Pending
<1>2. QED
    BY <1>1, SignInAssumption, FS_Subset, FS_CardinalityType

LEMMA InitGuesses == SignInInit => GuessInv
<1> SUFFICES ASSUME SignInInit, NEW c \in Codes
             PROVE  /\ code[c].guessed = code[c].tries + Cardinality(Pending(visit, c))
                    /\ code[c].guessed <= MaxAttempts + Cardinality(Visits) - 1
    BY DEF GuessInv
<1>1. Pending(visit, c) = {}
    BY NoVisitType DEF SignInInit, Pending
<1>2. Cardinality(Pending(visit, c)) = 0
    BY <1>1, FS_EmptySet
<1>3. code[c].guessed = 0 /\ code[c].tries = 0
    BY DEF SignInInit
<1>4. MaxAttempts \in Nat \ {0}
    BY SignInAssumption
<1>5. QED
    BY <1>2, <1>3, <1>4, PendingFinite

\* A step that neither compares nor counts a guess.
Quiet ==
    /\ \A c \in Codes : code'[c].tries = code[c].tries /\ code'[c].guessed = code[c].guessed
    /\ \A u \in Visits : \/ visit'[u] = visit[u]
                         \/ visit'[u].phase # "counting" /\ visit[u].phase # "counting"

LEMMA QuietKeepsGuesses ==
    ASSUME GuessInv, Quiet
    PROVE  GuessInv'
<1>1. \A c \in Codes : Pending(visit', c) = Pending(visit, c)
    BY DEF Quiet, Pending
<1>2. QED
    BY <1>1 DEF GuessInv, Quiet

LEMMA MovesQuietly ==
    ASSUME SignInInv, NEW v \in Visits, NEW w, visit' = [visit EXCEPT ![v] = w],
           visit[v].phase # "counting", w.phase # "counting",
           \A c \in Codes : code'[c].tries = code[c].tries /\ code'[c].guessed = code[c].guessed
    PROVE  Quiet
BY TypesHold DEF Quiet

LEMMA QuietSteps ==
    ASSUME SignInInv, NEW v \in Visits,
           \/ RequestCode(v) \/ Supersede(v) \/ MakeCode(v) \/ Verify(v) \/ RecordFailure(v)
           \/ Redeem(v) \/ ExtendSession(v) \/ \E s \in Sessions : RequireAccount(v, s)
    PROVE  Quiet
<1>1. CASE RequestCode(v)
  <2>1. PICK w : w = [visit[v] EXCEPT !.phase = "superseding"]
    OBVIOUS
  <2>2. visit' = [visit EXCEPT ![v] = w] /\ visit[v].phase = "idle" /\ UNCHANGED code
    BY <1>1, <2>1 DEF RequestCode
  <2>3. w.phase # "counting"
    BY <2>1, TypesHold DEF VisitRecord
  <2>4. QED
    BY <2>2, <2>3, MovesQuietly
<1>2. CASE Supersede(v)
  <2>1. PICK w : w = [visit[v] EXCEPT !.phase = "inserting", !.code = made + 1, !.seen = OpenCodes]
    OBVIOUS
  <2>2. visit' = [visit EXCEPT ![v] = w] /\ visit[v].phase = "superseding" /\ UNCHANGED code
    BY <1>2, <2>1 DEF Supersede
  <2>3. w.phase # "counting"
    BY <2>1, TypesHold DEF VisitRecord
  <2>4. QED
    BY <2>2, <2>3, MovesQuietly
<1>3. CASE MakeCode(v)
  <2>1. PICK used : used = Used(visit[v].seen)
    OBVIOUS
  <2>2. PICK c \in Codes : code' = [used EXCEPT ![c].st = "open"]
    BY <1>3, <2>1 DEF MakeCode, SignInInv, HasCode
  <2>3. used \in [Codes -> CodeRecord]
        /\ \A d \in Codes : used[d].tries = code[d].tries /\ used[d].guessed = code[d].guessed
    BY <2>1, UsedType
  <2>4. \A d \in Codes : code'[d].tries = code[d].tries /\ code'[d].guessed = code[d].guessed
    BY <2>2, <2>3 DEF CodeRecord
  <2>5. QED
    BY <1>3, <2>4, MovesQuietly, NoVisitType DEF MakeCode, Leave
<1>4. CASE Verify(v)
  <2>1. PICK w : w = [visit[v] EXCEPT !.phase = "picking"]
    OBVIOUS
  <2>2. visit' = [visit EXCEPT ![v] = w] /\ visit[v].phase = "idle" /\ UNCHANGED code
    BY <1>4, <2>1 DEF Verify
  <2>3. w.phase # "counting"
    BY <2>1, TypesHold DEF VisitRecord
  <2>4. QED
    BY <2>2, <2>3, MovesQuietly
<1>5. CASE RecordFailure(v)
    BY <1>5, MovesQuietly, NoVisitType DEF RecordFailure, Leave
<1>6. CASE Redeem(v)
  <2>1. \A d \in Codes : code'[d].tries = code[d].tries /\ code'[d].guessed = code[d].guessed
    <3>1. PICK used : used = Used(Codes)
        OBVIOUS
    <3>2. PICK c \in Codes : UNCHANGED code \/ code' = [used EXCEPT ![c].st = "used"]
        BY <1>6, <3>1 DEF Redeem, SignInInv, HasCode
    <3>3. used \in [Codes -> CodeRecord]
          /\ \A d \in Codes : used[d].tries = code[d].tries /\ used[d].guessed = code[d].guessed
        BY <3>1, UsedType
    <3>4. QED
        BY <3>2, <3>3 DEF CodeRecord
  <2>2. QED
    BY <1>6, <2>1, MovesQuietly, NoVisitType DEF Redeem, Leave
<1>7. CASE ExtendSession(v)
    BY <1>7, MovesQuietly, NoVisitType DEF ExtendSession, Leave
<1>8. CASE \E s \in Sessions : RequireAccount(v, s)
  <2>1. PICK s \in Sessions : RequireAccount(v, s)
    BY <1>8
  <2>2. PICK w : w = [visit[v] EXCEPT !.phase = "extending", !.session = {s}]
    OBVIOUS
  <2>3. visit' = [visit EXCEPT ![v] = w] /\ visit[v].phase = "idle" /\ UNCHANGED code
    BY <2>1, <2>2 DEF RequireAccount
  <2>4. w.phase # "counting"
    BY <2>2, TypesHold DEF VisitRecord
  <2>5. QED
    BY <2>3, <2>4, MovesQuietly
<1>9. QED
    BY <1>1, <1>2, <1>3, <1>4, <1>5, <1>6, <1>7, <1>8

\* A wrong guess is compared only below the limit, and is pending from then on.
LEMMA PickGuesses ==
    ASSUME SignInInv, GuessInv, NEW v \in Visits, Pick(v)
    PROVE  GuessInv'
<1>0. visit[v].phase = "picking"
    BY DEF Pick
<1>1. CASE Leave(v) /\ UNCHANGED code
    BY <1>0, <1>1, MovesQuietly, NoVisitType, QuietKeepsGuesses DEF Leave
<1>2. CASE \E c \in OpenCodes : Leave(v) /\ code' = Used({c})
  <2>1. \A d \in Codes : code'[d].tries = code[d].tries /\ code'[d].guessed = code[d].guessed
    BY <1>2, UsedType
  <2>2. QED
    BY <1>0, <1>2, <2>1, MovesQuietly, NoVisitType, QuietKeepsGuesses DEF Leave
<1>3. CASE \E c \in OpenCodes, w \in VisitRecord :
                    /\ visit' = [visit EXCEPT ![v] = w]
                    /\ w.phase = "redeeming" /\ UNCHANGED code
    BY <1>0, <1>3, MovesQuietly, QuietKeepsGuesses
<1>4. CASE \E c \in OpenCodes, w \in VisitRecord :
                    /\ code[c].tries < MaxAttempts
                    /\ visit' = [visit EXCEPT ![v] = w] /\ w.code = c
                    /\ w.phase = "counting" /\ Compared(c)
  <2>1. PICK c \in OpenCodes, w \in VisitRecord :
                    /\ code[c].tries < MaxAttempts
                    /\ visit' = [visit EXCEPT ![v] = w] /\ w.code = c
                    /\ w.phase = "counting" /\ Compared(c)
    BY <1>4
  <2>2. c \in Codes
    BY DEF OpenCodes
  <2>3. \A u \in Visits : visit'[u] = IF u = v THEN w ELSE visit[u]
    BY <2>1, TypesHold
  <2>4. Pending(visit', c) = Pending(visit, c) \cup {v} /\ v \notin Pending(visit, c)
    BY <1>0, <2>1, <2>3 DEF Pending
  <2>5. Cardinality(Pending(visit', c)) = Cardinality(Pending(visit, c)) + 1
    BY <2>4, PendingFinite, FS_AddElement
  <2>6. \A d \in Codes \ {c} : Pending(visit', d) = Pending(visit, d)
    BY <1>0, <2>1, <2>3 DEF Pending
  <2>7. \A d \in Codes : /\ code'[d].tries = code[d].tries
                         /\ code'[d].guessed = IF d = c THEN code[d].guessed + 1
                                                        ELSE code[d].guessed
    BY <2>1, <2>2, ComparedOnwards
  <2>8. code[c].tries \in Nat /\ code[c].guessed \in Nat /\ MaxAttempts \in Nat
    BY <2>2, TypesHold, SignInAssumption DEF CodeRecord
  <2>9. /\ code'[c].guessed = code'[c].tries + Cardinality(Pending(visit', c))
        /\ code'[c].guessed <= MaxAttempts + Cardinality(Visits) - 1
    <3>1. code[c].guessed = code[c].tries + Cardinality(Pending(visit, c))
        BY <2>2 DEF GuessInv
    <3>2. QED
        BY <2>1, <2>2, <2>5, <2>7, <2>8, <3>1, PendingFinite
  <2>10. QED
    BY <2>6, <2>7, <2>9 DEF GuessInv
<1>5. QED
    BY <1>1, <1>2, <1>3, <1>4, PickCases

\* A guess that is counted is pending no more.
LEMMA CountGuesses ==
    ASSUME SignInInv, GuessInv, NEW v \in Visits, CountAttempt(v)
    PROVE  GuessInv'
<1>1. PICK c \in Codes : c = visit[v].code
    BY CountCases
<1>2. PICK w : w = [visit[v] EXCEPT !.phase = "recording"]
    OBVIOUS
<1>3. visit' = [visit EXCEPT ![v] = w] /\ visit[v].phase = "counting"
    BY <1>2 DEF CountAttempt
<1>4. w.phase = "recording"
    BY <1>2, TypesHold DEF VisitRecord
<1>5. \A u \in Visits : visit'[u] = IF u = v THEN w ELSE visit[u]
    BY <1>3, TypesHold
<1>6. Pending(visit', c) = Pending(visit, c) \ {v} /\ v \in Pending(visit, c)
    BY <1>1, <1>3, <1>4, <1>5 DEF Pending
<1>7. Cardinality(Pending(visit', c)) = Cardinality(Pending(visit, c)) - 1
    BY ZenonT(40), <1>6, PendingFinite, FS_RemoveElement
<1>8. \A d \in Codes \ {c} : Pending(visit', d) = Pending(visit, d)
    BY <1>1, <1>3, <1>4, <1>5 DEF Pending
<1>9. \A d \in Codes : /\ code'[d].guessed = code[d].guessed
                       /\ code'[d].tries = IF d = c THEN code[d].tries + 1 ELSE code[d].tries
    BY <1>1, CountCases
<1>10. code[c].tries \in Nat /\ code[c].guessed \in Nat
    BY TypesHold DEF CodeRecord
<1>11. code'[c].guessed = code'[c].tries + Cardinality(Pending(visit', c))
  <2>1. code[c].guessed = code[c].tries + Cardinality(Pending(visit, c))
    BY DEF GuessInv
  <2>2. QED
    BY <1>7, <1>9, <1>10, <2>1, PendingFinite
<1>12. QED
    BY <1>8, <1>9, <1>11 DEF GuessInv

LEMMA NextGuesses == SignInInv /\ GuessInv /\ [SignInNext]_signInVars => GuessInv'
<1> SUFFICES ASSUME SignInInv, GuessInv, [SignInNext]_signInVars PROVE GuessInv'
    OBVIOUS
<1>1. CASE UNCHANGED <<code, visit>>
    BY <1>1, QuietKeepsGuesses DEF Quiet
<1>2. ASSUME NEW c \in Codes, CodeExpires(c) PROVE GuessInv'
  <2>1. \A d \in Codes : code'[d].tries = code[d].tries /\ code'[d].guessed = code[d].guessed
    BY <1>2, TypesHold DEF CodeExpires, CodeRecord
  <2>2. QED
    BY <1>2, <2>1, QuietKeepsGuesses DEF CodeExpires, Quiet
<1>3. CASE SignInNext
    BY <1>1, <1>2, <1>3, QuietSteps, QuietKeepsGuesses, PickGuesses, CountGuesses
       DEF SignInNext, Logout, RevokeAll, EndSessions, SessionAges, RequestWindowSlides,
           FailureWindowSlides
<1>4. QED
    BY <1>1, <1>3 DEF signInVars

(***************************************************************************)
(* No code is compared with more wrong guesses than MaxAttempts and one    *)
(* for each further request in flight.                                     *)
(***************************************************************************)
THEOREM GuessesAreBounded == SignInSpec => []GuessesBounded
<1>1. GuessInv => GuessesBounded
    BY DEF GuessInv, GuessesBounded
<1>2. QED
    BY <1>1, InitSignIn, NextSignIn, InitGuesses, NextGuesses, PTL DEF SignInSpec

-----------------------------------------------------------------------------
(* The second factor *)

StepRecord == [phase : StepPhases, proved : Secrets \cup {NoSecret}, device : SUBSET Devices,
               codes : SUBSET Issued]

\* A request carries a recovery code only from the moment it spends one.
CodesOK(s) == /\ s.phase \in {"idle", "failing"} => s.codes = {}
              /\ s.phase = "spending" => \E c \in Issued : s.codes = {c}

CarriedOK == \A r \in Steps : CodesOK(step[r])

\* A code that stepped a session up is not on file any more, and none is of an enrolment
\* to come.
SpentGone ==
    \A r \in Steps : \A c \in step[r].codes :
        /\ c.of <= generated
        /\ step[r].phase # "spending" => ~Unused(c)

OnFile == recovery.of <= generated

FactorInv == FactorTypeOK /\ CarriedOK /\ SpentGone /\ OnFile /\ RecoveryFitsFactor
             /\ RecoveryCodeOnce

LEMMA FactorTypes ==
    ASSUME FactorInv
    PROVE  /\ step \in [Steps -> StepRecord] /\ generated \in 0..MaxSecrets /\ generated \in Nat
           /\ factor \in [secret : Secrets \cup {NoSecret}, confirmed : BOOLEAN]
           /\ recovery \in [of : Secrets \cup {NoSecret}, unused : SUBSET RecoveryCodes]
           /\ mfaFailures \in Nat /\ stamp \in [Devices -> {"never", "fresh", "stale"}]
           /\ Secrets \subseteq Nat /\ NoSecret \notin Secrets /\ NoSecret \in Nat
BY SecondFactorAssumption DEF FactorInv, FactorTypeOK, StepRecord, Secrets, NoSecret

LEMMA InitFactor == FactorInit => FactorInv
<1> SUFFICES ASSUME FactorInit PROVE FactorInv
    OBVIOUS
<1>1. NoStep \in StepRecord /\ NoStep.phase = "idle" /\ NoStep.codes = {}
    BY DEF NoStep, StepRecord, StepPhases
<1>2. 1 \in Secrets /\ 1 \in 0..MaxSecrets /\ 0 \in 0..MaxSecrets
    BY SecondFactorAssumption DEF Secrets
<1>3. FactorTypeOK
  <2>1. step \in [Steps -> StepRecord] /\ mfaFailures \in Nat
        /\ stamp \in [Devices -> {"never", "fresh", "stale"}]
    BY <1>1 DEF FactorInit
  <2>2. CASE factor = NotEnrolled /\ recovery = NoRecovery /\ generated = 0
    BY <1>2, <2>1, <2>2 DEF FactorTypeOK, NotEnrolled, NoRecovery, StepRecord
  <2>3. CASE /\ factor = [secret |-> 1, confirmed |-> TRUE]
             /\ recovery = [of |-> 1, unused |-> RecoveryCodes]
             /\ generated = 1
    BY <1>2, <2>1, <2>3 DEF FactorTypeOK, StepRecord
  <2>4. QED
    BY <2>2, <2>3 DEF FactorInit
<1>4. OnFile /\ RecoveryFitsFactor
    BY DEF FactorInit, NotEnrolled, NoRecovery, NoSecret, OnFile, RecoveryFitsFactor
<1>5. CarriedOK /\ SpentGone /\ RecoveryCodeOnce
    BY <1>1 DEF FactorInit, CarriedOK, CodesOK, SpentGone, RecoveryCodeOnce, Stepped
<1>6. QED
    BY <1>3, <1>4, <1>5 DEF FactorInv

-----------------------------------------------------------------------------
\* What the steps that spend nothing may do to the factor and its codes.
FactorOnwards ==
    /\ generated' \in 0..MaxSecrets /\ generated <= generated'
    /\ factor' \in [secret : Secrets \cup {NoSecret}, confirmed : BOOLEAN]
    /\ recovery' \in [of : Secrets \cup {NoSecret}, unused : SUBSET RecoveryCodes]
    /\ recovery'.of = factor'.secret /\ recovery'.of <= generated'
    /\ \A c \in Issued : c.of <= generated /\ ~Unused(c) => ~Unused(c)'

LEMMA FileStays ==
    ASSUME FactorInv, recovery' = recovery, generated' = generated,
           factor' \in [secret : Secrets \cup {NoSecret}, confirmed : BOOLEAN],
           factor'.secret = factor.secret
    PROVE  FactorOnwards
BY FactorTypes DEF FactorOnwards, FactorInv, OnFile, RecoveryFitsFactor, Unused

\* A request moves on with the codes it carries, which it has spent if it has any.
LEMMA StepMoves ==
    ASSUME FactorInv, NEW r \in Steps, NEW s \in StepRecord, step' = [step EXCEPT ![r] = s],
           FactorOnwards, step[r].phase # "spending", s.codes = step[r].codes,
           s.phase # "spending", s.phase \in {"idle", "failing"} => s.codes = {},
           mfaFailures' \in Nat, stamp' \in [Devices -> {"never", "fresh", "stale"}]
    PROVE  FactorInv'
<1>1. \A u \in Steps : step'[u] = IF u = r THEN s ELSE step[u]
    BY FactorTypes
<1>2. FactorTypeOK'
    BY FactorTypes DEF FactorTypeOK, FactorOnwards, StepRecord
<1>3. CarriedOK'
    BY <1>1 DEF FactorInv, CarriedOK, CodesOK
<1>4. SpentGone'
  <2>1. \A u \in Steps : step'[u].codes = step[u].codes /\ step[u].codes \subseteq Issued
        /\ (step'[u].phase # "spending" => step[u].phase # "spending")
    BY <1>1, FactorTypes DEF StepRecord
  <2>2. ASSUME NEW u \in Steps, NEW c \in step[u].codes
        PROVE  /\ c.of <= generated'
               /\ step'[u].phase # "spending" => ~Unused(c)'
    <3>1. c \in Issued /\ c.of \in Nat /\ c.of <= generated
        BY <2>1, FactorTypes DEF FactorInv, SpentGone, Issued
    <3>2. generated \in Nat /\ generated' \in Nat /\ generated <= generated'
        BY FactorTypes, SecondFactorAssumption DEF FactorOnwards
    <3>3. QED
        BY <2>1, <3>1, <3>2 DEF FactorInv, SpentGone, FactorOnwards
  <2>3. QED
    BY <2>1, <2>2 DEF SpentGone
<1>5. OnFile' /\ RecoveryFitsFactor'
    BY DEF FactorOnwards, OnFile, RecoveryFitsFactor
<1>6. RecoveryCodeOnce'
  <2>1. \A u \in Steps : Stepped(u)' \subseteq Stepped(u)
    BY <1>1 DEF Stepped, FactorInv, CarriedOK, CodesOK
  <2>2. QED
    BY <2>1 DEF FactorInv, RecoveryCodeOnce
<1>7. QED
    BY <1>2, <1>3, <1>4, <1>5, <1>6 DEF FactorInv

LEMMA GoType ==
    ASSUME FactorInv, NEW r \in Steps, NEW phase \in StepPhases,
           NEW proved \in Secrets \cup {NoSecret}, Go(r, phase, proved)
    PROVE  \E s \in StepRecord : /\ step' = [step EXCEPT ![r] = s] /\ s.phase = phase
                                 /\ s.codes = step[r].codes
<1>1. PICK s : s = [step[r] EXCEPT !.phase = phase, !.proved = proved]
    OBVIOUS
<1>2. step' = [step EXCEPT ![r] = s]
    BY <1>1 DEF Go
<1>3. s \in StepRecord /\ s.phase = phase /\ s.codes = step[r].codes
    BY ZenonT(40), <1>1, FactorTypes DEF StepRecord
<1>4. QED
    BY <1>2, <1>3

LEMMA GoMoves ==
    ASSUME FactorInv, NEW r \in Steps, NEW phase \in StepPhases \ {"idle", "spending"},
           NEW proved \in Secrets \cup {NoSecret}, Go(r, phase, proved), FactorOnwards,
           step[r].phase # "spending", phase = "failing" => step[r].phase = "idle",
           mfaFailures' \in Nat, stamp' \in [Devices -> {"never", "fresh", "stale"}]
    PROVE  FactorInv'
<1>1. PICK s \in StepRecord : /\ step' = [step EXCEPT ![r] = s] /\ s.phase = phase
                              /\ s.codes = step[r].codes
    BY GoType
<1>2. phase = "failing" => s.codes = {}
    BY <1>1 DEF FactorInv, CarriedOK, CodesOK
<1>3. QED
    BY <1>1, <1>2, StepMoves

-----------------------------------------------------------------------------
LEMMA CheckInv ==
    ASSUME FactorInv, NEW r \in Steps, NEW phase \in StepPhases \ {"idle", "spending", "failing"},
           step[r].phase = "idle", Check(r, phase)
    PROVE  FactorInv'
<1>1. FactorOnwards /\ mfaFailures' \in Nat /\ stamp' \in [Devices -> {"never", "fresh", "stale"}]
    BY FactorTypes, FileStays DEF Check
<1>2. factor.secret \in Secrets \cup {NoSecret} /\ "failing" \in StepPhases
    BY FactorTypes DEF StepPhases
<1>3. QED
    BY <1>1, <1>2, GoMoves DEF Check

LEMMA RotateInv ==
    ASSUME FactorInv, NEW r \in Steps, Rotate(r)
    PROVE  FactorInv'
<1>1. step[r].phase = "idle" /\ "enrolling" \in StepPhases
    BY DEF Rotate, StepPhases
<1>2. CASE Check(r, "enrolling")
    BY <1>1, <1>2, CheckInv
<1>3. CASE /\ Go(r, "enrolling", NoSecret)
           /\ UNCHANGED <<factor, recovery, generated, mfaFailures, stamp>>
    BY <1>1, <1>3, FactorTypes, FileStays, GoMoves
<1>4. QED
    BY <1>2, <1>3 DEF Rotate

\* The codes of a new enrolment are none that was ever issued.
LEMMA EnrollTotpInv ==
    ASSUME FactorInv, NEW r \in Steps, EnrollTotp(r)
    PROVE  FactorInv'
<1>1. generated < MaxSecrets /\ generated' = generated + 1 /\ MaxSecrets \in Nat
      /\ factor' = [secret |-> generated + 1, confirmed |-> FALSE]
      /\ recovery' = [of |-> generated + 1, unused |-> RecoveryCodes]
    BY SecondFactorAssumption DEF EnrollTotp, Enrolled
<1>2. generated + 1 \in Secrets /\ generated \in Nat
    BY <1>1, FactorTypes DEF Secrets
<1>3. \A c \in Issued : c.of <= generated => c.of # generated + 1
    BY <1>2, FactorTypes DEF Issued
<1>4. \A c \in Issued : c.of <= generated => ~Unused(c)'
    BY <1>1, <1>3 DEF Unused
<1>5. FactorOnwards
    BY <1>1, <1>2, <1>4 DEF FactorOnwards
<1>6. mfaFailures' = 0 /\ UNCHANGED stamp /\ Go(r, "done", NoSecret)
      /\ step[r].phase = "enrolling"
    BY DEF EnrollTotp
<1>7. QED
    BY <1>5, <1>6, GoMoves, FactorTypes DEF StepPhases

LEMMA ConfirmInv ==
    ASSUME FactorInv, NEW r \in Steps, Confirm(r)
    PROVE  FactorInv'
BY CheckInv DEF Confirm, StepPhases

LEMMA SetConfirmedInv ==
    ASSUME FactorInv, NEW r \in Steps, SetConfirmed(r)
    PROVE  FactorInv'
<1>1. step[r].phase = "confirming" /\ Go(r, "clearing", NoSecret)
      /\ factor' = [factor EXCEPT !.confirmed = Held]
      /\ UNCHANGED <<recovery, generated, mfaFailures, stamp>>
    BY DEF SetConfirmed
<1>2. Held \in BOOLEAN
    BY DEF Held
<1>3. factor' \in [secret : Secrets \cup {NoSecret}, confirmed : BOOLEAN]
      /\ factor'.secret = factor.secret
    BY <1>1, <1>2, FactorTypes
<1>4. QED
    BY <1>1, <1>3, FactorTypes, FileStays, GoMoves DEF StepPhases

LEMMA DisableInv ==
    ASSUME FactorInv, NEW r \in Steps, Disable(r)
    PROVE  FactorInv'
BY CheckInv DEF Disable, StepPhases

LEMMA DeleteFactorInv ==
    ASSUME FactorInv, NEW r \in Steps, DeleteFactor(r)
    PROVE  FactorInv'
<1>1. factor' = [secret |-> NoSecret, confirmed |-> FALSE]
      /\ recovery' = [of |-> NoSecret, unused |-> {}]
      /\ generated' = generated
    BY DEF DeleteFactor, NotEnrolled, NoRecovery
<1>2. \A c : ~Unused(c)'
    BY <1>1 DEF Unused
<1>3. FactorOnwards
    BY <1>1, <1>2, FactorTypes DEF FactorOnwards, NoSecret
<1>4. mfaFailures' = 0 /\ UNCHANGED stamp /\ Go(r, "done", NoSecret)
      /\ step[r].phase = "disabling"
    BY DEF DeleteFactor
<1>5. QED
    BY <1>3, <1>4, GoMoves, FactorTypes DEF StepPhases

LEMMA StepUpInv ==
    ASSUME FactorInv, NEW r \in Steps, NEW d \in Devices, StepUp(r, d)
    PROVE  FactorInv'
<1>1. step[r].phase = "idle" /\ FactorOnwards /\ mfaFailures' \in Nat
      /\ stamp' \in [Devices -> {"never", "fresh", "stale"}] /\ step[r].codes = {}
    BY FactorTypes, FileStays DEF StepUp, FactorInv, CarriedOK, CodesOK
<1>2. CASE step' = [step EXCEPT ![r].phase = "stamping", ![r].device = {d}]
  <2>1. PICK s : s = [step[r] EXCEPT !.phase = "stamping", !.device = {d}]
    OBVIOUS
  <2>2. s \in StepRecord /\ s.phase = "stamping" /\ s.codes = step[r].codes
    BY ZenonT(40), <2>1, FactorTypes DEF StepRecord, StepPhases
  <2>3. QED
    BY <1>1, <1>2, <2>1, <2>2, StepMoves
<1>3. CASE step' = [step EXCEPT ![r].phase = "failing"]
  <2>1. PICK s : s = [step[r] EXCEPT !.phase = "failing"]
    OBVIOUS
  <2>2. s \in StepRecord /\ s.phase = "failing" /\ s.codes = step[r].codes
    BY <2>1, FactorTypes DEF StepRecord, StepPhases
  <2>3. QED
    BY <1>1, <1>3, <2>1, <2>2, StepMoves
<1>4. QED
    BY <1>2, <1>3 DEF StepUp

LEMMA StepUpByRecoveryInv ==
    ASSUME FactorInv, NEW r \in Steps, NEW d \in Devices, NEW c \in Issued,
           StepUpByRecovery(r, d, c)
    PROVE  FactorInv'
<1>1. PICK s : s = [step[r] EXCEPT !.phase = "spending", !.device = {d}, !.codes = {c}]
    OBVIOUS
<1>2. step' = [step EXCEPT ![r] = s] /\ c.of <= generated
      /\ UNCHANGED <<factor, recovery, generated, mfaFailures, stamp>>
    BY <1>1 DEF StepUpByRecovery
<1>3. s \in StepRecord /\ s.phase = "spending" /\ s.codes = {c}
    BY ZenonT(40), <1>1, FactorTypes DEF StepRecord, StepPhases
<1>4. \A u \in Steps : step'[u] = IF u = r THEN s ELSE step[u]
    BY <1>2, FactorTypes
<1>5. FactorTypeOK'
    BY <1>2, <1>3, FactorTypes DEF FactorTypeOK, StepRecord
<1>6. CarriedOK' /\ SpentGone'
    BY <1>2, <1>3, <1>4 DEF FactorInv, CarriedOK, CodesOK, SpentGone, Unused
<1>7. OnFile' /\ RecoveryFitsFactor'
    BY <1>2 DEF FactorInv, OnFile, RecoveryFitsFactor
<1>8. RecoveryCodeOnce'
  <2>1. \A u \in Steps : Stepped(u)' \subseteq Stepped(u)
    BY <1>3, <1>4 DEF Stepped
  <2>2. QED
    BY <2>1 DEF FactorInv, RecoveryCodeOnce
<1>9. QED
    BY <1>5, <1>6, <1>7, <1>8 DEF FactorInv

(***************************************************************************)
(* The one step that spends a code: it was on file, so nobody has spent it.*)
(***************************************************************************)
LEMMA SpendRecoveryInv ==
    ASSUME FactorInv, NEW r \in Steps, SpendRecovery(r)
    PROVE  FactorInv'
<1>1. PICK c \in Issued : step[r].codes = {c}
    BY DEF SpendRecovery, FactorInv, CarriedOK, CodesOK
<1>2. step[r].phase = "spending" /\ UNCHANGED <<factor, generated, mfaFailures, stamp>>
    BY DEF SpendRecovery
<1>3. CASE /\ Unused(c)
           /\ recovery' = [recovery EXCEPT !.unused = recovery.unused \ {c.nr}]
           /\ step' = [step EXCEPT ![r].phase = "stamping"]
  <2>1. PICK s : s = [step[r] EXCEPT !.phase = "stamping"]
    OBVIOUS
  <2>2. s \in StepRecord /\ s.phase = "stamping" /\ s.codes = {c}
    BY <1>1, <2>1, FactorTypes DEF StepRecord, StepPhases
  <2>3. \A u \in Steps : step'[u] = IF u = r THEN s ELSE step[u]
    BY <1>3, <2>1, FactorTypes
  <2>4. recovery' \in [of : Secrets \cup {NoSecret}, unused : SUBSET RecoveryCodes]
        /\ recovery'.of = recovery.of /\ recovery'.unused = recovery.unused \ {c.nr}
    BY <1>3, FactorTypes
  <2>5. step' \in [Steps -> StepRecord]
    BY <1>3, <2>1, <2>2, FactorTypes
  <2>6. FactorTypeOK'
    BY <1>2, <2>4, <2>5, FactorTypes DEF FactorTypeOK, StepRecord
  <2>7. CarriedOK'
    BY <2>2, <2>3 DEF FactorInv, CarriedOK, CodesOK
  <2>8. ~Unused(c)' /\ \A e : ~Unused(e) => ~Unused(e)'
    BY <2>4 DEF Unused
  <2>9. SpentGone'
    BY <1>1, <1>2, <2>2, <2>3, <2>8 DEF FactorInv, SpentGone
  <2>10. OnFile' /\ RecoveryFitsFactor'
    BY <1>2, <2>4 DEF FactorInv, OnFile, RecoveryFitsFactor
  <2>11. \A u \in Steps : c \notin Stepped(u)
    BY <1>3 DEF FactorInv, SpentGone, Stepped
  <2>12. \A u \in Steps \ {r} : Stepped(u)' = Stepped(u)
    BY <2>3 DEF Stepped
  <2>13. Stepped(r)' = {c}
    BY <2>2, <2>3 DEF Stepped
  <2>14. RecoveryCodeOnce'
    <3>1. SUFFICES ASSUME NEW u \in Steps, NEW t \in Steps, u # t
                   PROVE  Stepped(u)' \cap Stepped(t)' = {}
        BY DEF RecoveryCodeOnce
    <3>2. CASE u # r /\ t # r
        BY <2>12, <3>1, <3>2 DEF FactorInv, RecoveryCodeOnce
    <3>3. CASE u = r
        BY <2>11, <2>12, <2>13, <3>1, <3>3
    <3>4. CASE t = r
        BY <2>11, <2>12, <2>13, <3>1, <3>4
    <3>5. QED
        BY <3>2, <3>3, <3>4
  <2>15. QED
    BY <2>6, <2>7, <2>9, <2>10, <2>14 DEF FactorInv
<1>4. CASE /\ step' = [step EXCEPT ![r].phase = "failing", ![r].codes = {}]
           /\ UNCHANGED recovery
  <2>1. PICK s : s = [step[r] EXCEPT !.phase = "failing", !.codes = {}]
    OBVIOUS
  <2>2. s \in StepRecord /\ s.phase = "failing" /\ s.codes = {}
    BY ZenonT(40), <2>1, FactorTypes DEF StepRecord, StepPhases
  <2>3. \A u \in Steps : step'[u] = IF u = r THEN s ELSE step[u]
    BY <1>4, <2>1, FactorTypes
  <2>4. step' \in [Steps -> StepRecord]
    BY <1>4, <2>1, <2>2, FactorTypes
  <2>5. FactorTypeOK'
    BY <1>2, <1>4, <2>4, FactorTypes DEF FactorTypeOK, StepRecord
  <2>6. /\ CarriedOK' /\ SpentGone'
        /\ OnFile' /\ RecoveryFitsFactor'
    <3>1. CarriedOK'
      BY <2>2, <2>3 DEF FactorInv, CarriedOK, CodesOK
    <3>2. SpentGone'
      BY <1>2, <1>4, <2>2, <2>3 DEF FactorInv, SpentGone, Unused
    <3>3. OnFile' /\ RecoveryFitsFactor'
      BY <1>2, <1>4 DEF FactorInv, OnFile, RecoveryFitsFactor
    <3> QED
      BY <3>1, <3>2, <3>3
  <2>7. \A u \in Steps : Stepped(u)' \subseteq Stepped(u)
    BY <2>2, <2>3 DEF Stepped
  <2>8. RecoveryCodeOnce'
    BY <2>7 DEF FactorInv, RecoveryCodeOnce
  <2>9. QED
    BY <2>5, <2>6, <2>8 DEF FactorInv
<1>5. QED
    BY <1>1, <1>3, <1>4 DEF SpendRecovery

LEMMA StampSessionInv ==
    ASSUME FactorInv, NEW r \in Steps, StampSession(r)
    PROVE  FactorInv'
<1>1. step[r].phase = "stamping" /\ Go(r, "clearing", NoSecret)
      /\ UNCHANGED <<factor, recovery, generated, mfaFailures>>
      /\ stamp' \in [Devices -> {"never", "fresh", "stale"}]
    BY FactorTypes DEF StampSession
<1>2. QED
    BY <1>1, FactorTypes, FileStays, GoMoves DEF StepPhases

LEMMA FailureInv ==
    ASSUME FactorInv, NEW r \in Steps, RecordMfaFailure(r) \/ ClearFailures(r)
    PROVE  FactorInv'
<1>1. step[r].phase \in {"failing", "clearing"} /\ Go(r, "done", NoSecret)
      /\ UNCHANGED <<factor, recovery, generated, stamp>> /\ mfaFailures' \in Nat
    BY FactorTypes DEF RecordMfaFailure, ClearFailures
<1>2. QED
    BY <1>1, FactorTypes, FileStays, GoMoves DEF StepPhases

LEMMA TimeInv ==
    ASSUME FactorInv, (\E d \in Devices : StampLapses(d)) \/ MfaWindowSlides
                      \/ UNCHANGED factorVars
    PROVE  FactorInv'
<1>1. UNCHANGED <<factor, recovery, generated, step>> /\ mfaFailures' \in Nat
      /\ stamp' \in [Devices -> {"never", "fresh", "stale"}]
    BY FactorTypes DEF StampLapses, MfaWindowSlides, factorVars
<1>2. FactorTypeOK'
    BY <1>1 DEF FactorInv, FactorTypeOK
<1>3. CarriedOK' /\ SpentGone' /\ OnFile' /\ RecoveryFitsFactor' /\ RecoveryCodeOnce'
    BY <1>1 DEF FactorInv, CarriedOK, CodesOK, SpentGone, Unused, OnFile, RecoveryFitsFactor,
                RecoveryCodeOnce, Stepped
<1>4. QED
    BY <1>2, <1>3 DEF FactorInv

LEMMA NextFactor == FactorInv /\ [FactorNext]_factorVars => FactorInv'
<1> SUFFICES ASSUME FactorInv, [FactorNext]_factorVars PROVE FactorInv'
    OBVIOUS
<1>1. CASE FactorNext
    BY <1>1, RotateInv, ConfirmInv, DisableInv, EnrollTotpInv, SetConfirmedInv, DeleteFactorInv,
       StepUpInv, StepUpByRecoveryInv, SpendRecoveryInv, StampSessionInv, FailureInv, TimeInv
       DEF FactorNext
<1>2. QED
    BY <1>1, TimeInv

-----------------------------------------------------------------------------
(***************************************************************************)
(* The credential, its codes and the requests keep their types.            *)
(***************************************************************************)
THEOREM FactorTypesHold == FactorSpec => []FactorTypeOK
<1>1. FactorInv => FactorTypeOK
    BY DEF FactorInv
<1>2. QED
    BY <1>1, InitFactor, NextFactor, PTL DEF FactorSpec

(***************************************************************************)
(* A recovery code steps one session up, once.                             *)
(***************************************************************************)
THEOREM OneStepUpPerCode == FactorSpec => []RecoveryCodeOnce
<1>1. FactorInv => RecoveryCodeOnce
    BY DEF FactorInv
<1>2. QED
    BY <1>1, InitFactor, NextFactor, PTL DEF FactorSpec

(***************************************************************************)
(* The recovery codes on file are those of the secret on file.             *)
(***************************************************************************)
THEOREM CodesFitTheSecret == FactorSpec => []RecoveryFitsFactor
<1>1. FactorInv => RecoveryFitsFactor
    BY DEF FactorInv
<1>2. QED
    BY <1>1, InitFactor, NextFactor, PTL DEF FactorSpec

-----------------------------------------------------------------------------
(* Google grants *)

ReqRecord == [phase : Phases, acct : Accounts, flows : SUBSET Flows, token : Tokens,
              renew : BOOLEAN, expiry : Expiries, answer : Answers]

LEMMA NoneTypes ==
    /\ Somebody \in Accounts /\ NoConsent \in Tokens
    /\ Idle \in ReqRecord /\ NoGrant \in Grants /\ OldGrant \in Grants
<1>1. Somebody \in Accounts
    BY OAuthAssumption DEF Somebody
<1>2. NoConsent \in Tokens /\ 1 \in Tokens
    BY OAuthAssumption DEF Tokens, Consents
<1>3. Idle \in ReqRecord
    BY <1>1, <1>2 DEF Idle, ReqRecord, Phases, Expiries, Answers
<1>4. NoGrant \in Grants
    BY <1>2 DEF NoGrant, Grants, Expiries
<1>5. OldGrant \in Grants
    BY <1>2, <1>4 DEF OldGrant, Grants, Expiries
<1>6. QED
    BY <1>1, <1>2, <1>3, <1>4, <1>5

-----------------------------------------------------------------------------
\* A flow that a request has taken is spent, and nobody else has it.
FlowsTaken == \A r \in Requests : \A f \in req[r].flows : flow[f].st = "spent"

\* A request that waits for Google's consent has taken one flow, of its account.
FlowInHand ==
    \A r \in Requests : req[r].phase = "exchanging" =>
        \E f \in Flows : req[r].flows = {f} /\ flow[f].by = req[r].acct

\* A token in anybody's hands was given by Google, to the account it is held for.
Belongs(g, c, a) == c # NoConsent => c <= g.given /\ g.by[c] = a

TokensBelong ==
    /\ \A a \in Accounts : Belongs(google, grant[a].access, a) /\ Belongs(google, grant[a].renew, a)
    /\ \A r \in Requests : Belongs(google, req[r].token, req[r].acct)

\* What Google answers has not expired when it is written, whatever the clock does.
NewlyAnswered ==
    \A r \in Requests : req[r].phase \in {"storing", "recording"} => req[r].expiry # "past"

\* A request that has not begun holds nothing.
IdleHolds == \A r \in Requests : req[r].phase = "idle" => req[r] = Idle

GrantsInv == /\ GrantsTypeOK /\ IdleHolds
             /\ FlowsTaken /\ FlowInHand /\ FlowRedeemedOnce
             /\ TokensBelong /\ NewlyAnswered

LEMMA InitInv == GrantsInit => GrantsInv
<1> SUFFICES ASSUME GrantsInit PROVE GrantsInv
    OBVIOUS
<1> PICK given \in {0, 1} :
         /\ grant = [a \in Accounts |-> IF given = 1 /\ a = Somebody THEN OldGrant ELSE NoGrant]
         /\ google = [given |-> given, alive |-> 1..given, by |-> [c \in Consents |-> Somebody]]
    BY DEF GrantsInit
<1>1. GrantsTypeOK
  <2>1. given \in 0..MaxConsents /\ 1..given \subseteq Consents
    BY OAuthAssumption DEF Consents
  <2>2. flow \in [Flows -> [st : FlowStates, by : Accounts]]
    BY NoneTypes DEF GrantsInit, FlowStates
  <2>3. google \in [given : 0..MaxConsents, alive : SUBSET Consents, by : [Consents -> Accounts]]
    BY <2>1, NoneTypes
  <2>4. QED
    BY <2>2, <2>3, NoneTypes DEF GrantsInit, GrantsTypeOK, ReqRecord
<1>2. IdleHolds /\ FlowsTaken /\ FlowInHand /\ FlowRedeemedOnce /\ NewlyAnswered
    BY DEF GrantsInit, Idle, IdleHolds, FlowsTaken, FlowInHand, FlowRedeemedOnce, NewlyAnswered
<1>3. TokensBelong
  <2>1. \A a \in Accounts : /\ Belongs(google, grant[a].access, a)
                            /\ Belongs(google, grant[a].renew, a)
    <3> TAKE a \in Accounts
    <3>1. CASE given = 1 /\ a = Somebody
      <4>1. grant[a].access = 1 /\ grant[a].renew = 1
        BY <3>1 DEF OldGrant, NoGrant
      <4>2. 1 <= google.given /\ google.by[1] = a
        BY <3>1, OAuthAssumption DEF Consents
      <4>3. QED
        BY <4>1, <4>2 DEF Belongs
    <3>2. CASE ~(given = 1 /\ a = Somebody)
        BY <3>2 DEF NoGrant, Belongs
    <3>3. QED
        BY <3>1, <3>2
  <2>2. QED
    BY <2>1 DEF TokensBelong, GrantsInit, Idle, Belongs
<1>4. QED
    BY <1>1, <1>2, <1>3 DEF GrantsInv

-----------------------------------------------------------------------------
GoogleRecord == [given : 0..MaxConsents, alive : SUBSET Consents, by : [Consents -> Accounts]]

\* Google may forget consents, and gives none.
NothingGiven == /\ google' \in GoogleRecord
                /\ google'.given = google.given /\ google'.by = google.by

LEMMA Forgetting ==
    ASSUME GrantsInv, NEW C, google' = [google EXCEPT !.alive = google.alive \ C]
    PROVE  NothingGiven
BY DEF GrantsInv, GrantsTypeOK, NothingGiven, GoogleRecord

LEMMA GoogleStays ==
    ASSUME GrantsInv, UNCHANGED google
    PROVE  NothingGiven
BY DEF GrantsInv, GrantsTypeOK, NothingGiven, GoogleRecord

\* A step of one request that takes no flow and no new consent.
LEMMA RequestStep ==
    ASSUME GrantsInv, NEW r \in Requests, UNCHANGED flow, NothingGiven,
           NEW s \in ReqRecord, req' = [req EXCEPT ![r] = s],
           s.flows = req[r].flows, s.phase \notin {"idle", "exchanging"},
           Belongs(google, s.token, s.acct),
           s.phase \in {"storing", "recording"} => s.expiry # "past",
           grant' \in [Accounts -> Grants],
           \A a \in Accounts : /\ Belongs(google, grant'[a].access, a)
                               /\ Belongs(google, grant'[a].renew, a)
    PROVE  GrantsInv'
<1> USE DEF GrantsInv
<1>1. GrantsTypeOK'
    BY DEF GrantsTypeOK, ReqRecord, NothingGiven, GoogleRecord
<1>2. \A t \in Requests : req'[t] = IF t = r THEN s ELSE req[t]
    BY DEF GrantsTypeOK
<1>3. IdleHolds' /\ FlowsTaken' /\ FlowRedeemedOnce'
    BY <1>2 DEF IdleHolds, FlowsTaken, FlowRedeemedOnce
<1>4. FlowInHand'
  <2> SUFFICES ASSUME NEW t \in Requests, req'[t].phase = "exchanging"
               PROVE  \E f \in Flows : req'[t].flows = {f} /\ flow[f].by = req'[t].acct
    BY DEF FlowInHand
  <2>1. t # r /\ req'[t] = req[t]
    BY <1>2
  <2>2. QED
    BY <2>1 DEF FlowInHand
<1>5. NewlyAnswered'
    BY <1>2 DEF NewlyAnswered
<1>6. TokensBelong'
    BY <1>2 DEF TokensBelong, Belongs, NothingGiven
<1>7. QED
    BY <1>1, <1>3, <1>4, <1>5, <1>6

\* The record of a request that finishes.
Finished(r) == [Idle EXCEPT !.phase = "done", !.flows = req[r].flows]

LEMMA FinishedType ==
    ASSUME GrantsInv, NEW r \in Requests
    PROVE  /\ Finished(r) \in ReqRecord
           /\ Finished(r).flows = req[r].flows /\ Finished(r).phase = "done"
           /\ Finished(r).token = NoConsent
BY NoneTypes DEF GrantsInv, GrantsTypeOK, Finished, Idle, ReqRecord, Phases

\* A finishing step that writes grants only, tokens of their accounts.
LEMMA FinishStep ==
    ASSUME GrantsInv, NEW r \in Requests, UNCHANGED flow, NothingGiven, Finish(r),
           grant' \in [Accounts -> Grants],
           \A a \in Accounts : /\ Belongs(google, grant'[a].access, a)
                               /\ Belongs(google, grant'[a].renew, a)
    PROVE  GrantsInv'
<1>1. Belongs(google, Finished(r).token, Finished(r).acct)
    BY FinishedType DEF Belongs
<1>2. req' = [req EXCEPT ![r] = Finished(r)]
    BY DEF Finish, Finished
<1>3. QED
    BY <1>1, <1>2, FinishedType, RequestStep

LEMMA GrantsHold ==
    ASSUME GrantsInv
    PROVE  /\ grant \in [Accounts -> Grants] /\ req \in [Requests -> ReqRecord]
           /\ \A a \in Accounts : /\ Belongs(google, grant[a].access, a)
                                  /\ Belongs(google, grant[a].renew, a)
           /\ \A r \in Requests : Belongs(google, req[r].token, req[r].acct)
BY DEF GrantsInv, GrantsTypeOK, TokensBelong, ReqRecord

-----------------------------------------------------------------------------
LEMMA StartFlowInv ==
    ASSUME GrantsInv, NEW a \in Accounts, NEW f \in Flows, StartFlow(a, f)
    PROVE  GrantsInv'
<1> USE DEF GrantsInv, StartFlow
<1>1. GrantsTypeOK'
    BY DEF GrantsTypeOK, FlowStates
<1>2. \A g \in Flows : g # f => flow'[g] = flow[g]
    BY DEF GrantsTypeOK
<1>3. \A r \in Requests : f \notin req[r].flows /\ req[r].flows \subseteq Flows
    BY DEF FlowsTaken, GrantsTypeOK
<1>4. FlowsTaken'
    BY <1>2, <1>3 DEF FlowsTaken
<1>5. FlowInHand'
    BY <1>2, <1>3 DEF FlowInHand
<1>6. IdleHolds' /\ FlowRedeemedOnce' /\ TokensBelong' /\ NewlyAnswered'
    BY DEF IdleHolds, FlowRedeemedOnce, TokensBelong, Belongs, NewlyAnswered
<1>7. QED
    BY <1>1, <1>4, <1>5, <1>6

LEMMA CallbackInv ==
    ASSUME GrantsInv, NEW r \in Requests, NEW a \in Accounts, NEW f \in Flows, Callback(r, a, f)
    PROVE  GrantsInv'
<1> DEFINE s == [req[r] EXCEPT !.phase = "exchanging", !.acct = a, !.flows = {f}]
<1>1. req[r].phase = "idle" /\ flow[f].st = "open" /\ flow[f].by = a
    BY DEF Callback, SessionMatches, Redeemable
<1>2. s \in ReqRecord /\ s.phase = "exchanging" /\ s.acct = a /\ s.flows = {f}
      /\ s.token = req[r].token
    BY GrantsHold DEF ReqRecord, Phases
<1>a. req' = [req EXCEPT ![r] = s]
    BY DEF Callback
<1>3. \A t \in Requests : req'[t] = IF t = r THEN s ELSE req[t]
    BY <1>a, GrantsHold
<1> HIDE DEF s
<1>4. \A g \in Flows : /\ flow'[g].by = flow[g].by
                       /\ flow'[g].st = IF g = f THEN "spent" ELSE flow[g].st
    BY DEF Callback, GrantsInv, GrantsTypeOK
<1>5. \A t \in Requests : f \notin req[t].flows /\ req[t].flows \subseteq Flows
    BY <1>1 DEF GrantsInv, FlowsTaken, GrantsTypeOK
<1>6. GrantsTypeOK'
  <2>1. flow' \in [Flows -> [st : FlowStates, by : Accounts]]
    BY DEF Callback, GrantsInv, GrantsTypeOK, FlowStates
  <2>2. req' \in [Requests -> ReqRecord]
    BY <1>2, <1>a, GrantsHold
  <2>3. QED
    BY <2>1, <2>2 DEF Callback, GrantsInv, GrantsTypeOK, ReqRecord
<1>7. IdleHolds' /\ FlowsTaken' /\ FlowRedeemedOnce'
    BY <1>2, <1>3, <1>4, <1>5 DEF GrantsInv, IdleHolds, FlowsTaken, FlowRedeemedOnce
<1>8. FlowInHand'
  <2> SUFFICES ASSUME NEW t \in Requests, req'[t].phase = "exchanging"
               PROVE  \E g \in Flows : req'[t].flows = {g} /\ flow'[g].by = req'[t].acct
    BY DEF FlowInHand
  <2>1. CASE t = r
    BY <2>1, <1>1, <1>2, <1>3, <1>4
  <2>2. CASE t # r
    BY <2>2, <1>3, <1>4 DEF GrantsInv, FlowInHand
  <2>3. QED
    BY <2>1, <2>2
<1>9. NewlyAnswered'
    BY <1>2, <1>3 DEF GrantsInv, NewlyAnswered
<1>10. TokensBelong'
  <2>1. req[r].token = NoConsent
    BY <1>1 DEF GrantsInv, IdleHolds, Idle
  <2>2. UNCHANGED <<grant, google>>
    BY DEF Callback
  <2>3. QED
    BY <2>1, <2>2, <1>2, <1>3 DEF GrantsInv, TokensBelong, Belongs
<1>11. QED
    BY <1>6, <1>7, <1>8, <1>9, <1>10 DEF GrantsInv

(***************************************************************************)
(* Google's new consent: what it has given before keeps its number.        *)
(***************************************************************************)
LEMMA ExchangedInv ==
    ASSUME GrantsInv, NEW r \in Requests, Exchanged(r)
    PROVE  GrantsInv'
<1> DEFINE c == google.given + 1
<1>1. PICK f \in Flows : req[r].flows = {f} /\ flow[f].by = req[r].acct
    BY DEF Exchanged, GrantsInv, FlowInHand
<1>2. (CHOOSE g \in req[r].flows : TRUE) = f
    BY <1>1
<1>3. c \in Consents /\ google.given \in 0..MaxConsents
      /\ google.alive \subseteq Consents /\ google.by \in [Consents -> Accounts]
    BY OAuthAssumption DEF Exchanged, GrantsInv, GrantsTypeOK, Consents
<1>4. google' = [given |-> c, alive |-> google.alive \cup {c},
                 by |-> [google.by EXCEPT ![c] = req[r].acct]]
    BY <1>1, <1>2 DEF Exchanged
<1>5. google'.given = c /\ google'.by = [google.by EXCEPT ![c] = req[r].acct]
    BY <1>4
<1>6. google' \in [given : 0..MaxConsents, alive : SUBSET Consents, by : [Consents -> Accounts]]
  <2>1. req[r].acct \in Accounts
    BY GrantsHold DEF ReqRecord
  <2>2. c \in 0..MaxConsents
    BY <1>3, OAuthAssumption DEF Consents
  <2>3. QED
    BY <1>3, <1>4, <2>1, <2>2
<1>7. ASSUME NEW d \in Tokens, NEW a \in Accounts, Belongs(google, d, a)
      PROVE  Belongs(google', d, a)
    BY <1>3, <1>5, <1>7 DEF Belongs, Tokens, Consents
<1>8. PICK s \in ReqRecord :
         /\ req' = [req EXCEPT ![r] = s]
         /\ s.flows = req[r].flows /\ s.phase \in {"storing", "done"} /\ s.expiry # "past"
         /\ s.token = NoConsent \/ (s.token = c /\ s.acct = req[r].acct)
  <2>1. CASE Finish(r)
    BY <2>1, FinishedType, NoneTypes DEF Finish, Finished, Idle
  <2>2. CASE \E renew \in BOOLEAN, expiry \in {"none", "future"} :
                req' = [req EXCEPT ![r].phase = "storing", ![r].token = c,
                                   ![r].renew = renew, ![r].expiry = expiry]
    <3> PICK renew \in BOOLEAN, expiry \in {"none", "future"} :
                req' = [req EXCEPT ![r].phase = "storing", ![r].token = c,
                                   ![r].renew = renew, ![r].expiry = expiry]
        BY <2>2
    <3> DEFINE s == [req[r] EXCEPT !.phase = "storing", !.token = c,
                                   !.renew = renew, !.expiry = expiry]
    <3>1. s \in ReqRecord
        BY ZenonT(40), <1>3, GrantsHold DEF ReqRecord, Phases, Tokens, Expiries
    <3>2. req' = [req EXCEPT ![r] = s]
        OBVIOUS
    <3>3. s.flows = req[r].flows /\ s.phase = "storing" /\ s.expiry # "past"
          /\ s.token = c /\ s.acct = req[r].acct
        BY GrantsHold DEF ReqRecord
    <3>4. QED
        BY <3>1, <3>2, <3>3
  <2>3. QED
    BY <2>1, <2>2 DEF Exchanged
<1>9. \A t \in Requests : req'[t] = IF t = r THEN s ELSE req[t]
    BY <1>8, GrantsHold
<1>10. GrantsTypeOK'
    BY <1>6, <1>8, GrantsHold DEF Exchanged, GrantsInv, GrantsTypeOK, ReqRecord
<1>11. IdleHolds' /\ FlowsTaken' /\ FlowRedeemedOnce'
    BY <1>8, <1>9 DEF Exchanged, GrantsInv, IdleHolds, FlowsTaken, FlowRedeemedOnce
<1>12. FlowInHand'
  <2> SUFFICES ASSUME NEW t \in Requests, req'[t].phase = "exchanging"
               PROVE  \E g \in Flows : req'[t].flows = {g} /\ flow[g].by = req'[t].acct
    BY DEF FlowInHand, Exchanged
  <2>1. req'[t] = req[t]
    BY <1>8, <1>9
  <2>2. QED
    BY <2>1 DEF GrantsInv, FlowInHand
<1>13. NewlyAnswered'
    BY <1>8, <1>9 DEF GrantsInv, NewlyAnswered
<1>14. TokensBelong'
  <2>1. \A a \in Accounts : /\ Belongs(google', grant[a].access, a)
                            /\ Belongs(google', grant[a].renew, a)
    BY <1>7, GrantsHold DEF Exchanged, Grants
  <2>2. ASSUME NEW t \in Requests PROVE Belongs(google', req'[t].token, req'[t].acct)
    <3>1. CASE t # r
        BY <3>1, <1>7, <1>9, GrantsHold DEF ReqRecord
    <3>2. CASE t = r
      <4>1. google'.given = c /\ google'.by[c] = req[r].acct
        BY <1>3, <1>5
      <4>2. c <= c
        BY <1>3
      <4>3. req'[t] = s
        BY <3>2, <1>9
      <4>4. QED
        BY <4>1, <4>2, <4>3, <1>8 DEF Belongs
    <3>3. QED
        BY <3>1, <3>2
  <2>3. QED
    BY <2>1, <2>2 DEF TokensBelong, Exchanged
<1>15. QED
    BY <1>10, <1>11, <1>12, <1>13, <1>14 DEF GrantsInv
-----------------------------------------------------------------------------
LEMMA ExchangeFailedInv ==
    ASSUME GrantsInv, NEW r \in Requests, ExchangeFailed(r)
    PROVE  GrantsInv'
<1>1. UNCHANGED <<flow, grant, google>> /\ Finish(r)
    BY DEF ExchangeFailed
<1>2. QED
    BY <1>1, GoogleStays, GrantsHold, FinishStep

\* A write of one row with tokens of its account.
LEMMA GrantsRowWritten ==
    ASSUME GrantsInv, NEW a \in Accounts, NEW g \in Grants, grant' = [grant EXCEPT ![a] = g],
           Belongs(google, g.access, a), Belongs(google, g.renew, a)
    PROVE  /\ grant' \in [Accounts -> Grants]
           /\ \A b \in Accounts : /\ Belongs(google, grant'[b].access, b)
                                  /\ Belongs(google, grant'[b].renew, b)
<1>1. \A b \in Accounts : grant'[b] = IF b = a THEN g ELSE grant[b]
    BY GrantsHold
<1>2. QED
    BY <1>1, GrantsHold

\* The row that upsertGrant writes.
Stored(r) == [held |-> TRUE, access |-> req[r].token,
              renew |-> IF req[r].renew THEN req[r].token ELSE grant[req[r].acct].renew,
              expiry |-> req[r].expiry, failed |-> FALSE, revoked |-> FALSE]

LEMMA StoredType ==
    ASSUME GrantsInv, NEW r \in Requests
    PROVE  /\ req[r].acct \in Accounts
           /\ Stored(r) \in Grants
           /\ Belongs(google, Stored(r).access, req[r].acct)
           /\ Belongs(google, Stored(r).renew, req[r].acct)
<1>1. req[r] \in ReqRecord /\ grant[req[r].acct] \in Grants
    BY GrantsHold DEF ReqRecord
<1>2. Stored(r) \in Grants
    BY <1>1 DEF Stored, Grants, ReqRecord
<1>3. QED
    BY <1>1, <1>2, GrantsHold DEF Stored, ReqRecord

LEMMA UpsertGrantInv ==
    ASSUME GrantsInv, NEW r \in Requests, UpsertGrant(r)
    PROVE  GrantsInv'
<1>1. grant' = [grant EXCEPT ![req[r].acct] = Stored(r)]
    BY DEF UpsertGrant, Stored
<1>2. UNCHANGED <<flow, google>> /\ Finish(r)
    BY DEF UpsertGrant
<1>3. QED
    BY <1>1, <1>2, StoredType, GrantsRowWritten, GoogleStays, FinishStep

(***************************************************************************)
(* The steps that write nothing but what the request remembers.            *)
(***************************************************************************)
LEMMA LoadAccessTokenInv ==
    ASSUME GrantsInv, NEW r \in Requests, NEW a \in Accounts, LoadAccessToken(r, a)
    PROVE  GrantsInv'
<1>1. PICK s : s = [req[r] EXCEPT !.phase = "refreshing", !.acct = a, !.token = grant[a].renew]
    OBVIOUS
<1>2. req' = [req EXCEPT ![r] = s]
    BY <1>1 DEF LoadAccessToken
<1>3. s \in ReqRecord /\ s.flows = req[r].flows /\ s.phase = "refreshing"
      /\ s.token = grant[a].renew /\ s.acct = a
    BY <1>1, GrantsHold DEF ReqRecord, Phases, Grants
<1>4. UNCHANGED <<flow, grant, google>>
    BY DEF LoadAccessToken
<1>5. QED
    BY <1>2, <1>3, <1>4, GrantsHold, GoogleStays, RequestStep

LEMMA RefreshAnsweredInv ==
    ASSUME GrantsInv, NEW r \in Requests, RefreshAnswered(r)
    PROVE  GrantsInv'
<1>1. PICK answer \in {"token", "invalid_grant", "error"}, expiry \in {"none", "future"} :
         req' = [req EXCEPT ![r].phase = "recording", ![r].answer = answer,
                            ![r].expiry = expiry]
    BY DEF RefreshAnswered
<1>2. PICK s : s = [req[r] EXCEPT !.phase = "recording", !.answer = answer, !.expiry = expiry]
    OBVIOUS
<1>3. req' = [req EXCEPT ![r] = s]
    BY <1>1, <1>2
<1>4. s \in ReqRecord /\ s.flows = req[r].flows /\ s.phase = "recording" /\ s.expiry # "past"
      /\ s.token = req[r].token /\ s.acct = req[r].acct
    BY <1>2, GrantsHold DEF ReqRecord, Phases, Answers, Expiries
<1>5. UNCHANGED <<flow, grant, google>>
    BY DEF RefreshAnswered
<1>6. QED
    BY <1>3, <1>4, <1>5, GrantsHold, GoogleStays, RequestStep

LEMMA DisconnectInv ==
    ASSUME GrantsInv, NEW r \in Requests, NEW a \in Accounts, Disconnect(r, a)
    PROVE  GrantsInv'
<1>1. PICK s : s = [req[r] EXCEPT !.phase = "deleting", !.acct = a, !.token = grant[a].access]
    OBVIOUS
<1>2. req' = [req EXCEPT ![r] = s]
    BY <1>1 DEF Disconnect
<1>3. s \in ReqRecord /\ s.flows = req[r].flows /\ s.phase = "deleting"
      /\ s.token = grant[a].access /\ s.acct = a
    BY <1>1, GrantsHold DEF ReqRecord, Phases, Grants
<1>4. UNCHANGED <<flow, grant, google>>
    BY DEF Disconnect
<1>5. QED
    BY <1>2, <1>3, <1>4, GrantsHold, GoogleStays, RequestStep

(***************************************************************************)
(* The result of a renewal goes to the row there is: it keeps the account  *)
(* of its token, since the request and the row are of one account.         *)
(***************************************************************************)
LEMMA RecordedRow ==
    ASSUME GrantsInv, NEW r \in Requests
    PROVE  LET a == req[r].acct
               g == Recorded(grant[a], r) IN
           /\ a \in Accounts /\ g \in Grants
           /\ Belongs(google, g.access, a) /\ Belongs(google, g.renew, a)
<1> DEFINE a == req[r].acct
<1>1. req[r] \in ReqRecord /\ a \in Accounts /\ grant[a] \in Grants
    BY GrantsHold DEF ReqRecord
<1>2. Renewed(grant[a], r) \in Grants /\ Refused(grant[a], r) \in Grants
    BY <1>1 DEF Renewed, Refused, Grants, ReqRecord
<1>3. /\ Renewed(grant[a], r).access = req[r].token
      /\ Renewed(grant[a], r).renew = grant[a].renew
      /\ Refused(grant[a], r).access = grant[a].access
      /\ Refused(grant[a], r).renew = grant[a].renew
    BY <1>1 DEF Renewed, Refused, Grants
<1>4. QED
    BY <1>1, <1>2, <1>3, GrantsHold DEF Recorded

LEMMA RecordRefreshInv ==
    ASSUME GrantsInv, NEW r \in Requests, RecordRefresh(r)
    PROVE  GrantsInv'
<1>1. grant' = [grant EXCEPT ![req[r].acct] = Recorded(grant[req[r].acct], r)]
    BY DEF RecordRefresh
<1>2. UNCHANGED <<flow, google>> /\ Finish(r)
    BY DEF RecordRefresh
<1>3. QED
    BY <1>1, <1>2, RecordedRow, GrantsRowWritten, GoogleStays, FinishStep

LEMMA DeleteGrantInv ==
    ASSUME GrantsInv, NEW r \in Requests, DeleteGrant(r)
    PROVE  GrantsInv'
<1>1. PICK s : s = [req[r] EXCEPT !.phase = "revoking"]
    OBVIOUS
<1>2. req' = [req EXCEPT ![r] = s] /\ grant' = [grant EXCEPT ![req[r].acct] = NoGrant]
    BY <1>1 DEF DeleteGrant
<1>3. s \in ReqRecord /\ s.flows = req[r].flows /\ s.phase = "revoking"
      /\ s.token = req[r].token /\ s.acct = req[r].acct
    BY <1>1, GrantsHold DEF ReqRecord, Phases
<1>4. req[r].acct \in Accounts /\ NoGrant \in Grants
      /\ Belongs(google, NoGrant.access, req[r].acct) /\ Belongs(google, NoGrant.renew, req[r].acct)
    BY GrantsHold, NoneTypes DEF ReqRecord, NoGrant, Belongs
<1>5. UNCHANGED <<flow, google>>
    BY DEF DeleteGrant
<1>6. QED
    BY <1>2, <1>3, <1>4, <1>5, GrantsHold, GrantsRowWritten, GoogleStays, RequestStep

LEMMA RevokeAtGoogleInv ==
    ASSUME GrantsInv, NEW r \in Requests, RevokeAtGoogle(r)
    PROVE  GrantsInv'
<1>1. NothingGiven
    BY Forgetting, GoogleStays DEF RevokeAtGoogle
<1>2. UNCHANGED <<flow, grant>> /\ Finish(r)
    BY DEF RevokeAtGoogle
<1>3. QED
    BY <1>1, <1>2, GrantsHold, FinishStep

-----------------------------------------------------------------------------
LEMMA FlowExpiresInv ==
    ASSUME GrantsInv, NEW f \in Flows, FlowExpires(f)
    PROVE  GrantsInv'
<1>1. \A g \in Flows : /\ flow'[g].by = flow[g].by
                       /\ flow'[g].st = IF g = f THEN "expired" ELSE flow[g].st
    BY DEF FlowExpires, GrantsInv, GrantsTypeOK
<1>2. \A r \in Requests : f \notin req[r].flows /\ req[r].flows \subseteq Flows
    BY DEF FlowExpires, GrantsInv, FlowsTaken, GrantsTypeOK
<1>3. GrantsTypeOK'
    BY DEF FlowExpires, GrantsInv, GrantsTypeOK, FlowStates
<1>4. FlowsTaken' /\ FlowInHand'
    BY <1>1, <1>2 DEF FlowExpires, GrantsInv, FlowsTaken, FlowInHand
<1>5. IdleHolds' /\ FlowRedeemedOnce' /\ TokensBelong' /\ NewlyAnswered'
    BY DEF FlowExpires, GrantsInv, IdleHolds, FlowRedeemedOnce, TokensBelong, Belongs,
           NewlyAnswered
<1>6. QED
    BY <1>3, <1>4, <1>5 DEF GrantsInv

LEMMA TokenExpiresInv ==
    ASSUME GrantsInv, NEW a \in Accounts, TokenExpires(a)
    PROVE  GrantsInv'
<1>1. PICK g : g = [grant[a] EXCEPT !.expiry = "past"]
    OBVIOUS
<1>2. grant' = [grant EXCEPT ![a] = g] /\ UNCHANGED <<flow, google, req>>
    BY <1>1 DEF TokenExpires
<1>3. g \in Grants /\ g.access = grant[a].access /\ g.renew = grant[a].renew
    BY <1>1, GrantsHold DEF Grants, Expiries
<1>4. /\ grant' \in [Accounts -> Grants]
      /\ \A b \in Accounts : Belongs(google, grant'[b].access, b)
                             /\ Belongs(google, grant'[b].renew, b)
    BY <1>2, <1>3, GrantsHold, GrantsRowWritten
<1>5. GrantsTypeOK'
    BY <1>2, <1>4 DEF GrantsInv, GrantsTypeOK
<1>6. QED
    BY <1>2, <1>4, <1>5 DEF GrantsInv, IdleHolds, FlowsTaken, FlowInHand, FlowRedeemedOnce,
       TokensBelong, NewlyAnswered

LEMMA WithdrawnAtGoogleInv ==
    ASSUME GrantsInv, NEW c \in Consents, WithdrawnAtGoogle(c)
    PROVE  GrantsInv'
<1>1. NothingGiven /\ UNCHANGED <<flow, grant, req>>
    BY Forgetting DEF WithdrawnAtGoogle
<1>2. GrantsTypeOK'
    BY <1>1 DEF NothingGiven, GoogleRecord, GrantsInv, GrantsTypeOK
<1>3. QED
    BY <1>1, <1>2 DEF NothingGiven, GrantsInv, IdleHolds, FlowsTaken, FlowInHand,
       FlowRedeemedOnce, TokensBelong, Belongs, NewlyAnswered

LEMMA NextInv == GrantsInv /\ [GrantsNext]_grantsVars => GrantsInv'
<1> SUFFICES ASSUME GrantsInv, [GrantsNext]_grantsVars PROVE GrantsInv'
    OBVIOUS
<1>1. CASE UNCHANGED grantsVars
    BY <1>1 DEF grantsVars, GrantsInv, GrantsTypeOK, IdleHolds, FlowsTaken, FlowInHand,
       FlowRedeemedOnce, TokensBelong, Belongs, NewlyAnswered
<1>2. CASE GrantsNext
    BY <1>2, StartFlowInv, CallbackInv, ExchangedInv, ExchangeFailedInv, UpsertGrantInv,
       LoadAccessTokenInv, RefreshAnsweredInv, RecordRefreshInv, DisconnectInv, DeleteGrantInv,
       RevokeAtGoogleInv, FlowExpiresInv, TokenExpiresInv, WithdrawnAtGoogleInv DEF GrantsNext
<1>3. QED
    BY <1>1, <1>2

(***************************************************************************)
(* The rows, the flows, Google's side and the requests keep their types.   *)
(***************************************************************************)
THEOREM GrantTypes == GrantsSpec => []GrantsTypeOK
<1>1. GrantsInv => GrantsTypeOK
    BY DEF GrantsInv
<1>2. QED
    BY <1>1, InitInv, NextInv, PTL DEF GrantsSpec

(***************************************************************************)
(* No row holds a token of a consent given in another account's flow.      *)
(***************************************************************************)
THEOREM ConsentsStayApart == GrantsSpec => []ConsentsNotCrossed
<1>1. GrantsInv => ConsentsNotCrossed
    BY DEF GrantsInv, TokensBelong, Belongs, ConsentsNotCrossed
<1>2. QED
    BY <1>1, InitInv, NextInv, PTL DEF GrantsSpec

(***************************************************************************)
(* However many callbacks carry the state of one flow, one exchanges it.   *)
(***************************************************************************)
THEOREM FlowsRedeemedOnce == GrantsSpec => []FlowRedeemedOnce
<1>1. GrantsInv => FlowRedeemedOnce
    BY DEF GrantsInv
<1>2. QED
    BY <1>1, InitInv, NextInv, PTL DEF GrantsSpec
-----------------------------------------------------------------------------
(***************************************************************************)
(* The refinement: the word of each account, and the callbacks about to    *)
(* store a consent.                                                        *)
(***************************************************************************)
State == [a \in Accounts |-> GoogleGrantState(grant[a])]
Storing(a) == {r \in Requests : req[r].phase = "storing" /\ req[r].acct = a}
Redeemed == [a \in Accounts |-> Storing(a)]

LEMMA InitConnected == GrantsInit => Connection!Init
<1> SUFFICES ASSUME GrantsInit PROVE Connection!Init
    OBVIOUS
<1>1. GoogleGrantState(NoGrant) = "not_connected"
    BY DEF GoogleGrantState, NoGrant
<1>2. GoogleGrantState(OldGrant) = "connected"
    BY DEF GoogleGrantState, OldGrant, NoGrant, NoConsent
<1>3. \A a \in Accounts : grant[a] \in {NoGrant, OldGrant}
    BY DEF GrantsInit
<1>4. \A r \in Requests : req[r].phase = "idle"
    BY DEF GrantsInit, Idle
<1>5. QED
    BY <1>1, <1>2, <1>3, <1>4 DEF Connection!Init

\* A step that moves one word as the abstract connection may, and redeems nothing.
LEMMA Moved ==
    ASSUME GrantsInv, NEW a \in Accounts, NEW g \in Grants, grant' = [grant EXCEPT ![a] = g],
           UNCHANGED Redeemed,
           GoogleGrantState(g) # GoogleGrantState(grant[a]) =>
               GoogleGrantState(g) \in Connection!Ways(GoogleGrantState(grant[a]))
    PROVE  [Connection!Next]_<<State, Redeemed>>
<1>1. \A b \in Accounts : grant'[b] = IF b = a THEN g ELSE grant[b]
    BY GrantsHold
<1>2. State' = [State EXCEPT ![a] = GoogleGrantState(g)]
  <2>1. \A b \in Accounts : State'[b] = IF b = a THEN GoogleGrantState(g) ELSE State[b]
    BY <1>1 DEF State
  <2>2. QED
    BY <2>1 DEF State
<1>3. CASE GoogleGrantState(g) = GoogleGrantState(grant[a])
    BY <1>2, <1>3 DEF State
<1>4. CASE GoogleGrantState(g) \in Connection!Ways(GoogleGrantState(grant[a]))
  <2>1. Connection!Move(a)
    BY <1>2, <1>4 DEF Connection!Move, State, Redeemed, Storing
  <2>2. QED
    BY <2>1 DEF Connection!Next
<1>5. QED
    BY <1>3, <1>4

LEMMA Unmoved ==
    ASSUME UNCHANGED <<grant, Redeemed>>
    PROVE  [Connection!Next]_<<State, Redeemed>>
BY DEF State

\* A request that was not storing before a step and is not after it.
LEMMA NoneStored ==
    ASSUME GrantsInv, NEW r \in Requests, NEW s \in ReqRecord, req' = [req EXCEPT ![r] = s],
           req[r].phase # "storing", s.phase # "storing"
    PROVE  UNCHANGED Redeemed
<1>1. \A t \in Requests : req'[t] = IF t = r THEN s ELSE req[t]
    BY GrantsHold
<1>2. QED
    BY <1>1 DEF Redeemed, Storing

LEMMA NoneStoredByFinish ==
    ASSUME GrantsInv, NEW r \in Requests, Finish(r), req[r].phase # "storing"
    PROVE  UNCHANGED Redeemed
<1>1. req' = [req EXCEPT ![r] = Finished(r)]
    BY DEF Finish, Finished
<1>2. QED
    BY <1>1, FinishedType, NoneStored

-----------------------------------------------------------------------------
LEMMA CallbackUnmoved ==
    ASSUME GrantsInv, NEW r \in Requests, NEW a \in Accounts, NEW f \in Flows, Callback(r, a, f)
    PROVE  [Connection!Next]_<<State, Redeemed>>
<1>1. PICK s : s = [req[r] EXCEPT !.phase = "exchanging", !.acct = a, !.flows = {f}]
    OBVIOUS
<1>2. s \in ReqRecord /\ s.phase = "exchanging"
    BY <1>1, GrantsHold DEF ReqRecord, Phases
<1>3. req' = [req EXCEPT ![r] = s] /\ req[r].phase = "idle" /\ UNCHANGED grant
    BY <1>1 DEF Callback
<1>4. QED
    BY <1>2, <1>3, NoneStored, Unmoved

LEMMA ExchangedRedeems ==
    ASSUME GrantsInv, NEW r \in Requests, Exchanged(r)
    PROVE  [Connection!Next]_<<State, Redeemed>>
<1>1. UNCHANGED grant /\ req[r].phase = "exchanging"
    BY DEF Exchanged
<1>2. CASE Finish(r)
    BY <1>1, <1>2, NoneStoredByFinish, Unmoved
<1>3. CASE \E c, renew, expiry :
             req' = [req EXCEPT ![r].phase = "storing", ![r].token = c,
                                ![r].renew = renew, ![r].expiry = expiry]
  <2>1. PICK c, renew, expiry :
             req' = [req EXCEPT ![r].phase = "storing", ![r].token = c,
                                ![r].renew = renew, ![r].expiry = expiry]
    BY <1>3
  <2>2. PICK s : s = [req[r] EXCEPT !.phase = "storing", !.token = c,
                                    !.renew = renew, !.expiry = expiry]
    OBVIOUS
  <2>3. req' = [req EXCEPT ![r] = s]
    BY <2>1, <2>2
  <2>4. s.phase = "storing" /\ s.acct = req[r].acct /\ req[r].acct \in Accounts
    BY <2>2, GrantsHold DEF ReqRecord
  <2>5. \A t \in Requests : req'[t] = IF t = r THEN s ELSE req[t]
    BY <2>3, GrantsHold
  <2>6. \A a \in Accounts : Storing(a)' = IF a = req[r].acct THEN Storing(a) \cup {r}
                                                             ELSE Storing(a)
    BY <1>1, <2>4, <2>5 DEF Storing
  <2>7. Redeemed' = [Redeemed EXCEPT ![req[r].acct] = Redeemed[req[r].acct] \cup {r}]
    BY <2>4, <2>6 DEF Redeemed
  <2>8. State' = State
    BY <1>1 DEF State
  <2>9. PICK a \in Accounts : a = req[r].acct
    BY <2>4
  <2>10. Connection!Redeem(a, r)
    BY <2>7, <2>8, <2>9 DEF Connection!Redeem, State, Redeemed, Storing
  <2>11. QED
    BY <2>10 DEF Connection!Next
<1>4. QED
    BY <1>2, <1>3 DEF Exchanged

LEMMA UpsertGrantConnects ==
    ASSUME GrantsInv, NEW r \in Requests, UpsertGrant(r)
    PROVE  [Connection!Next]_<<State, Redeemed>>
<1>1. PICK a \in Accounts : a = req[r].acct
    BY StoredType
<1>2. req[r].phase = "storing" /\ req[r].expiry # "past"
    BY DEF UpsertGrant, GrantsInv, NewlyAnswered
<1>3. GoogleGrantState(Stored(r)) = "connected"
    BY <1>2 DEF GoogleGrantState, Stored
<1>4. \A b \in Accounts : grant'[b] = IF b = a THEN Stored(r) ELSE grant[b]
    BY <1>1, GrantsHold DEF UpsertGrant, Stored
<1>5. State' = [State EXCEPT ![a] = "connected"]
    BY <1>3, <1>4 DEF State
<1>6. \A t \in Requests : req'[t] = IF t = r THEN Finished(r) ELSE req[t]
    BY GrantsHold DEF UpsertGrant, Finish, Finished
<1>7. \A b \in Accounts : Storing(b)' = IF b = a THEN Storing(b) \ {r} ELSE Storing(b)
    BY <1>1, <1>6, FinishedType DEF Storing
<1>8. Redeemed' = [Redeemed EXCEPT ![a] = Redeemed[a] \ {r}]
    BY <1>7 DEF Redeemed
<1>9. r \in Redeemed[a]
    BY <1>1, <1>2 DEF Redeemed, Storing
<1>10. Connection!Connect(a, r)
    BY <1>5, <1>8, <1>9 DEF Connection!Connect, State, Redeemed, Storing
<1>11. QED
    BY <1>10 DEF Connection!Next

LEMMA LoadUnmoved ==
    ASSUME GrantsInv, NEW r \in Requests, NEW a \in Accounts, LoadAccessToken(r, a)
    PROVE  [Connection!Next]_<<State, Redeemed>>
<1>1. PICK s : s = [req[r] EXCEPT !.phase = "refreshing", !.acct = a, !.token = grant[a].renew]
    OBVIOUS
<1>2. s \in ReqRecord /\ s.phase = "refreshing"
    BY <1>1, GrantsHold DEF ReqRecord, Phases, Grants
<1>3. req' = [req EXCEPT ![r] = s] /\ req[r].phase = "idle" /\ UNCHANGED grant
    BY <1>1 DEF LoadAccessToken
<1>4. QED
    BY <1>2, <1>3, NoneStored, Unmoved

LEMMA RefreshAnsweredUnmoved ==
    ASSUME GrantsInv, NEW r \in Requests, RefreshAnswered(r)
    PROVE  [Connection!Next]_<<State, Redeemed>>
<1>1. PICK answer \in {"token", "invalid_grant", "error"}, expiry \in {"none", "future"} :
         req' = [req EXCEPT ![r].phase = "recording", ![r].answer = answer,
                            ![r].expiry = expiry]
    BY DEF RefreshAnswered
<1>2. PICK s : s = [req[r] EXCEPT !.phase = "recording", !.answer = answer, !.expiry = expiry]
    OBVIOUS
<1>3. req' = [req EXCEPT ![r] = s] /\ req[r].phase = "refreshing" /\ UNCHANGED grant
    BY ZenonT(40), <1>1, <1>2 DEF RefreshAnswered
<1>4. s \in ReqRecord /\ s.phase = "recording"
    BY <1>2, GrantsHold DEF ReqRecord, Phases, Answers, Expiries
<1>5. QED
    BY <1>3, <1>4, NoneStored, Unmoved

LEMMA DisconnectUnmoved ==
    ASSUME GrantsInv, NEW r \in Requests, NEW a \in Accounts, Disconnect(r, a)
    PROVE  [Connection!Next]_<<State, Redeemed>>
<1>1. PICK s : s = [req[r] EXCEPT !.phase = "deleting", !.acct = a, !.token = grant[a].access]
    OBVIOUS
<1>2. s \in ReqRecord /\ s.phase = "deleting"
    BY <1>1, GrantsHold DEF ReqRecord, Phases, Grants
<1>3. req' = [req EXCEPT ![r] = s] /\ req[r].phase = "idle" /\ UNCHANGED grant
    BY <1>1 DEF Disconnect
<1>4. QED
    BY <1>2, <1>3, NoneStored, Unmoved

(***************************************************************************)
(* A renewal's result moves a row that is there between "connected" and    *)
(* "expired", ends it as "revoked", and leaves a revoked row revoked.      *)
(***************************************************************************)
LEMMA RecordedWord ==
    ASSUME GrantsInv, NEW r \in Requests, req[r].phase = "recording"
    PROVE  LET g == grant[req[r].acct]
               new == GoogleGrantState(Recorded(g, r)) IN
           new # GoogleGrantState(g) => new \in Connection!Ways(GoogleGrantState(g))
<1> DEFINE g == grant[req[r].acct]
<1>1. g \in Grants /\ req[r] \in ReqRecord /\ req[r].expiry # "past"
    BY GrantsHold DEF ReqRecord, GrantsInv, NewlyAnswered
<1>2. CASE ~g.held
    BY <1>2 DEF Recorded
<1>3. CASE g.held /\ req[r].answer = "token"
  <2>1. /\ Renewed(g, r).held = g.held /\ Renewed(g, r).revoked = g.revoked
        /\ Renewed(g, r).failed = FALSE /\ Renewed(g, r).expiry = req[r].expiry
    BY <1>1 DEF Renewed, Grants
  <2>2. GoogleGrantState(Renewed(g, r)) = IF g.revoked THEN "revoked" ELSE "connected"
    BY <1>1, <1>3, <2>1 DEF GoogleGrantState
  <2>3. GoogleGrantState(g) \in IF g.revoked THEN {"revoked"} ELSE {"connected", "expired"}
    BY <1>3 DEF GoogleGrantState
  <2>4. Recorded(g, r) = Renewed(g, r)
    BY <1>3 DEF Recorded
  <2>5. QED
    BY <2>2, <2>3, <2>4 DEF Connection!Ways
<1>4. CASE g.held /\ req[r].answer # "token"
  <2>1. /\ Refused(g, r).held = g.held /\ Refused(g, r).failed = TRUE
        /\ Refused(g, r).revoked = (g.revoked \/ req[r].answer = "invalid_grant")
    BY <1>1 DEF Refused, Grants
  <2>2. GoogleGrantState(Refused(g, r)) \in IF g.revoked THEN {"revoked"}
                                                         ELSE {"revoked", "expired"}
    BY <1>4, <2>1 DEF GoogleGrantState
  <2>3. GoogleGrantState(g) \in IF g.revoked THEN {"revoked"} ELSE {"connected", "expired"}
    BY <1>4 DEF GoogleGrantState
  <2>4. Recorded(g, r) = Refused(g, r)
    BY <1>4 DEF Recorded
  <2>5. QED
    BY <2>2, <2>3, <2>4 DEF Connection!Ways
<1>5. QED
    BY <1>2, <1>3, <1>4

LEMMA RecordRefreshMoves ==
    ASSUME GrantsInv, NEW r \in Requests, RecordRefresh(r)
    PROVE  [Connection!Next]_<<State, Redeemed>>
<1>1. /\ grant' = [grant EXCEPT ![req[r].acct] = Recorded(grant[req[r].acct], r)]
      /\ req[r].phase = "recording" /\ Finish(r)
    BY DEF RecordRefresh
<1>2. QED
    BY <1>1, RecordedWord, RecordedRow, NoneStoredByFinish, Moved

LEMMA DeleteGrantMoves ==
    ASSUME GrantsInv, NEW r \in Requests, DeleteGrant(r)
    PROVE  [Connection!Next]_<<State, Redeemed>>
<1>1. PICK s : s = [req[r] EXCEPT !.phase = "revoking"]
    OBVIOUS
<1>2. /\ req' = [req EXCEPT ![r] = s] /\ grant' = [grant EXCEPT ![req[r].acct] = NoGrant]
      /\ req[r].phase = "deleting"
    BY <1>1 DEF DeleteGrant
<1>3. s \in ReqRecord /\ s.phase = "revoking" /\ req[r].acct \in Accounts /\ NoGrant \in Grants
    BY <1>1, GrantsHold, NoneTypes DEF ReqRecord, Phases
<1>4. GoogleGrantState(NoGrant) = "not_connected"
    BY DEF GoogleGrantState, NoGrant
<1>5. GoogleGrantState(grant[req[r].acct]) \in {"not_connected", "connected", "expired", "revoked"}
    BY DEF GoogleGrantState
<1>6. UNCHANGED Redeemed
    BY <1>2, <1>3, NoneStored
<1>7. QED
    BY <1>2, <1>3, <1>4, <1>5, <1>6, Moved DEF Connection!Ways

LEMMA RevokeAtGoogleUnmoved ==
    ASSUME GrantsInv, NEW r \in Requests, RevokeAtGoogle(r)
    PROVE  [Connection!Next]_<<State, Redeemed>>
<1>1. Finish(r) /\ req[r].phase = "revoking" /\ UNCHANGED grant
    BY DEF RevokeAtGoogle
<1>2. QED
    BY <1>1, NoneStoredByFinish, Unmoved

LEMMA ExchangeFailedUnmoved ==
    ASSUME GrantsInv, NEW r \in Requests, ExchangeFailed(r)
    PROVE  [Connection!Next]_<<State, Redeemed>>
<1>1. Finish(r) /\ req[r].phase = "exchanging" /\ UNCHANGED grant
    BY DEF ExchangeFailed
<1>2. QED
    BY <1>1, NoneStoredByFinish, Unmoved

LEMMA TokenExpiresMoves ==
    ASSUME GrantsInv, NEW a \in Accounts, TokenExpires(a)
    PROVE  [Connection!Next]_<<State, Redeemed>>
<1>1. PICK g : g = [grant[a] EXCEPT !.expiry = "past"]
    OBVIOUS
<1>2. grant' = [grant EXCEPT ![a] = g] /\ UNCHANGED req /\ grant[a].expiry = "future"
    BY <1>1 DEF TokenExpires
<1>3. /\ g \in Grants /\ g.held = grant[a].held /\ g.revoked = grant[a].revoked
      /\ g.failed = grant[a].failed
    BY <1>1, GrantsHold DEF Grants, Expiries
<1>4. GoogleGrantState(g) # GoogleGrantState(grant[a]) =>
          GoogleGrantState(grant[a]) = "connected" /\ GoogleGrantState(g) = "expired"
    BY <1>2, <1>3 DEF GoogleGrantState
<1>5. UNCHANGED Redeemed
    BY <1>2 DEF Redeemed, Storing
<1>6. QED
    BY <1>2, <1>3, <1>4, <1>5, Moved DEF Connection!Ways

LEMMA NextConnected ==
    GrantsInv /\ [GrantsNext]_grantsVars => [Connection!Next]_<<State, Redeemed>>
<1> SUFFICES ASSUME GrantsInv, [GrantsNext]_grantsVars
             PROVE  [Connection!Next]_<<State, Redeemed>>
    OBVIOUS
<1>1. CASE UNCHANGED <<grant, req>>
    BY <1>1, Unmoved DEF Redeemed, Storing
<1>2. CASE GrantsNext
  <2>1. CASE \E a \in Accounts, f \in Flows : StartFlow(a, f)
    BY <2>1, <1>1 DEF StartFlow
  <2>2. CASE (\E f \in Flows : FlowExpires(f)) \/ (\E c \in Consents : WithdrawnAtGoogle(c))
    BY <2>2, <1>1 DEF FlowExpires, WithdrawnAtGoogle
  <2>3. QED
    BY <1>2, <2>1, <2>2, CallbackUnmoved, ExchangedRedeems, ExchangeFailedUnmoved,
       UpsertGrantConnects, LoadUnmoved, RefreshAnsweredUnmoved, RecordRefreshMoves,
       DisconnectUnmoved, DeleteGrantMoves, RevokeAtGoogleUnmoved, TokenExpiresMoves
       DEF GrantsNext
<1>3. QED
    BY <1>1, <1>2 DEF grantsVars

(***************************************************************************)
(* The connection of every account moves as ConnectionLifecycle says.      *)
(***************************************************************************)
THEOREM ConnectionImplemented == GrantsSpec => ImplementsConnection
<1>1. GrantsInv /\ [GrantsNext]_grantsVars =>
          [Connection!Next]_<<[a \in Accounts |-> GoogleGrantState(grant[a])],
                              [a \in Accounts |-> {r \in Requests : req[r].phase = "storing"
                                                                    /\ req[r].acct = a}]>>
    BY NextConnected DEF State, Redeemed, Storing
<1>2. QED
    BY <1>1, InitConnected, InitInv, NextInv, PTL DEF GrantsSpec, ImplementsConnection,
       Connection!Spec

-----------------------------------------------------------------------------
(* Key rotation *)

ScriptRecord == [phase : ScriptPhases, dry : BOOLEAN, cursor : 0..Rows,
                 page : [RowIds -> Payloads], stale : BOOLEAN, unreadable : Nat,
                 unreadableBefore : Nat]
WriterRecord == [phase : {"idle", "sealed", "done"}, stage : Stages, row : {0} \cup RowIds]

Typed == /\ payload \in [RowIds -> Payloads]
         /\ writer \in [Writers -> WriterRecord]
         /\ script \in ScriptRecord
         /\ cleared \in BOOLEAN

\* An environment is replaced by the next one only when it runs alone; a request that has
\* sealed a value keeps its instance alive.
Staged ==
    /\ stage \in live
    /\ \/ stage = "single" /\ live = {"single"}
       \/ stage = "expanded" /\ live \in SUBSET {"single", "expanded"}
       \/ stage = "expanded" /\ live \in SUBSET {"flipped", "expanded"}
       \/ stage = "flipped" /\ live \in SUBSET {"expanded", "flipped"}
       \/ stage = "contracted" /\ live \in SUBSET {"flipped", "contracted"}
    /\ \A w \in Writers : writer[w].phase = "sealed" => writer[w].stage \in live

\* As long as an instance runs that has the old key only, nothing is sealed under the new.
NothingNew == "single" \in live => \A i \in RowIds : payload[i].key # "new"

\* The command runs in the flipped environment, and its page holds retired payloads only.
ScriptRuns ==
    /\ script.phase # "idle" => stage = "flipped" /\ ~cleared
    /\ \A i \in RowIds : script.page[i].key \in {"null", "old"}

\* What a census that found nothing stale has passed stays free of the old key, but for
\* what an instance of the environment before the flip writes after it.
NoneOldUpTo(n) == \A i \in RowIds : i <= n /\ payload[i].key = "old" => i \in late

CensusHolds == (script.phase \in {"before", "after"} /\ ~script.stale)
                   => NoneOldUpTo(script.cursor)

OldIsGone ==
    /\ cleared => NoneOldUpTo(Rows) /\ stage \in {"flipped", "contracted"}
    /\ stage = "contracted" => cleared

RotInv == Typed /\ Staged /\ NothingNew /\ ScriptRuns /\ CensusHolds /\ OldIsGone

-----------------------------------------------------------------------------
LEMMA ClassOf ==
    ASSUME NEW p \in Payloads
    PROVE  /\ Class(p) = "stale" <=> p.key = "old"
           /\ Unreadable(p) <=> p.key \in {"lost", "garbled"}
<1>1. p.key \in KeyIds \cup {"null"}
    BY DEF Payloads
<1>2. CASE p.key = "null"
    BY <1>2 DEF Class, Keyring, Active, Unreadable
<1>3. CASE p.key = "garbled"
    BY <1>3 DEF Class, Keyring, Active, Unreadable
<1>4. CASE p.key = "lost"
    BY <1>4 DEF Class, Keyring, Active, Unreadable
<1>5. CASE p.key = "old"
    BY <1>5 DEF Class, Keyring, Active, Unreadable
<1>6. CASE p.key = "new"
    BY <1>6 DEF Class, Keyring, Active, Unreadable
<1>7. QED
    BY <1>1, <1>2, <1>3, <1>4, <1>5, <1>6 DEF KeyIds

LEMMA NullType == Null \in Payloads /\ Null.key = "null" /\ Null.val = "before"
BY DEF Null, Payloads, KeyIds, Values

LEMMA NoScriptType ==
    /\ NoScript \in ScriptRecord /\ NoScript.phase = "idle" /\ ~NoScript.stale
    /\ NoScript.cursor = 0 /\ \A i \in RowIds : NoScript.page[i].key = "null"
BY NullType, RotationAssumption DEF NoScript, ScriptRecord, ScriptPhases

LEMMA RowsFinite == \A S \in SUBSET RowIds : Cardinality(S) \in Nat
<1>1. IsFiniteSet(RowIds)
    BY RotationAssumption, FS_Interval DEF RowIds
<1>2. QED
    BY <1>1, FS_Subset, FS_CardinalityType

LEMMA InitRot == RotationInit => RotInv
<1> SUFFICES ASSUME RotationInit PROVE RotInv
    OBVIOUS
<1>1. Typed
    BY NoScriptType, NullType
       DEF RotationInit, Typed, WriterRecord, Stages, Payloads, KeyIds, Values
<1>2. \A i \in RowIds : payload[i].key # "new"
    BY NullType DEF RotationInit
<1>3. ScriptRuns /\ CensusHolds
    BY NoScriptType DEF RotationInit, ScriptRuns, CensusHolds
<1>4. Staged /\ NothingNew /\ OldIsGone
    BY <1>2 DEF RotationInit, Staged, NothingNew, OldIsGone
<1>5. QED
    BY <1>1, <1>3, <1>4 DEF RotInv

-----------------------------------------------------------------------------
LEMMA SealInv ==
    ASSUME RotInv, NEW w \in Writers, NEW s \in Stages, NEW i \in RowIds, Seal(w, s, i)
    PROVE  RotInv'
<1>1. writer' = [writer EXCEPT ![w] = [phase |-> "sealed", stage |-> s, row |-> i]] /\ s \in live
      /\ UNCHANGED <<payload, live, deploys, stage, script, cleared, late>>
    BY DEF Seal, deployment
<1>2. Typed' /\ Staged'
    BY <1>1 DEF RotInv, Typed, Staged, WriterRecord
<1>3. NothingNew' /\ ScriptRuns' /\ CensusHolds' /\ OldIsGone'
    BY <1>1 DEF RotInv, NothingNew, ScriptRuns, CensusHolds, OldIsGone, NoneOldUpTo
<1>4. QED
    BY <1>2, <1>3 DEF RotInv

\* A row is written; one that is written under the old key once it matters is late.
LEMMA RotationRowWritten ==
    ASSUME RotInv, NEW i, NEW p \in Payloads, payload' = [payload EXCEPT ![i] = p],
           p.key = "new" => "single" \notin live,
           p.key = "old" => "single" \in live \/ "expanded" \in live,
           p.key = "old" /\ Active(stage) = "new" => i \in late',
           late \subseteq late',
           writer' \in [Writers -> WriterRecord],
           \A w \in Writers : writer'[w].phase = "sealed" => writer[w].phase = "sealed"
                                                             /\ writer'[w].stage = writer[w].stage,
           UNCHANGED <<live, stage, script, cleared>>
    PROVE  RotInv'
<1>1. \A j \in RowIds : payload'[j] = payload[j] \/ (j = i /\ payload'[j] = p)
    BY DEF RotInv, Typed
<1>2. Typed' /\ Staged'
    BY DEF RotInv, Typed, Staged
<1>3. NothingNew' /\ ScriptRuns'
    BY <1>1 DEF RotInv, NothingNew, ScriptRuns
<1>4. ASSUME stage \in {"flipped", "contracted"}, NEW n, NoneOldUpTo(n)
      PROVE  NoneOldUpTo(n)'
    BY <1>1, <1>4 DEF NoneOldUpTo, Active
<1>5. CensusHolds' /\ OldIsGone'
    BY <1>4 DEF RotInv, CensusHolds, OldIsGone, ScriptRuns
<1>6. QED
    BY <1>2, <1>3, <1>5 DEF RotInv

LEMMA StoreInv ==
    ASSUME RotInv, NEW w \in Writers, Store(w)
    PROVE  RotInv'
<1>1. writer[w].stage \in live /\ writer[w].stage \in Stages
    BY DEF Store, RotInv, Staged, Typed, WriterRecord
<1>2. Sealed(w) \in Payloads /\ Sealed(w).key = Active(writer[w].stage)
    BY DEF Sealed, Payloads, KeyIds, Values, Active
<1>3. PICK row : row = [writer[w] EXCEPT !.phase = "done"]
    OBVIOUS
<1>4. writer' = [writer EXCEPT ![w] = row] /\ UNCHANGED <<live, stage, script, cleared>>
      /\ payload' = [payload EXCEPT ![writer[w].row] = Sealed(w)]
      /\ late \subseteq late'
      /\ (Sealed(w).key = "old" /\ Active(stage) = "new" => writer[w].row \in late')
    BY <1>3 DEF Store, deployment
<1>5. row \in WriterRecord /\ row.phase = "done"
    BY <1>3 DEF RotInv, Typed, WriterRecord
<1>6. Sealed(w).key = "new" => "single" \notin live
    BY <1>1, <1>2 DEF RotInv, Staged, Active, Stages
<1>7. Sealed(w).key = "old" => "single" \in live \/ "expanded" \in live
    BY <1>1, <1>2 DEF Active, Stages
<1>8. writer' \in [Writers -> WriterRecord]
      /\ \A v \in Writers : writer'[v].phase = "sealed" => writer'[v] = writer[v]
    BY <1>4, <1>5 DEF RotInv, Typed
<1>9. QED
    BY <1>2, <1>4, <1>6, <1>7, <1>8, RotationRowWritten

LEMMA EmptyInv ==
    ASSUME RotInv, NEW w \in Writers, NEW i \in RowIds, Empty(w, i)
    PROVE  RotInv'
<1>1. PICK row : row = [writer[w] EXCEPT !.phase = "done"]
    OBVIOUS
<1>2. writer' = [writer EXCEPT ![w] = row] /\ UNCHANGED <<live, stage, script, cleared, late>>
      /\ payload' = [payload EXCEPT ![i] = Null]
    BY <1>1 DEF Empty, deployment
<1>3. row \in WriterRecord /\ row.phase = "done"
    BY <1>1 DEF RotInv, Typed, WriterRecord
<1>4. writer' \in [Writers -> WriterRecord]
      /\ \A v \in Writers : writer'[v].phase = "sealed" => writer'[v] = writer[v]
    BY <1>2, <1>3 DEF RotInv, Typed
<1>5. QED
    BY <1>2, <1>4, NullType, RotationRowWritten

-----------------------------------------------------------------------------
LEMMA StepForwardInv ==
    ASSUME RotInv, StepForward
    PROVE  RotInv'
<1>1. live = {stage} /\ stage' = Following(stage) /\ live' = {stage, Following(stage)}
      /\ stage # "contracted" /\ (stage = "flipped" => cleared /\ script.phase = "idle")
      /\ UNCHANGED <<payload, writer, script, cleared, late>>
    BY DEF StepForward, Deploy
<1>2. \/ stage = "single" /\ stage' = "expanded"
      \/ stage = "expanded" /\ stage' = "flipped"
      \/ stage = "flipped" /\ stage' = "contracted"
    BY <1>1 DEF RotInv, Staged, Following
<1>3. Typed' /\ Staged'
    BY <1>1, <1>2 DEF RotInv, Typed, Staged
<1>4. NothingNew'
    BY <1>1, <1>2 DEF RotInv, NothingNew
<1>5. ScriptRuns' /\ CensusHolds' /\ OldIsGone'
    BY <1>1, <1>2 DEF RotInv, ScriptRuns, CensusHolds, OldIsGone, NoneOldUpTo
<1>6. QED
    BY <1>3, <1>4, <1>5 DEF RotInv

LEMMA StepBackInv ==
    ASSUME RotInv, NEW s \in Stages, StepBack(s), "single" \notin WayBack
    PROVE  RotInv'
<1>1. s = "expanded" /\ stage = "flipped" /\ live = {"flipped"} /\ live' = {"flipped", "expanded"}
      /\ stage' = "expanded" /\ script' = NoScript /\ cleared' = FALSE
      /\ UNCHANGED <<payload, writer>>
    BY RotationAssumption DEF StepBack, Deploy
<1>2. Typed' /\ Staged' /\ NothingNew'
    BY <1>1, NoScriptType DEF RotInv, Typed, Staged, NothingNew
<1>3. ScriptRuns' /\ CensusHolds' /\ OldIsGone'
    BY <1>1, NoScriptType DEF ScriptRuns, CensusHolds, OldIsGone
<1>4. QED
    BY <1>2, <1>3 DEF RotInv

LEMMA DrainInv ==
    ASSUME RotInv, NEW s \in Stages, Drain(s)
    PROVE  RotInv'
<1>1. s # stage /\ live' = live \ {s} /\ UNCHANGED <<payload, stage, writer, script, cleared, late>>
      /\ \A w \in Writers : writer[w].phase = "sealed" => writer[w].stage # s
    BY DEF Drain
<1>2. Typed' /\ Staged' /\ NothingNew'
    BY <1>1 DEF RotInv, Typed, Staged, NothingNew
<1>3. ScriptRuns' /\ CensusHolds' /\ OldIsGone'
    BY <1>1 DEF RotInv, Staged, ScriptRuns, CensusHolds, OldIsGone, NoneOldUpTo
<1>4. QED
    BY <1>2, <1>3 DEF RotInv

-----------------------------------------------------------------------------
\* The command goes on to another script state and touches nothing else.
LEMMA ScriptMoves ==
    ASSUME RotInv, NEW s \in ScriptRecord, script' = s, cleared' \in BOOLEAN,
           UNCHANGED <<payload, live, stage, writer>>, UNCHANGED late \/ ~cleared',
           stage = "flipped" \/ UNCHANGED cleared,
           \A i \in RowIds : s.page[i].key \in {"null", "old"},
           s.phase # "idle" => stage = "flipped" /\ ~cleared',
           (s.phase \in {"before", "after"} /\ ~s.stale) => NoneOldUpTo(s.cursor)',
           cleared' /\ ~cleared => NoneOldUpTo(Rows)
    PROVE  RotInv'
<1>1. Typed' /\ Staged' /\ NothingNew'
    BY DEF RotInv, Typed, Staged, NothingNew
<1>2. ScriptRuns' /\ CensusHolds'
    BY DEF ScriptRuns, CensusHolds, NoneOldUpTo
<1>3. OldIsGone'
    BY DEF RotInv, OldIsGone, NoneOldUpTo, Typed
<1>4. QED
    BY <1>1, <1>2, <1>3 DEF RotInv

LEMMA StartScriptInv ==
    ASSUME RotInv, NEW dry \in BOOLEAN, StartScript(dry)
    PROVE  RotInv'
<1>1. PICK s : s = [NoScript EXCEPT !.phase = "before", !.dry = dry]
    OBVIOUS
<1>2. script' = s /\ stage = "flipped" /\ cleared' = FALSE
      /\ UNCHANGED <<payload, live, stage, writer>>
    BY <1>1 DEF StartScript, deployment
<1>3. s \in ScriptRecord /\ s.cursor = 0 /\ s.page = NoScript.page
    BY <1>1, NoScriptType DEF ScriptRecord, ScriptPhases
<1>4. NoneOldUpTo(0)'
    BY RotationAssumption DEF NoneOldUpTo, RowIds
<1>5. QED
    BY <1>2, <1>3, <1>4, NoScriptType, ScriptMoves

LEMMA CensusInv ==
    ASSUME RotInv, NEW last \in RowIds, Census(last)
    PROVE  RotInv'
<1>1. PICK stale : stale = (script.stale \/ \E i \in Page(RowIds, last) :
                                                Class(payload[i]) = "stale")
    OBVIOUS
<1>2. PICK n : n = script.unreadable + Cardinality({i \in Page(RowIds, last) :
                                                       Unreadable(payload[i])})
    OBVIOUS
<1>3. PICK s : s = [script EXCEPT !.cursor = last, !.stale = stale, !.unreadable = n]
    OBVIOUS
<1>4. script' = s /\ script.phase \in {"before", "after"}
      /\ UNCHANGED <<payload, live, stage, writer, cleared, late>>
    BY <1>1, <1>2, <1>3 DEF Census, deployment
<1>5. stale \in BOOLEAN /\ n \in Nat /\ last \in 0..Rows
  <2>1. {i \in Page(RowIds, last) : Unreadable(payload[i])} \in SUBSET RowIds
    BY DEF Page
  <2>2. script.stale \in BOOLEAN /\ script.unreadable \in Nat
    BY DEF RotInv, Typed, ScriptRecord
  <2>3. QED
    BY <1>1, <1>2, <2>1, <2>2, RowsFinite, RotationAssumption DEF RowIds
<1>6. s \in ScriptRecord /\ s.phase = script.phase
      /\ s.cursor = last /\ s.stale = stale /\ s.page = script.page
    BY <1>3, <1>5 DEF RotInv, Typed, ScriptRecord
<1>7. ASSUME ~s.stale PROVE NoneOldUpTo(last)'
  <2>1. NoneOldUpTo(script.cursor)
    BY <1>1, <1>4, <1>6, <1>7 DEF RotInv, CensusHolds
  <2>2. \A i \in RowIds : script.cursor < i /\ i <= last => payload[i].key # "old"
    BY <1>1, <1>6, <1>7, ClassOf DEF Page, RotInv, Typed
  <2>3. script.cursor \in Nat /\ last \in Nat /\ RowIds \subseteq Nat
    BY <1>5, RotationAssumption DEF RotInv, Typed, ScriptRecord, RowIds
  <2>4. QED
    BY <1>4, <2>1, <2>2, <2>3 DEF NoneOldUpTo
<1>8. QED
    BY <1>4, <1>6, <1>7, ScriptMoves DEF RotInv, Typed, ScriptRuns

LEMMA BeforeVerdictInv ==
    ASSUME RotInv, BeforeVerdict
    PROVE  RotInv'
<1>1. script.phase = "before" /\ script.cursor = Rows /\ UNCHANGED <<payload, live, stage, writer, late>>
    BY DEF BeforeVerdict, CensusRead, deployment
<1>2. stage = "flipped" /\ ~cleared /\ (~script.stale => NoneOldUpTo(Rows))
    BY <1>1 DEF RotInv, ScriptRuns, CensusHolds
<1>3. CASE script' = NoScript /\ cleared' = ~script.stale
    BY <1>1, <1>2, <1>3, NoScriptType, ScriptMoves
<1>4. CASE /\ script' = [NoScript EXCEPT !.phase = "apply",
                                         !.unreadableBefore = script.unreadable]
           /\ UNCHANGED cleared
  <2>1. PICK s : s = [NoScript EXCEPT !.phase = "apply",
                                      !.unreadableBefore = script.unreadable]
    OBVIOUS
  <2>2. s \in ScriptRecord /\ s.phase = "apply"
        /\ s.page = NoScript.page
    BY <2>1, NoScriptType DEF ScriptRecord, ScriptPhases, RotInv, Typed
  <2>3. QED
    BY <1>1, <1>2, <1>4, <2>1, <2>2, NoScriptType, ScriptMoves DEF RotInv, Typed
<1>5. QED
    BY <1>3, <1>4 DEF BeforeVerdict

LEMMA ReadPageInv ==
    ASSUME RotInv, NEW last \in RowIds, ReadPage(last)
    PROVE  RotInv'
<1>1. PICK page : page = [i \in RowIds |-> IF i \in Page(Retired, last) THEN payload[i] ELSE Null]
    OBVIOUS
<1>2. PICK s : s = [script EXCEPT !.phase = "swap", !.cursor = last, !.page = page]
    OBVIOUS
<1>3. script' = s /\ script.phase = "apply" /\ UNCHANGED <<payload, live, stage, writer, cleared, late>>
    BY <1>1, <1>2 DEF ReadPage, deployment
<1>4. page \in [RowIds -> Payloads] /\ \A i \in RowIds : page[i].key \in {"null", "old"}
    BY <1>1, NullType DEF RotInv, Typed, Page, Retired
<1>5. last \in 0..Rows
    BY RotationAssumption DEF RowIds
<1>6. s \in ScriptRecord /\ s.phase = "swap" /\ s.page = page
    BY <1>2, <1>4, <1>5 DEF RotInv, Typed, ScriptRecord, ScriptPhases
<1>7. QED
    BY <1>3, <1>4, <1>6, ScriptMoves DEF RotInv, Typed, ScriptRuns

LEMMA SwapPageInv ==
    ASSUME RotInv, SwapPage
    PROVE  /\ RotInv'
           /\ \A i \in RowIds : \/ payload'[i] = payload[i]
                                \/ payload[i].key = "old" /\ payload'[i].val = payload[i].val
<1>1. PICK s : s = [script EXCEPT !.phase = "apply", !.page = NoScript.page]
    OBVIOUS
<1>2. script' = s /\ UNCHANGED <<live, stage, writer, cleared, late>> /\ script.phase = "swap"
    BY <1>1 DEF SwapPage, deployment
<1>3. s \in ScriptRecord /\ s.phase = "apply"
      /\ s.page = NoScript.page
    BY <1>1, NoScriptType DEF RotInv, Typed, ScriptRecord, ScriptPhases
<1>4. ASSUME NEW i \in RowIds, Swappable(i)
      PROVE  /\ payload[i].key = "old" /\ payload'[i] \in Payloads
             /\ payload'[i].key = "new" /\ payload'[i].val = payload[i].val
  <2>1. payload'[i] = [payload[i] EXCEPT !.key = "new"] /\ payload[i] \in Payloads
    BY <1>4 DEF SwapPage, Swappable, Reencrypt, Active, RotInv, Typed
  <2>2. payload[i].key = "old"
    BY <1>4 DEF Swappable, RotInv, ScriptRuns
  <2>3. QED
    BY <2>1, <2>2 DEF Payloads, KeyIds
<1>5. \A i \in RowIds : ~Swappable(i) => payload'[i] = payload[i]
    BY DEF SwapPage
<1>6. payload' \in [RowIds -> Payloads]
  <2>1. \A i \in RowIds : payload'[i] \in Payloads
    BY <1>4, <1>5 DEF RotInv, Typed
  <2>2. QED
    BY <2>1 DEF SwapPage
<1>7. stage = "flipped" /\ ~cleared /\ "single" \notin live
    BY <1>2 DEF RotInv, ScriptRuns, Staged
<1>8. Typed' /\ Staged'
    BY <1>2, <1>3, <1>6 DEF RotInv, Typed, Staged
<1>9. NothingNew' /\ ScriptRuns' /\ CensusHolds' /\ OldIsGone'
    BY <1>2, <1>3, <1>7, NoScriptType DEF RotInv, NothingNew, ScriptRuns, CensusHolds, OldIsGone
<1>10. QED
    BY <1>4, <1>5, <1>8, <1>9 DEF RotInv

LEMMA AppliedInv ==
    ASSUME RotInv, Applied
    PROVE  RotInv'
<1>1. PICK s : s = [script EXCEPT !.phase = "after", !.cursor = 0]
    OBVIOUS
<1>2. script' = s /\ script.phase = "apply" /\ UNCHANGED <<payload, live, stage, writer, cleared>>
    BY <1>1 DEF Applied, deployment
<1>3. s \in ScriptRecord /\ s.phase = "after" /\ s.cursor = 0
      /\ s.page = script.page
  <2>1. 0 \in 0..Rows /\ "after" \in ScriptPhases /\ script \in ScriptRecord
    BY RotationAssumption DEF RotInv, Typed, ScriptPhases
  <2>2. QED
    BY <1>1, <2>1 DEF ScriptRecord
<1>4. NoneOldUpTo(0)'
    BY RotationAssumption DEF NoneOldUpTo, RowIds
<1>5. stage = "flipped" /\ ~cleared
    BY <1>2 DEF RotInv, ScriptRuns
<1>6. QED
    BY <1>2, <1>3, <1>4, <1>5, ScriptMoves DEF RotInv, Typed, ScriptRuns

LEMMA AfterVerdictInv ==
    ASSUME RotInv, AfterVerdict
    PROVE  RotInv'
<1>1. script.phase = "after" /\ script.cursor = Rows /\ UNCHANGED <<payload, live, stage, writer, late>>
      /\ script' = NoScript /\ cleared' = Verified
    BY DEF AfterVerdict, CensusRead, deployment
<1>2. stage = "flipped" /\ ~cleared /\ (~script.stale => NoneOldUpTo(Rows))
    BY <1>1 DEF RotInv, ScriptRuns, CensusHolds
<1>3. cleared' \in BOOLEAN /\ (cleared' => NoneOldUpTo(Rows))
  <2>1. script.stale \in BOOLEAN /\ script.unreadable \in Nat /\ script.unreadableBefore \in Nat
    BY DEF RotInv, Typed, ScriptRecord
  <2>2. QED
    BY <1>1, <1>2, <2>1 DEF Verified
<1>4. QED
    BY <1>1, <1>2, <1>3, NoScriptType, ScriptMoves

LEMMA InterruptedInv ==
    ASSUME RotInv, Interrupted
    PROVE  RotInv'
<1>1. script' = NoScript /\ UNCHANGED <<payload, live, stage, writer, cleared, late>>
    BY DEF Interrupted, deployment
<1>2. QED
    BY <1>1, NoScriptType, ScriptMoves DEF RotInv, Typed

LEMMA NextRot ==
    ASSUME RotInv, [RotationNext]_rotationVars, "single" \notin WayBack
    PROVE  RotInv'
<1>1. CASE RotationNext
    BY <1>1, SealInv, StoreInv, EmptyInv, StepForwardInv, StepBackInv, DrainInv, StartScriptInv,
       CensusInv, BeforeVerdictInv, ReadPageInv, SwapPageInv, AppliedInv, AfterVerdictInv,
       InterruptedInv DEF RotationNext
<1>2. CASE UNCHANGED rotationVars
    BY <1>2 DEF rotationVars, deployment, RotInv, Typed, Staged, NothingNew, ScriptRuns,
                CensusHolds, OldIsGone, NoneOldUpTo
<1>3. QED
    BY <1>1, <1>2

-----------------------------------------------------------------------------
LEMMA ReadsAll == RotInv => EveryInstanceReads
<1> SUFFICES ASSUME RotInv, NEW i \in RowIds, NEW s \in live, payload[i].key \in {"old", "new"},
                    payload[i].key = "old" => i \notin late
             PROVE  payload[i].key \in Keyring(s)
    BY DEF EveryInstanceReads
<1>1. s \in Stages
    BY DEF RotInv, Staged, Stages
<1>2. CASE s = "single"
    BY <1>2 DEF RotInv, NothingNew, Keyring
<1>3. CASE s = "contracted"
  <2>1. i <= Rows
    BY RotationAssumption DEF RowIds
  <2>2. QED
    BY <1>3, <2>1 DEF RotInv, Staged, OldIsGone, NoneOldUpTo, Keyring
<1>4. QED
    BY <1>1, <1>2, <1>3 DEF Stages, Keyring

(***************************************************************************)
(* If nobody goes back behind "expand" once the flip was made, no serving  *)
(* instance ever meets a payload its keyring lacks, but for the rows that  *)
(* an instance of the environment before the flip wrote after the newest   *)
(* census began.                                                           *)
(***************************************************************************)
THEOREM ReadableThroughout ==
    ASSUME "single" \notin WayBack
    PROVE  RotationSpec => []EveryInstanceReads
<1>1. RotInv /\ [RotationNext]_rotationVars => RotInv'
    BY NextRot
<1>2. QED
    BY <1>1, InitRot, ReadsAll, PTL DEF RotationSpec

(***************************************************************************)
(* A step that is no write of the application leaves every value as it is  *)
(* and every payload it cannot read untouched.                             *)
(***************************************************************************)
LEMMA ValuesKept ==
    ASSUME RotInv, [RotationNext]_rotationVars, writer' = writer
    PROVE  \A i \in RowIds : /\ payload'[i].val = payload[i].val
                             /\ Unreadable(payload[i]) => payload'[i] = payload[i]
<1>1. CASE UNCHANGED payload
    BY <1>1
<1>2. ASSUME NEW w \in Writers, Store(w) \/ \E i \in RowIds : Empty(w, i)
      PROVE  FALSE
  <2>1. writer[w].phase # "done" /\ writer'[w].phase = "done"
    BY <1>2 DEF Store, Empty, RotInv, Typed, WriterRecord
  <2>2. QED
    BY <2>1
<1>3. CASE SwapPage
    BY <1>3, SwapPageInv, ClassOf DEF RotInv, Typed
<1>4. CASE RotationNext
    BY <1>1, <1>2, <1>3, <1>4
       DEF RotationNext, Seal, StepForward, StepBack, Deploy, Drain, StartScript, Census,
           BeforeVerdict, ReadPage, Applied, AfterVerdict, Interrupted
<1>5. QED
    BY <1>1, <1>4 DEF rotationVars

THEOREM ValuesSurviveRotation ==
    ASSUME "single" \notin WayBack
    PROVE  RotationSpec => RotationKeepsValues
<1>1. RotInv /\ [RotationNext]_rotationVars =>
          [writer' = writer =>
             \A i \in RowIds : /\ payload'[i].val = payload[i].val
                               /\ Unreadable(payload[i]) => payload'[i] = payload[i]]_rotationVars
    BY ValuesKept
<1>2. RotInv /\ [RotationNext]_rotationVars => RotInv'
    BY NextRot
<1>3. QED
    BY <1>1, <1>2, InitRot, PTL DEF RotationSpec, RotationKeepsValues

-----------------------------------------------------------------------------
(* The token buckets.  A bucket that has not been full since the i-th call  *)
(* let through holds what a full one held, less the calls since, plus what  *)
(* time has refilled; one that has been full at some moment holds at least  *)
(* that for some i, and never more than it for any i.                       *)

BucketRecord == [level : Nat, last : Nat, here : BOOLEAN]

Full(k) == Capacity * Window(k)
Holding(k) == Level(k, bucket[k])

\* The tokens, in units of the window, of the calls let through from the i-th on; and
\* what has been refilled since then.
Spent(k, i) == (Len(granted[k]) - i + 1) * Window(k)
Refilled(k, i) == (now - granted[k][i]) * Capacity

\* No call is refused too early, ...
Enough(k) ==
    \/ Holding(k) = Full(k)
    \/ \E i \in 1..Len(granted[k]) : Full(k) + Refilled(k, i) <= Holding(k) + Spent(k, i)

\* ... and none is let through too early.
NotTooMuch(k) ==
    \A i \in 1..Len(granted[k]) : Holding(k) + Spent(k, i) <= Full(k) + Refilled(k, i)

ClockOK ==
    /\ now \in Nat
    /\ bucket \in [Buckets -> BucketRecord]
    /\ \A k \in Buckets : bucket[k].last <= now
    /\ granted \in [Buckets -> Seq(Nat)]
    /\ \A k \in Buckets : \A i \in 1..Len(granted[k]) : granted[k][i] <= now

BudgetInv ==
    /\ ClockOK
    /\ \A k \in Buckets : Enough(k) /\ (k \notin Hourly => NotTooMuch(k))

LEMMA FullType ==
    ASSUME NEW k \in Buckets
    PROVE  /\ Window(k) \in Nat \ {0} /\ Full(k) \in Nat /\ Capacity \in Nat \ {0}
           /\ Window(k) <= Full(k)
<1>1. Window(k) \in Nat \ {0} /\ Capacity \in Nat \ {0}
    BY LimitsAssumption DEF Window
<1>2. \A c, w \in Nat \ {0} : c * w \in Nat /\ w <= c * w
    <2> SUFFICES ASSUME NEW c \in Nat \ {0}, NEW w \in Nat \ {0} PROVE c * w \in Nat /\ w <= c * w
        OBVIOUS
    <2>1. c * w = w + (c - 1) * w
        OBVIOUS
    <2>2. (c - 1) * w \in Nat
        OBVIOUS
    <2>3. QED
        BY <2>1, <2>2
<1>3. QED
    BY <1>1, <1>2 DEF Full

LEMMA ProductType == \A m, n \in Nat : m * n \in Nat
OBVIOUS

LEMMA OneMore == \A x, y, c \in Nat : ((x + 1) - y) * c = (x - y) * c + c
OBVIOUS

\* A bucket's level: never above a full one.
LEMMA LevelType ==
    ASSUME now \in Nat, NEW k \in Buckets, NEW b \in BucketRecord, b.last <= now
    PROVE  /\ Level(k, b) \in Nat /\ Level(k, b) <= Full(k)
           /\ ~b.here => Level(k, b) = Full(k)
           /\ b.here => \/ Level(k, b) = Full(k) /\ Full(k) <= b.level + (now - b.last) * Capacity
                        \/ Level(k, b) = b.level + (now - b.last) * Capacity
<1>1. (now - b.last) * Capacity \in Nat /\ b.level \in Nat
    BY ProductType, LimitsAssumption DEF BucketRecord
<1>2. QED
    BY <1>1, FullType DEF Level, Full

\* What a call of j prunes is full already, if its window is not the longer one.
LEMMA StaleIsFull ==
    ASSUME now \in Nat, NEW j \in Buckets, NEW k \in Buckets, NEW b \in BucketRecord,
           b.last <= now, Stale(j, b), Window(k) <= Window(j)
    PROVE  Level(k, b) = Full(k)
<1>1. /\ b.here /\ now - b.last > Window(k) /\ b.level \in Nat
      /\ Window(k) \in Nat /\ Capacity \in Nat \ {0}
    BY FullType DEF Stale, BucketRecord
<1>2. Capacity * Window(k) < (now - b.last) * Capacity
    <2>1. \A c \in Nat \ {0}, v, w \in Nat : v < w => c * v < w * c
        OBVIOUS
    <2>2. QED
        BY <1>1, <2>1 DEF BucketRecord
<1>3. PICK r \in Nat : r = (now - b.last) * Capacity
    BY <1>1, ProductType DEF BucketRecord
<1>4. PICK f \in Nat : f = Capacity * Window(k)
    BY <1>1, ProductType
<1>5. b.level + r > f
    BY <1>1, <1>2, <1>3, <1>4
<1>6. Level(k, b) = f
    BY <1>1, <1>3, <1>4, <1>5 DEF Level
<1>7. QED
    BY <1>4, <1>6 DEF Full

LEMMA InitBudget == LimitsInit => BudgetInv
<1> SUFFICES ASSUME LimitsInit PROVE BudgetInv
    OBVIOUS
<1>1. Absent \in BucketRecord /\ Absent.last = 0 /\ ~Absent.here
    BY DEF Absent, BucketRecord
<1>2. ClockOK
    BY <1>1 DEF LimitsInit, ClockOK
<1>3. \A k \in Buckets : Holding(k) = Full(k)
    BY <1>1, <1>2, LevelType DEF LimitsInit, ClockOK, Holding
<1>4. \A k \in Buckets : Len(granted[k]) = 0
    BY DEF LimitsInit
<1>5. QED
    BY <1>2, <1>3, <1>4 DEF BudgetInv, Enough, NotTooMuch

\* Time passes: every level grows by the capacity, or is full.
LEMMA ElapseBudget == BudgetInv /\ Elapse => BudgetInv'
<1> SUFFICES ASSUME BudgetInv, Elapse PROVE BudgetInv'
    OBVIOUS
<1>1. now' = now + 1 /\ bucket' = bucket /\ granted' = granted /\ ClockOK
    BY DEF Elapse, BudgetInv
<1>2. ClockOK'
    <2>1. \A k \in Buckets : bucket[k].last \in Nat
        BY <1>1 DEF ClockOK, BucketRecord
    <2>2. \A k \in Buckets : \A i \in 1..Len(granted[k]) : granted[k][i] \in Nat
        BY <1>1 DEF ClockOK
    <2>3. /\ now' \in Nat /\ \A n \in Nat : n <= now => n <= now'
          /\ \A k \in Buckets : bucket'[k] = bucket[k] /\ granted'[k] = granted[k]
        BY <1>1 DEF ClockOK
    <2>4. QED
        BY <1>1, <2>1, <2>2, <2>3 DEF ClockOK
<1>3. ASSUME NEW k \in Buckets
      PROVE  Enough(k)' /\ (k \notin Hourly => NotTooMuch(k)')
    <2> DEFINE b == bucket[k]
               old == Holding(k)
    <2>1. /\ b \in BucketRecord /\ b.last <= now /\ now \in Nat /\ Capacity \in Nat \ {0}
          /\ b.level \in Nat
        BY <1>1, FullType DEF ClockOK, BucketRecord
    <2>2. ((now + 1) - b.last) * Capacity = (now - b.last) * Capacity + Capacity
          /\ (now - b.last) * Capacity \in Nat
        BY <2>1, ProductType DEF BucketRecord
    <2>3. /\ Holding(k)' \in Nat /\ Holding(k)' <= old + Capacity
          /\ Holding(k)' = Full(k) \/ (Holding(k)' = old + Capacity /\ old # Full(k))
        <3>1. PICK r \in Nat : r = (now - b.last) * Capacity
            BY <2>2
        <3>2. PICK f \in Nat : f = Capacity * Window(k) /\ Full(k) = f
            BY FullType DEF Full
        <3>3. old = IF ~b.here \/ b.level + r > f THEN f ELSE b.level + r
            BY <3>1, <3>2 DEF Holding, Level
        <3>4. Holding(k)' = IF ~b.here \/ b.level + (r + Capacity) > f THEN f
                         ELSE b.level + (r + Capacity)
            <4>1. Holding(k)' = IF ~b.here \/ b.level + ((now + 1) - b.last) * Capacity > f THEN f
                             ELSE b.level + ((now + 1) - b.last) * Capacity
                <5>1. Holding(k)' = IF ~b.here \/ b.level + (now' - b.last) * Capacity > f THEN f
                                 ELSE b.level + (now' - b.last) * Capacity
                    BY Zenon, <1>1, <3>2 DEF Holding, Level, Window
                <5>2. QED
                    BY Zenon, <1>1, <5>1
            <4>2. ((now + 1) - b.last) * Capacity = r + Capacity
                BY <2>2, <3>1
            <4>3. QED
                BY <4>1, <4>2
        <3>5. QED
            BY <2>1, <3>1, <3>2, <3>3, <3>4
    <2>4. ASSUME NEW i \in 1..Len(granted[k])
          PROVE  /\ Refilled(k, i)' = Refilled(k, i) + Capacity /\ Spent(k, i)' = Spent(k, i)
                 /\ Refilled(k, i) \in Nat /\ Spent(k, i) \in Nat
        <3>1. granted[k][i] \in Nat /\ granted[k][i] <= now /\ Len(granted[k]) \in Nat
            BY <1>1 DEF ClockOK
        <3>2. ((now + 1) - granted[k][i]) * Capacity = (now - granted[k][i]) * Capacity + Capacity
            BY <2>1, <3>1, OneMore
        <3>3. Refilled(k, i)' = Refilled(k, i) + Capacity /\ Spent(k, i)' = Spent(k, i)
            <4>1. Refilled(k, i)' = ((now + 1) - granted[k][i]) * Capacity
                <5>1. Refilled(k, i)' = (now' - granted[k][i]) * Capacity
                    BY Zenon, <1>1 DEF Refilled
                <5>2. now' - granted[k][i] = (now + 1) - granted[k][i]
                    BY <1>1
                <5>3. QED
                    BY Zenon, <5>1, <5>2
            <4>2. Spent(k, i)' = Spent(k, i)
                BY <1>1 DEF Spent, Window
            <4>3. QED
                BY <3>2, <4>1, <4>2 DEF Refilled
        <3>4. Refilled(k, i) \in Nat
            <4>1. now - granted[k][i] \in Nat
                BY <2>1, <3>1
            <4>2. QED
                BY <2>1, <4>1, ProductType DEF Refilled
        <3>5. Len(granted[k]) - i + 1 \in Nat
            BY <3>1
        <3>6. Spent(k, i) \in Nat
            BY <3>5, FullType, ProductType DEF Spent
        <3>7. QED
            BY <3>3, <3>4, <3>6
    <2>5. old \in Nat /\ old <= Full(k) /\ Full(k) \in Nat
        BY <2>1, LevelType, FullType DEF Holding
    <2>f. Full(k)' = Full(k) /\ granted' = granted
        BY <1>1 DEF Full, Window
    <2>6. Enough(k)'
        <3>1. CASE Holding(k)' = Full(k)
            BY <3>1, <2>f DEF Enough
        <3>2. CASE Holding(k)' = old + Capacity /\ old # Full(k)
            <4>1. PICK i \in 1..Len(granted[k]) : Full(k) + Refilled(k, i) <= old + Spent(k, i)
                BY <3>2 DEF BudgetInv, Enough
            <4>2. Full(k) + (Refilled(k, i) + Capacity) <= (old + Capacity) + Spent(k, i)
                BY <4>1, <2>1, <2>4, <2>5
            <4>3. QED
                BY <3>2, <4>2, <2>4, <2>f DEF Enough
        <3>3. QED
            BY <2>3, <3>1, <3>2
    <2>7. ASSUME k \notin Hourly PROVE NotTooMuch(k)'
        <3>1. ASSUME NEW i \in 1..Len(granted[k])
              PROVE  Holding(k)' + Spent(k, i)' <= Full(k)' + Refilled(k, i)'
            <4>1. old + Spent(k, i) <= Full(k) + Refilled(k, i)
                BY <2>7 DEF BudgetInv, NotTooMuch
            <4>2. /\ Spent(k, i) \in Nat /\ Spent(k, i)' = Spent(k, i)
                  /\ Refilled(k, i) \in Nat /\ Refilled(k, i)' = Refilled(k, i) + Capacity
                BY <2>4
            <4>3. CASE Holding(k)' = Full(k)
                <5>1. Full(k) <= old + Capacity
                    BY <2>3, <4>3, <2>5, <2>1
                <5>2. QED
                    BY <4>1, <4>2, <4>3, <5>1, <2>1, <2>5, <2>f
            <4>4. CASE Holding(k)' = old + Capacity
                BY <4>1, <4>2, <4>4, <2>1, <2>5, <2>f
            <4>5. QED
                BY <4>3, <4>4, <2>3
        <3>2. QED
            BY Zenon, <3>1, <2>f DEF NotTooMuch
    <2>8. QED
        BY <2>6, <2>7
<1>4. QED
    BY <1>2, <1>3 DEF BudgetInv

\* A call of j keeps the level of every other bucket; k is dropped only if it is full
\* or has the longer window.
LEMMA PrunedLevel ==
    ASSUME ClockOK, NEW j \in Buckets, NEW k \in Buckets
    PROVE  /\ Pruned(j)[k] \in BucketRecord /\ Pruned(j)[k].last <= now
           /\ Level(k, Pruned(j)[k]) \in {Holding(k), Full(k)}
           /\ Window(k) <= Window(j) => Level(k, Pruned(j)[k]) = Holding(k)
<1>1. bucket[k] \in BucketRecord /\ bucket[k].last <= now /\ now \in Nat
    BY DEF ClockOK
<1>2. Pruned(j)[k] = bucket[k] \/ (Pruned(j)[k] = Absent /\ Stale(j, bucket[k]))
    BY DEF Pruned, ClockOK
<1>3. CASE Pruned(j)[k] = bucket[k]
    BY <1>1, <1>3 DEF Holding
<1>4. CASE Pruned(j)[k] = Absent /\ Stale(j, bucket[k])
    <2>1. Absent \in BucketRecord /\ Absent.last <= now /\ ~Absent.here
        BY <1>1 DEF Absent, BucketRecord
    <2>2. Level(k, Absent) = Full(k)
        BY <1>1, <2>1, LevelType
    <2>3. Window(k) <= Window(j) => Holding(k) = Full(k)
        BY <1>1, <1>4, StaleIsFull DEF Holding
    <2>4. QED
        BY <1>4, <2>1, <2>2, <2>3
<1>5. QED
    BY <1>2, <1>3, <1>4

\* A level just stored is what a bucket holds.
LEMMA StoredLevel ==
    ASSUME now \in Nat, NEW k \in Buckets, NEW l \in Nat, l <= Full(k)
    PROVE  Level(k, [level |-> l, last |-> now, here |-> TRUE]) = l
<1>1. (now - now) * Capacity = 0
    BY LimitsAssumption
<1>2. PICK f \in Nat : f = Capacity * Window(k) /\ l <= f
    BY FullType DEF Full
<1>3. QED
    BY <1>1, <1>2 DEF Level

LEMMA TakeBudget ==
    ASSUME BudgetInv, NEW j \in Buckets, Take(j)
    PROVE  BudgetInv'
<1> DEFINE old == Holding(j)
           new == IF old >= Window(j) THEN old - Window(j) ELSE old
           b == [level |-> new, last |-> now, here |-> TRUE]
           n == Len(granted[j])
<1>t. ClockOK /\ now \in Nat
    BY DEF BudgetInv, ClockOK
<1>1. Level(j, Pruned(j)[j]) = old
    BY <1>t, FullType, PrunedLevel
<1>2. old \in Nat /\ old <= Full(j) /\ Full(j) \in Nat /\ Window(j) \in Nat \ {0}
    BY <1>t, LevelType, FullType DEF Holding, ClockOK
<1>3. /\ now' = now /\ bucket' = [Pruned(j) EXCEPT ![j] = b]
      /\ granted' = IF old >= Window(j) THEN [granted EXCEPT ![j] = Append(@, now)] ELSE granted
    BY <1>1 DEF Take, LetThrough
<1>4. new \in Nat /\ new <= Full(j) /\ b \in BucketRecord
    BY <1>2, <1>t DEF BucketRecord
<1>5. Pruned(j) \in [Buckets -> BucketRecord]
    BY <1>t DEF Pruned, ClockOK, Absent, BucketRecord
<1>6. /\ bucket' \in [Buckets -> BucketRecord] /\ bucket'[j] = b
      /\ \A k \in Buckets \ {j} : bucket'[k] = Pruned(j)[k]
    BY <1>3, <1>4, <1>5
<1>7. /\ granted' \in [Buckets -> Seq(Nat)]
      /\ \A k \in Buckets \ {j} : granted'[k] = granted[k]
      /\ old < Window(j) => granted'[j] = granted[j]
      /\ old >= Window(j) => granted'[j] = Append(granted[j], now)
    BY <1>2, <1>3, <1>t DEF ClockOK
<1>8. granted[j] \in Seq(Nat) /\ n \in Nat /\ \A i \in 1..n : granted[j][i] <= now
    BY <1>t DEF ClockOK
<1>a. /\ Append(granted[j], now) \in Seq(Nat) /\ Len(Append(granted[j], now)) = n + 1
      /\ Append(granted[j], now)[n + 1] = now
      /\ \A i \in 1..n : Append(granted[j], now)[i] = granted[j][i]
    BY <1>8, <1>t
<1>9. ClockOK'
    <2>1. \A k \in Buckets : bucket'[k].last <= now
        BY <1>t, <1>6, PrunedLevel
    <2>2. ASSUME NEW k \in Buckets, NEW i \in 1..Len(granted'[k]) PROVE granted'[k][i] <= now
        <3>1. CASE k # j \/ old < Window(j)
            BY <3>1, <1>7, <1>t DEF ClockOK
        <3>2. CASE k = j /\ old >= Window(j)
            <4>1. granted'[k] = Append(granted[j], now) /\ i \in 1..n + 1
                BY <3>2, <1>7, <1>a
            <4>2. CASE i = n + 1
                BY <4>1, <4>2, <1>a, <1>t
            <4>3. CASE i # n + 1
                <5>1. i \in 1..n
                    BY <4>1, <4>3, <1>8
                <5>2. QED
                    BY <4>1, <5>1, <1>a, <1>8
            <4>4. QED
                BY <4>2, <4>3
        <3>3. QED
            BY <3>1, <3>2, <1>2
    <2>3. QED
        BY <1>3, <1>6, <1>7, <1>t, <2>1, <2>2 DEF ClockOK
<1>10. ASSUME NEW k \in Buckets, k # j
       PROVE  Enough(k)' /\ (k \notin Hourly => NotTooMuch(k)')
    <2>1. Holding(k)' = Level(k, Pruned(j)[k])
        BY Zenon, <1>3, <1>6, <1>10 DEF Holding, Level, Window
    <2>2. /\ Holding(k)' \in {Holding(k), Full(k)}
          /\ k \notin Hourly => Holding(k)' = Holding(k)
        BY <2>1, <1>t, PrunedLevel, LimitsAssumption DEF Window
    <2>3. /\ granted'[k] = granted[k] /\ Full(k)' = Full(k)
          /\ \A i \in 1..Len(granted[k]) :
                Spent(k, i)' = Spent(k, i) /\ Refilled(k, i)' = Refilled(k, i)
        BY Zenon, <1>3, <1>7, <1>10 DEF Full, Window, Spent, Refilled
    <2>4. Enough(k)'
        <3>1. CASE Holding(k)' = Full(k)
            BY <3>1, <2>3 DEF Enough
        <3>2. CASE Holding(k)' = Holding(k)
            <4>1. CASE Holding(k) = Full(k)
                BY <4>1, <3>2, <2>3 DEF Enough
            <4>2. CASE Holding(k) # Full(k)
                <5>1. PICK i \in 1..Len(granted[k]) :
                         Full(k) + Refilled(k, i) <= Holding(k) + Spent(k, i)
                    BY <4>2 DEF BudgetInv, Enough
                <5>2. Full(k)' + Refilled(k, i)' <= Holding(k)' + Spent(k, i)'
                    BY <5>1, <3>2, <2>3
                <5>3. QED
                    BY Zenon, <5>2, <2>3 DEF Enough
            <4>3. QED
                BY <4>1, <4>2
        <3>3. QED
            BY <2>2, <3>1, <3>2
    <2>5. ASSUME k \notin Hourly PROVE NotTooMuch(k)'
        <3>1. ASSUME NEW i \in 1..Len(granted[k])
              PROVE  Holding(k)' + Spent(k, i)' <= Full(k)' + Refilled(k, i)'
            BY <2>2, <2>3, <2>5 DEF BudgetInv, NotTooMuch
        <3>2. QED
            BY Zenon, <3>1, <2>3 DEF NotTooMuch
    <2>6. QED
        BY <2>4, <2>5
<1>11. Enough(j)' /\ (j \notin Hourly => NotTooMuch(j)')
    <2>1. Holding(j)' = new
        <3>1. Holding(j)' = Level(j, b)
            BY Zenon, <1>3, <1>6 DEF Holding, Level, Window
        <3>2. QED
            BY <3>1, <1>4, <1>t, StoredLevel
    <2>2. Full(j)' = Full(j)
        BY DEF Full, Window
    <2>3. CASE old < Window(j)
        <3>1. Holding(j)' = Holding(j) /\ granted'[j] = granted[j]
            BY <2>1, <2>3, <1>2, <1>7
        <3>2. \A i \in 1..Len(granted[j]) :
                 Spent(j, i)' = Spent(j, i) /\ Refilled(j, i)' = Refilled(j, i)
            BY Zenon, <3>1, <1>3 DEF Window, Spent, Refilled
        <3>3. QED
            BY <2>2, <3>1, <3>2 DEF BudgetInv, Enough, NotTooMuch
    <2>4. CASE old >= Window(j)
        <3>1. /\ Len(granted'[j]) = n + 1 /\ granted'[j][n + 1] = now
              /\ \A i \in 1..n : granted'[j][i] = granted[j][i]
            BY <2>4, <1>7, <1>a
        <3>2. ASSUME NEW i \in 1..n
              PROVE  /\ Spent(j, i)' = Spent(j, i) + Window(j) /\ Refilled(j, i)' = Refilled(j, i)
                     /\ Spent(j, i) \in Nat /\ Refilled(j, i) \in Nat
            <4>1. Spent(j, i)' = (((n + 1) - i) + 1) * Window(j)
                <5>1. Spent(j, i)' = (Len(granted'[j]) - i + 1) * Window(j)
                    BY Zenon DEF Spent, Window
                <5>2. QED
                    BY Zenon, <3>1, <5>1
            <4>2. (((n + 1) - i) + 1) * Window(j) = (n - i + 1) * Window(j) + Window(j)
                BY <1>2, <1>8
            <4>3. Refilled(j, i)' = Refilled(j, i)
                BY Zenon, <3>1, <1>3 DEF Refilled
            <4>4. n - i + 1 \in Nat /\ now - granted[j][i] \in Nat
                BY <1>8, <1>t DEF ClockOK
            <4>5. Spent(j, i) \in Nat /\ Refilled(j, i) \in Nat
                BY <4>4, FullType, ProductType DEF Spent, Refilled
            <4>6. QED
                BY <4>1, <4>2, <4>3, <4>5 DEF Spent
        <3>m. PICK m \in Nat : m = n + 1
            BY <1>8
        <3>3. Spent(j, m)' = Window(j) /\ Refilled(j, m)' = 0
            <4>1. Len(granted'[j]) = m /\ granted'[j][m] = now
                BY <3>1, <3>m
            <4>2. Spent(j, m)' = (m - m + 1) * Window(j)
                <5>1. Spent(j, m)' = (Len(granted'[j]) - m + 1) * Window(j)
                    BY Zenon DEF Spent, Window
                <5>2. QED
                    BY Zenon, <4>1, <5>1
            <4>3. Refilled(j, m)' = (now - now) * Capacity
                BY Zenon, <4>1, <1>3 DEF Refilled
            <4>4. (m - m + 1) * Window(j) = Window(j) /\ (now - now) * Capacity = 0
                BY <1>2, <1>t, FullType
            <4>5. QED
                BY <4>2, <4>3, <4>4
        <3>4. new = old - Window(j)
            BY <2>4
        <3>5. Enough(j)'
            <4>1. CASE old = Full(j)
                <5>1. Full(j) + Refilled(j, m)' <= new + Spent(j, m)'
                    BY <4>1, <3>3, <3>4, <1>2
                <5>2. m \in 1..Len(granted'[j])
                    BY <3>1, <3>m
                <5>3. QED
                    BY <5>1, <5>2, <2>1, <2>2 DEF Enough
            <4>2. CASE old # Full(j)
                <5>1. PICK i \in 1..n : Full(j) + Refilled(j, i) <= old + Spent(j, i)
                    BY <4>2 DEF BudgetInv, Enough
                <5>2. Full(j) + Refilled(j, i)' <= new + Spent(j, i)'
                    BY <5>1, <3>2, <3>4, <1>2
                <5>3. QED
                    BY <5>2, <2>1, <2>2, <3>1, <1>8 DEF Enough
            <4>3. QED
                BY <4>1, <4>2
        <3>6. ASSUME j \notin Hourly PROVE NotTooMuch(j)'
            <4>1. ASSUME NEW i \in 1..m PROVE new + Spent(j, i)' <= Full(j) + Refilled(j, i)'
                <5>1. CASE i = m
                    BY <5>1, <3>3, <3>4, <1>2
                <5>2. CASE i \in 1..n
                    <6>1. old + Spent(j, i) <= Full(j) + Refilled(j, i)
                        BY <5>2, <3>6 DEF BudgetInv, NotTooMuch
                    <6>2. QED
                        BY <5>2, <6>1, <3>2, <3>4, <1>2
                <5>3. QED
                    BY <5>1, <5>2, <1>8, <3>m
            <4>2. QED
                BY <4>1, <2>1, <2>2, <3>1, <3>m DEF NotTooMuch
        <3>7. QED
            BY <3>5, <3>6
    <2>5. QED
        BY <2>3, <2>4, <1>2
<1>12. QED
    BY <1>9, <1>10, <1>11 DEF BudgetInv

LEMMA NextBudget == BudgetInv /\ [LimitsNext]_limitVars => BudgetInv'
<1> SUFFICES ASSUME BudgetInv, [LimitsNext]_limitVars PROVE BudgetInv'
    OBVIOUS
<1>1. ASSUME RestartProcess PROVE BudgetInv'
    <2>1. Absent \in BucketRecord /\ Absent.last = 0 /\ ~Absent.here /\ now \in Nat
        BY DEF Absent, BucketRecord, BudgetInv, ClockOK
    <2>2. ClockOK'
        BY <1>1, <2>1 DEF RestartProcess, ClockOK
    <2>3. ASSUME NEW k \in Buckets PROVE Enough(k)' /\ NotTooMuch(k)'
        <3>1. Level(k, Absent) = Full(k)
            BY <2>1, LevelType
        <3>2. Holding(k)' = Level(k, Absent) /\ Full(k)' = Full(k)
            BY Zenon, <1>1 DEF RestartProcess, Holding, Level, Window, Full
        <3>3. Len(granted'[k]) = 0
            BY <1>1 DEF RestartProcess
        <3>4. QED
            BY <3>1, <3>2, <3>3 DEF Enough, NotTooMuch
    <2>4. QED
        BY <2>2, <2>3 DEF BudgetInv
<1>2. ASSUME UNCHANGED limitVars PROVE BudgetInv'
    BY <1>2 DEF limitVars, BudgetInv, ClockOK, Enough, NotTooMuch, Holding, Level, Full, Window,
        Spent, Refilled
<1>3. QED
    BY <1>1, <1>2, ElapseBudget, TakeBudget DEF LimitsNext

\* BudgetExact of LimitsSpec: with any capacity, windows and number of buckets, a call is
\* let through exactly when every span that ends with it stays within the budget; the
\* buckets with the longer window are never refused too early.
THEOREM CallsWithinBudget == LimitsSpec => []BudgetExact
<1>1. BudgetInv => BudgetExact
    <2> SUFFICES ASSUME BudgetInv, NEW k \in Buckets
                 PROVE  /\ WithinBudget(k) => LetThrough(k)
                        /\ (LetThrough(k) /\ k \notin Hourly) => WithinBudget(k)
        BY DEF BudgetExact
    <2> DEFINE n == Len(granted[k])
    <2>1. ClockOK /\ now \in Nat /\ n \in Nat
        BY DEF BudgetInv, ClockOK
    <2>2. LetThrough(k) <=> Holding(k) >= Window(k)
        BY <2>1, FullType, PrunedLevel DEF LetThrough
    <2>3. Holding(k) \in Nat /\ Window(k) \in Nat \ {0} /\ Full(k) \in Nat /\ Window(k) <= Full(k)
        BY <2>1, LevelType, FullType DEF Holding, ClockOK
    <2>4. ASSUME NEW i \in 1..n
          PROVE  /\ Spent(k, i) \in Nat /\ Refilled(k, i) \in Nat
                 /\ (n - i + 2) * Window(k) = Spent(k, i) + Window(k)
        <3>1. n - i + 1 \in Nat /\ now - granted[k][i] \in Nat
            BY <2>1 DEF ClockOK
        <3>2. Spent(k, i) \in Nat /\ Refilled(k, i) \in Nat
            BY <3>1, FullType, ProductType DEF Spent, Refilled
        <3>3. (n - i + 2) * Window(k) = (n - i + 1) * Window(k) + Window(k)
            BY <2>1, <2>3
        <3>4. QED
            BY <3>2, <3>3 DEF Spent
    <2>5. WithinBudget(k) <=>
             \A i \in 1..n : Spent(k, i) + Window(k) <= Full(k) + Refilled(k, i)
        BY <2>4 DEF WithinBudget, Full, Refilled
    <2>6. ASSUME WithinBudget(k) PROVE LetThrough(k)
        <3>1. CASE Holding(k) = Full(k)
            BY <3>1, <2>2, <2>3
        <3>2. CASE Holding(k) # Full(k)
            <4>1. PICK i \in 1..n : Full(k) + Refilled(k, i) <= Holding(k) + Spent(k, i)
                BY <3>2 DEF BudgetInv, Enough
            <4>2. Spent(k, i) + Window(k) <= Full(k) + Refilled(k, i)
                BY <2>5, <2>6
            <4>3. QED
                BY <4>1, <4>2, <2>2, <2>3, <2>4
        <3>3. QED
            BY <3>1, <3>2
    <2>7. ASSUME LetThrough(k), k \notin Hourly PROVE WithinBudget(k)
        <3>1. \A i \in 1..n : Holding(k) + Spent(k, i) <= Full(k) + Refilled(k, i)
            BY <2>7 DEF BudgetInv, NotTooMuch
        <3>2. ASSUME NEW i \in 1..n PROVE Spent(k, i) + Window(k) <= Full(k) + Refilled(k, i)
            BY <3>1, <2>2, <2>3, <2>4, <2>7
        <3>3. QED
            BY <3>2, <2>5
    <2>8. QED
        BY <2>6, <2>7
<1>2. QED
    BY <1>1, InitBudget, NextBudget, PTL DEF LimitsSpec

-----------------------------------------------------------------------------
(***************************************************************************)
(* The sum of the five components adds nothing to them: a behaviour of the *)
(* specification that is model-checked is one of each component, so what is *)
(* proved of a component alone holds of the sum.                           *)
(***************************************************************************)
THEOREM AccessCompose ==
    AccessSpec => GrantsSpec /\ RotationSpec /\ SignInSpec /\ FactorSpec /\ LimitsSpec
<1>1. AccessInit => GrantsInit /\ RotationInit /\ SignInInit /\ FactorInit /\ LimitsInit
  BY DEF AccessInit
<1>2. [AccessNext]_accessVars => [GrantsNext]_grantsVars
  BY DEF AccessNext, accessVars
<1>3. [AccessNext]_accessVars => [RotationNext]_rotationVars
  BY DEF AccessNext, accessVars
<1>4. [AccessNext]_accessVars => [SignInNext]_signInVars
  BY DEF AccessNext, accessVars
<1>5. [AccessNext]_accessVars => [FactorNext]_factorVars
  BY DEF AccessNext, accessVars
<1>6. [AccessNext]_accessVars => [LimitsNext]_limitVars
  BY DEF AccessNext, accessVars
<1>7. QED
  BY <1>1, <1>2, <1>3, <1>4, <1>5, <1>6, PTL
     DEF AccessSpec, GrantsSpec, RotationSpec, SignInSpec, FactorSpec, LimitsSpec
=============================================================================

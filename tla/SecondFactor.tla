---------------------------- MODULE SecondFactor ----------------------------
(***************************************************************************)
(* The second factor of one account: enrolment and rotation of the TOTP    *)
(* secret, its confirmation, the step-up of a session by a TOTP or a       *)
(* recovery code, and removal.  Every route reads the credential, checks   *)
(* the failures and the code supplied against what it read, and writes in  *)
(* a later statement that names the account only.                          *)
(*                                                                         *)
(* A TOTP code is the secret it was made with, a recovery code the         *)
(* enrolment that issued it and its number.                                *)
(***************************************************************************)
EXTENDS Naturals, FiniteSets

CONSTANTS
    Steps,            \* requests; each is served once
    Devices,          \* sessions of the account
    RecoveryCodes,    \* RECOVERY_CODES_COUNT of them per enrolment
    MaxSecrets,       \* bound: secrets generated
    MaxMfaFailures    \* MFA_VERIFY_WINDOW_MAX

ASSUME SecondFactorAssumption == {MaxSecrets, MaxMfaFailures} \subseteq Nat \ {0}

VARIABLES
    factor,       \* the row of mfa_credentials
    recovery,     \* mfa_recovery_codes: the enrolment they belong to, and the unused ones
    generated,    \* secrets generated so far
    mfaFailures,  \* mfa_verify_failures inside the window
    stamp,        \* sessions.mfa_verified_at
    step          \* each request: where it is, the secret and the code it has

factorVars == <<factor, recovery, generated, mfaFailures, stamp, step>>

Secrets == 1..MaxSecrets
NoSecret == 0
StepPhases == {"idle", "enrolling", "confirming", "disabling", "spending", "stamping",
               "clearing", "failing", "done"}
Issued == [of : Secrets, nr : RecoveryCodes]

FactorTypeOK ==
    /\ factor \in [secret : Secrets \cup {NoSecret}, confirmed : BOOLEAN]
    /\ recovery \in [of : Secrets \cup {NoSecret}, unused : SUBSET RecoveryCodes]
    /\ generated \in 0..MaxSecrets
    /\ mfaFailures \in Nat
    /\ stamp \in [Devices -> {"never", "fresh", "stale"}]
    /\ step \in [Steps -> [phase : StepPhases, proved : Secrets \cup {NoSecret},
                           device : SUBSET Devices, codes : SUBSET Issued]]

NotEnrolled == [secret |-> NoSecret, confirmed |-> FALSE]
NoRecovery == [of |-> NoSecret, unused |-> {}]
NoStep == [phase |-> "idle", proved |-> NoSecret, device |-> {}, codes |-> {}]

(***************************************************************************)
(* Nothing is enrolled, or a factor has been confirmed for a while.        *)
(***************************************************************************)
FactorInit ==
    /\ mfaFailures = 0
    /\ stamp = [d \in Devices |-> "never"]
    /\ step = [r \in Steps |-> NoStep]
    /\ \/ factor = NotEnrolled /\ recovery = NoRecovery /\ generated = 0
       \/ /\ factor = [secret |-> 1, confirmed |-> TRUE]
          /\ recovery = [of |-> 1, unused |-> RecoveryCodes]
          /\ generated = 1

Held == factor.secret # NoSecret
Locked == mfaFailures >= MaxMfaFailures

Go(r, phase, proved) == step' = [step EXCEPT ![r].phase = phase, ![r].proved = proved]

(***************************************************************************)
(* The check of a supplied code against the row just read: it goes on with *)
(* the secret it has proved, or it fails.                                  *)
(***************************************************************************)
Check(r, phase) ==
    /\ ~Locked
    /\ Go(r, phase, factor.secret) \/ Go(r, "failing", NoSecret)
    /\ UNCHANGED <<factor, recovery, generated, mfaFailures, stamp>>

RecordMfaFailure(r) ==
    /\ step[r].phase = "failing"
    /\ mfaFailures' = mfaFailures + 1
    /\ Go(r, "done", NoSecret)
    /\ UNCHANGED <<factor, recovery, generated, stamp>>

ClearFailures(r) ==
    /\ step[r].phase = "clearing"
    /\ mfaFailures' = 0
    /\ Go(r, "done", NoSecret)
    /\ UNCHANGED <<factor, recovery, generated, stamp>>

-----------------------------------------------------------------------------
(***************************************************************************)
(* POST /api/me/mfa/totp.  Only a confirmed factor asks for a code; what   *)
(* enrollTotp then replaces, in one transaction, is the row by its account.*)
(***************************************************************************)
Rotate(r) ==
    /\ step[r].phase = "idle"
    /\ IF factor.confirmed THEN Check(r, "enrolling")
       ELSE /\ Go(r, "enrolling", NoSecret)
            /\ UNCHANGED <<factor, recovery, generated, mfaFailures, stamp>>

Enrolled(secret) == [of |-> secret, unused |-> RecoveryCodes]

EnrollTotp(r) ==
    /\ step[r].phase = "enrolling"
    /\ generated < MaxSecrets
    /\ generated' = generated + 1
    /\ factor' = [secret |-> generated + 1, confirmed |-> FALSE]
    /\ recovery' = Enrolled(generated + 1)
    /\ mfaFailures' = 0
    /\ Go(r, "done", NoSecret)
    /\ UNCHANGED stamp

(***************************************************************************)
(* confirmTotpEnrollment: an enrolment already confirmed is answered "ok". *)
(***************************************************************************)
Confirm(r) ==
    /\ step[r].phase = "idle"
    /\ Held /\ ~factor.confirmed
    /\ Check(r, "confirming")

SetConfirmed(r) ==
    /\ step[r].phase = "confirming"
    /\ factor' = [factor EXCEPT !.confirmed = Held]
    /\ Go(r, "clearing", NoSecret)
    /\ UNCHANGED <<recovery, generated, mfaFailures, stamp>>

(***************************************************************************)
(* disableMfa.                                                             *)
(***************************************************************************)
Disable(r) ==
    /\ step[r].phase = "idle"
    /\ factor.confirmed
    /\ Check(r, "disabling")

DeleteFactor(r) ==
    /\ step[r].phase = "disabling"
    /\ factor' = NotEnrolled
    /\ recovery' = NoRecovery
    /\ mfaFailures' = 0
    /\ Go(r, "done", NoSecret)
    /\ UNCHANGED <<generated, stamp>>

-----------------------------------------------------------------------------
(***************************************************************************)
(* verifyMfaForSession: with a TOTP code (StepUp), or with a recovery code *)
(* (StepUpByRecovery), which is looked up and used by one statement.       *)
(***************************************************************************)
StepUp(r, d) ==
    /\ step[r].phase = "idle"
    /\ factor.confirmed /\ ~Locked
    /\ \/ step' = [step EXCEPT ![r].phase = "stamping", ![r].device = {d}]
       \/ step' = [step EXCEPT ![r].phase = "failing"]
    /\ UNCHANGED <<factor, recovery, generated, mfaFailures, stamp>>

StepUpByRecovery(r, d, c) ==
    /\ step[r].phase = "idle"
    /\ factor.confirmed /\ ~Locked
    /\ c.of <= generated
    /\ step' = [step EXCEPT ![r].phase = "spending", ![r].device = {d}, ![r].codes = {c}]
    /\ UNCHANGED <<factor, recovery, generated, mfaFailures, stamp>>

\* Mutant: used_at is not looked at.
OfThisEnrolment(c) == c.of = recovery.of

Unused(c) == c.of = recovery.of /\ c.nr \in recovery.unused

SpendRecovery(r) ==
    /\ step[r].phase = "spending"
    /\ \E c \in step[r].codes :
         \/ /\ Unused(c)
            /\ recovery' = [recovery EXCEPT !.unused = recovery.unused \ {c.nr}]
            /\ step' = [step EXCEPT ![r].phase = "stamping"]
         \/ /\ ~Unused(c)
            /\ step' = [step EXCEPT ![r].phase = "failing", ![r].codes = {}]
            /\ UNCHANGED recovery
    /\ UNCHANGED <<factor, generated, mfaFailures, stamp>>

StampSession(r) ==
    /\ step[r].phase = "stamping"
    /\ stamp' = [d \in Devices |-> IF d \in step[r].device THEN "fresh" ELSE stamp[d]]
    /\ Go(r, "clearing", NoSecret)
    /\ UNCHANGED <<factor, recovery, generated, mfaFailures>>

-----------------------------------------------------------------------------
(***************************************************************************)
(* The half hour of a stamp, and the window of the failures.               *)
(***************************************************************************)
StampLapses(d) ==
    /\ stamp[d] = "fresh"
    /\ stamp' = [stamp EXCEPT ![d] = "stale"]
    /\ UNCHANGED <<factor, recovery, generated, mfaFailures, step>>

MfaWindowSlides ==
    /\ mfaFailures > 0
    /\ mfaFailures' = mfaFailures - 1
    /\ UNCHANGED <<factor, recovery, generated, stamp, step>>

FactorNext ==
    \/ \E r \in Steps : Rotate(r) \/ Confirm(r) \/ Disable(r)
    \/ \E r \in Steps : EnrollTotp(r) \/ SetConfirmed(r) \/ DeleteFactor(r)
    \/ \E r \in Steps, d \in Devices : StepUp(r, d)
    \/ \E r \in Steps, d \in Devices, c \in Issued : StepUpByRecovery(r, d, c)
    \/ \E r \in Steps : SpendRecovery(r) \/ StampSession(r)
    \/ \E r \in Steps : RecordMfaFailure(r) \/ ClearFailures(r)
    \/ \E d \in Devices : StampLapses(d)
    \/ MfaWindowSlides

FactorSpec == FactorInit /\ [][FactorNext]_factorVars

-----------------------------------------------------------------------------
(***************************************************************************)
(* A recovery code steps one session up, once, however many requests       *)
(* present it and whatever enrolments come between (consumeRecoveryCode,   *)
(* "race-safe single use").                                                *)
(***************************************************************************)
Stepped(r) == IF step[r].phase \in {"spending", "failing"} THEN {} ELSE step[r].codes

RecoveryCodeOnce ==
    \A r, t \in Steps : r # t => Stepped(r) \cap Stepped(t) = {}

(***************************************************************************)
(* The recovery codes on file are those of the secret on file, so that     *)
(* whoever lost the device has codes that work: whatever rotations,        *)
(* removals and step-ups overlap.                                          *)
(***************************************************************************)
RecoveryFitsFactor == recovery.of = factor.secret
=============================================================================

------------------------ MODULE ConnectionLifecycle ------------------------
(***************************************************************************)
(* What /me/connections promises about one account's Google connection     *)
(* (src/src/domain/google-oauth.ts, googleGrantState): a connection comes  *)
(* from a consent that was redeemed for this account and from nothing      *)
(* else, it may expire and be renewed, and once it is revoked or forgotten *)
(* only another consent brings it back.                                    *)
(***************************************************************************)

CONSTANTS Accounts, Requests

VARIABLES
    state,        \* the word the page shows for each account
    redeemed      \* the callbacks of each account that hold a redeemed consent

Words == {"not_connected", "connected", "expired", "revoked"}

Init == /\ state \in [Accounts -> {"not_connected", "connected"}]
        /\ redeemed = [a \in Accounts |-> {}]

Redeem(a, r) == /\ redeemed' = [redeemed EXCEPT ![a] = redeemed[a] \cup {r}]
                /\ UNCHANGED state

Connect(a, r) == /\ r \in redeemed[a]
                 /\ redeemed' = [redeemed EXCEPT ![a] = redeemed[a] \ {r}]
                 /\ state' = [state EXCEPT ![a] = "connected"]

(***************************************************************************)
(* What may happen to a connection without a consent: it expires and comes *)
(* back while it stands, it ends as revoked, and it is forgotten.          *)
(***************************************************************************)
Ways(s) == CASE s = "connected" -> {"expired", "revoked", "not_connected"}
             [] s = "expired"   -> {"connected", "revoked", "not_connected"}
             [] s = "revoked"   -> {"not_connected"}
             [] OTHER           -> {}

Move(a) == /\ \E s \in Ways(state[a]) : state' = [state EXCEPT ![a] = s]
           /\ UNCHANGED redeemed

Next == \E a \in Accounts : \/ \E r \in Requests : Redeem(a, r) \/ Connect(a, r)
                            \/ Move(a)

Spec == Init /\ [][Next]_<<state, redeemed>>
=============================================================================

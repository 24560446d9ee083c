------------------------------ MODULE MCMembers ------------------------------
(***************************************************************************)
(* What members do outside of introductions: linking a chat, keeping notes *)
(* and being reminded of them, joining and leaving an event.  The three    *)
(* components share no state: one run checks them, each from its own       *)
(* initial states, with the others at rest.  They share the model values.  *)
(***************************************************************************)
EXTENDS TelegramLink, FollowUp, Membership, TLC

CONSTANTS a1, a2, b1, b2, c1, c2, d1, d2, e1, e2, g1

VARIABLE part

Parts == {"link", "follow-up", "membership"}

MembersInit ==
    /\ part \in Parts
    /\ LinkInit
    /\ FollowUpInit /\ (part # "follow-up" => mutual = {})
    /\ MembershipInit

MembersNext ==
    /\ UNCHANGED part
    /\ \/ part = "link" /\ LinkNext /\ UNCHANGED <<followUpVars, memberVars>>
       \/ part = "follow-up" /\ FollowUpNext /\ UNCHANGED <<linkVars, memberVars>>
       \/ part = "membership" /\ MembershipNext /\ UNCHANGED <<linkVars, followUpVars>>

membersVars == <<part, linkVars, followUpVars, memberVars>>

MembersSpec == MembersInit /\ [][MembersNext]_membersVars

MembersSymmetry ==
    UNION {Permutations(S) : S \in {{a1, a2}, {b1, b2}, {c1, c2}, {d1, d2}, {e1, e2}}}

==============================================================================

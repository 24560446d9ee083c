------------------------------- MODULE MCAccess -------------------------------
(***************************************************************************)
(* The components behind an account's access share no state: one run       *)
(* checks them all, each from its own initial states, with the others at   *)
(* rest in theirs.  They also share the model values: what is x2 to one    *)
(* component has nothing to do with what is x2 to another.                 *)
(***************************************************************************)
EXTENDS OAuthGrants, KeyRotation, SignIn, SecondFactor, RateLimits, TLC

CONSTANTS a1, a2, x1, x2, x3, y1, y2

VARIABLE part

Parts == {"grants", "rotation", "sign-in", "factor", "limits"}

AccessInit ==
    /\ part \in Parts
    /\ GrantsInit /\ (part # "grants" => google.given = 0)
    /\ RotationInit /\ (part # "rotation" => \A i \in RowIds : payload[i] = Null)
    /\ SignInInit
    /\ FactorInit /\ (part # "factor" => generated = 0)
    /\ LimitsInit

AccessNext ==
    /\ UNCHANGED part
    /\ \/ /\ part = "grants" /\ GrantsNext
          /\ UNCHANGED <<rotationVars, signInVars, factorVars, limitVars>>
       \/ /\ part = "rotation" /\ RotationNext
          /\ UNCHANGED <<grantsVars, signInVars, factorVars, limitVars>>
       \/ /\ part = "sign-in" /\ SignInNext
          /\ UNCHANGED <<grantsVars, rotationVars, factorVars, limitVars>>
       \/ /\ part = "factor" /\ FactorNext
          /\ UNCHANGED <<grantsVars, rotationVars, signInVars, limitVars>>
       \/ /\ part = "limits" /\ LimitsNext
          /\ UNCHANGED <<grantsVars, rotationVars, signInVars, factorVars>>

accessVars == <<part, grantsVars, rotationVars, signInVars, factorVars, limitVars>>

AccessSpec == AccessInit /\ [][AccessNext]_accessVars

AccessSymmetry == Permutations({x1, x2, x3}) \cup Permutations({y1, y2})

==============================================================================

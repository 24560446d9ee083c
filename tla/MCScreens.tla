------------------------------ MODULE MCScreens ------------------------------
(***************************************************************************)
(* The screens of members and organizers.  They share no state: one run    *)
(* checks them, each from its own initial states with the others at rest.  *)
(***************************************************************************)
EXTENDS DirectoryPanel, IntroWindows, CampaignCard

VARIABLE part

Parts == {"directory", "windows", "campaign"}

ScreensInit ==
    /\ part \in Parts
    /\ DirectoryInit /\ (part # "directory" => filters.mode = "all" /\ filters.text = "")
    /\ WindowsInit
    /\ CardInit /\ (part # "campaign" => campaign = "draft")

ScreensNext ==
    /\ UNCHANGED part
    /\ \/ part = "directory" /\ DirectoryNext /\ UNCHANGED <<windowVars, cardVars>>
       \/ part = "windows" /\ WindowsNext /\ UNCHANGED <<directoryVars, cardVars>>
       \/ part = "campaign" /\ CardNext /\ UNCHANGED <<directoryVars, windowVars>>

screensVars == <<part, directoryVars, windowVars, cardVars>>

ScreensSpec == ScreensInit /\ [][ScreensNext]_screensVars

-----------------------------------------------------------------------------
\* Every variable of every part keeps to its type.
ScreensTypesOK == DirectoryTypeOK /\ WindowsTypeOK /\ CardTypeOK
==============================================================================

--------------------------------- MODULE Ui ---------------------------------
(***************************************************************************)
(* App, Keymap and Sidebar together.  They share no state: keys.json is     *)
(* read once, and App has a row of the list as whatever the user may pick.  *)
(* So a behaviour moves one of them and leaves the others at their start.   *)
(***************************************************************************)
EXTENDS App, Keymap, Sidebar

VARIABLE part   \* which of them moves

UiInit ==
    /\ part \in {"app", "keymap", "sidebar"}
    /\ AppInit /\ (part # "app" => ~opened)
    /\ KeymapInit /\ (part # "keymap" => DOMAIN user = {})
    /\ SidebarInit
UiNext ==
    /\ UNCHANGED part
    /\ \/ part = "app" /\ AppNext /\ UNCHANGED <<keymapVars, sidebarVars>>
       \/ part = "keymap" /\ KeymapNext /\ UNCHANGED <<appVars, sidebarVars>>
       \/ part = "sidebar" /\ SidebarNext /\ UNCHANGED <<appVars, keymapVars>>
UiSpec == UiInit /\ [][UiNext]_<<part, appVars, keymapVars, sidebarVars>>

-----------------------------------------------------------------------------

\* The state of each part is within its types, and what is on screen is whole.
UiConsistent == AppTypeOK /\ KeymapTypeOK /\ ListIsWhole
=============================================================================

---------------------------- MODULE MountedScreen ----------------------------
(***************************************************************************)
(* What the screens of EntryForms and ReportScreens have in common: the    *)
(* one that is mounted, its flag and its handlers.                         *)
(***************************************************************************)

CONSTANTS
  Calls,      \* bound: the handlers waiting at the same time
  None

VARIABLES
  mounted,    \* the screen
  loading,    \* the flag that disables its buttons, or hides its parts
  calls       \* the handlers waiting for an answer
=============================================================================

------------------------------ MODULE Browser -------------------------------
(***************************************************************************)
(* What runs in a visitor's browser: the console, the KYC page with its    *)
(* backend, and the SDK.  They share no state.                             *)
(***************************************************************************)
EXTENDS Console, KycClients, KycPage, SdkActions

(* Types of the tabs and of the page with its backend: a page that loads   *)
(* or runs the widget has a session, and only a running one polls.         *)
ClientsTypeOK == ConsoleTypeOK /\ PageTypeOK

=============================================================================

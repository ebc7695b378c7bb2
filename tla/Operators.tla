----------------------------- MODULE Operators ------------------------------
(***************************************************************************)
(* The commands of the issuer with the monitor over their files, and the   *)
(* clients of an anchor: what operators run by hand and may stop anywhere. *)
(* They share no file.                                                     *)
(***************************************************************************)
EXTENDS Monitoring, AnchorFlow

(* Types of what operators run: a command that writes a list has one, a    *)
(* running command has a step left, an issuance that is whole says whom it *)
(* blocks, and a client's quote is one that the anchor has made.           *)
OperatorTypeOK == OpsTypeOK /\ AnchorTypeOK

=============================================================================

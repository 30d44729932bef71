---------------------------- MODULE MCPlayground ----------------------------
(***************************************************************************)
(* Two accepted texts and a rejected one in each editor: every order of    *)
(* edits, evaluations, exports and dialogs.                                *)
(***************************************************************************)
EXTENDS Playground
=============================================================================

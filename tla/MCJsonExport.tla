---------------------------- MODULE MCJsonExport ----------------------------
(***************************************************************************)
(* Small instances of JsonExport: two exports to one path, each failing or *)
(* interrupted anywhere; and one export while another process changes the  *)
(* mode of the destination.                                                *)
(***************************************************************************)
EXTENDS JsonExport

TwoWriters == {"w1", "w2"}
OneWriter == {"w1"}

\* 0o600 and 0o640.
OwnerOnly == "rw-------"
GroupReads == "rw-r-----"
TwoModes == {OwnerOnly, GroupReads}
=============================================================================

----------------------------- MODULE MCAssistant -----------------------------
(* A small instance of Assistant: an administrator and an analyst, both    *)
(* with the panel open, and listings of two rows with room for a third.     *)
EXTENDS Assistant

Staff == [u \in Users |-> IF u = "root" THEN "admin" ELSE "analyst"]

\* The panel goes off, or a role is trusted with less.
Changes ==
  {[enabled |-> FALSE, role |-> "admin", level |-> "write"],
   [enabled |-> TRUE, role |-> "admin", level |-> "read"],
   [enabled |-> TRUE, role |-> "analyst", level |-> "none"]}

TwoRows == <<11, 12>>
=============================================================================

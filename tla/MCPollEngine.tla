---------------------------- MODULE MCPollEngine -----------------------------
(* Small instances of PollEngine: two collectors polled in id order. *)
EXTENDS PollEngine

Setting(category, config, enabled) ==
  [category |-> category, config |-> config, enabled |-> enabled]

\* A collector of any kind that may be disabled, lose its credential or be
\* misconfigured.
PollInputs == {Setting("dhcp", "good", TRUE), Setting("dns", "good", FALSE),
               Setting("dns", "unresolved", TRUE),
               Setting("device", "unbuildable", TRUE)}
=============================================================================

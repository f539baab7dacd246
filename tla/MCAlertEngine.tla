---------------------------- MODULE MCAlertEngine ----------------------------
(* Small instances of AlertEngine. *)
EXTENDS AlertEngine

CONSTANTS a1, c1

RuleOf(cond, threshold, cooldown, enabled) ==
  [cond |-> cond, threshold |-> threshold, cooldown |-> cooldown,
   enabled |-> enabled]

\* A threshold that is set, and one of 0 that means 85; with and without cooldown.
MCRules == {RuleOf("subnet_near_exhaustion", 0, TRUE, TRUE),
            RuleOf("dhcp_pool_exhausted", 40, FALSE, TRUE),
            RuleOf("dns_ptr_mismatch", NULL, TRUE, TRUE),
            RuleOf("ip_conflict_detected", NULL, FALSE, TRUE),
            RuleOf("collector_down", NULL, FALSE, TRUE)}

ConflictOf(type, s) == [type |-> type, ip |-> a1, subnet |-> s]

\* One address in conflict under two subnets.
MCFound == {ConflictOf("dns_mismatch", 1), ConflictOf("duplicate_ip", 2)}
=============================================================================

------------------------- MODULE MCBrokerExecution -------------------------
(* Small instances of BrokerExecution.                                      *)
EXTENDS BrokerExecution, TLC
CONSTANTS k1, k2, b1, b2, t1, p1, p2

Option(policy) == [policy |-> policy, allow |-> {t1}, enabled |-> TRUE]
MCOneConfig == {Option(p1)}
MCConfigs == {Option(p1), Option(p2), [Option(p1) EXCEPT !.enabled = FALSE],
              [Option(p1) EXCEPT !.allow = {}]}
MCSymmetry == Permutations(Keys) \cup Permutations(Brokers)
=============================================================================

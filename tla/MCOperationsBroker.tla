------------------------- MODULE MCOperationsBroker -------------------------
(* A small instance of the whole broker.                                    *)
EXTENDS OperationsBroker, TLC
CONSTANTS k1, u1, h1, h2, b1, t1, p1, p2

Option(policy) == [policy |-> policy, allow |-> {t1}, enabled |-> TRUE]
MCConfigs == {Option(p1), Option(p2)}
MCSymmetry == Permutations(Handlers)
=============================================================================

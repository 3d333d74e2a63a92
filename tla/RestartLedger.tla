--------------------------- MODULE RestartLedger ---------------------------
(* What the HA Operations Broker promises about restart actions, without    *)
(* brokers, leases, clocks or transactions: a receipt is issued once and    *)
(* spent once; at most one write follows; the verdict on record never       *)
(* claims more than is known about that write; at most one action is        *)
(* undecided at a time.                                                     *)
EXTENDS Naturals

CONSTANT Keys

VARIABLES
    receipt,   \* "none", "issued" or "spent"
    writes,    \* restart calls made for the action
    verdict    \* "none", "open", "failed", "succeeded", "recovery", "resolved"

ledgerVars == <<receipt, writes, verdict>>

LedgerInit ==
    /\ receipt = [k \in Keys |-> "none"]
    /\ writes = [k \in Keys |-> 0]
    /\ verdict = [k \in Keys |-> "none"]

Undecided(k) == verdict[k] \in {"open", "recovery"}

Issue(k) ==
    /\ receipt[k] = "none"
    /\ receipt' = [receipt EXCEPT ![k] = "issued"]
    /\ UNCHANGED <<writes, verdict>>

(* The action begins: its receipt is spent, and everything before it is     *)
(* decided.                                                                 *)
Spend(k) ==
    /\ receipt[k] = "issued"
    /\ verdict[k] = "none"
    /\ \A other \in Keys : ~ Undecided(other)
    /\ receipt' = [receipt EXCEPT ![k] = "spent"]
    /\ verdict' = [verdict EXCEPT ![k] = "open"]
    /\ UNCHANGED writes

(* The write; it may come late, after the action went to recovery.          *)
Write(k) ==
    /\ receipt[k] = "spent"
    /\ writes[k] = 0
    /\ verdict[k] \in {"open", "recovery", "resolved"}
    /\ writes' = [writes EXCEPT ![k] = 1]
    /\ UNCHANGED <<receipt, verdict>>

Decide(k) ==
    /\ \/ /\ verdict[k] = "open" /\ writes[k] = 0
          /\ verdict' = [verdict EXCEPT ![k] = "failed"]
       \/ /\ verdict[k] = "open" /\ writes[k] = 1
          /\ verdict' = [verdict EXCEPT ![k] = "succeeded"]
       \/ /\ verdict[k] = "open"
          /\ verdict' = [verdict EXCEPT ![k] = "recovery"]
       \/ /\ verdict[k] = "recovery"
          /\ verdict' = [verdict EXCEPT ![k] = "resolved"]
    /\ UNCHANGED <<receipt, writes>>

LedgerNext == \E k \in Keys : Issue(k) \/ Spend(k) \/ Write(k) \/ Decide(k)

LedgerSpec == LedgerInit /\ [][LedgerNext]_ledgerVars
=============================================================================

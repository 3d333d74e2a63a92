--------------------------- MODULE WeixinStanding ---------------------------
(* What the directory of the Weixin Gateway promises about people, whatever   *)
(* tables, files and runtimes it keeps them in: the first to pair is the      *)
(* owner, and from then on there is one; nobody joins before; a member is     *)
(* suspended and resumed; who was removed stays removed; and the ownership    *)
(* passes to an active member only, its last holder becoming one.             *)
CONSTANT People

VARIABLE standing   \* "none", "owner", "member", "suspended" or "removed"

StandingInit == standing = [p \in People |-> "none"]

Becomes(p, word) == standing' = [standing EXCEPT ![p] = word]

(* The first owner: nobody was known before.                                  *)
Found(p) == /\ \A q \in People : standing[q] = "none"
            /\ Becomes(p, "owner")

Join(p) == /\ \E q \in People : standing[q] = "owner"
           /\ standing[p] = "none" /\ Becomes(p, "member")

Suspend(p) == standing[p] = "member" /\ Becomes(p, "suspended")
Resume(p) == standing[p] = "suspended" /\ Becomes(p, "member")
Remove(p) == standing[p] \in {"member", "suspended"} /\ Becomes(p, "removed")

Transfer(p) ==
    /\ standing[p] = "member"
    /\ \E o \in People : standing[o] = "owner"
    /\ standing' = [q \in People |-> IF q = p THEN "owner"
                                     ELSE IF standing[q] = "owner" THEN "member" ELSE standing[q]]

StandingNext == \E p \in People :
    Found(p) \/ Join(p) \/ Suspend(p) \/ Resume(p) \/ Remove(p) \/ Transfer(p)

StandingSpec == StandingInit /\ [][StandingNext]_standing
=============================================================================

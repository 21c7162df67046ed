------------------------------- MODULE MCKeeper -------------------------------
(***************************************************************************)
(* The keeper on the seeded program, with a few instructions of others.     *)
(* Both bounds are in guards: liveness is checked, so there is no state      *)
(* constraint and no symmetry.                                              *)
(***************************************************************************)
EXTENDS Keeper, MCPerp

KeeperOrderSpecs == {Limit("Long", 4, 10, FALSE), Limit("Short", 4, 10, FALSE),
                     Stop("TriggerMarket", "Short", 4, 0, 11, "Below", TRUE)}
BookOrderSpecs   == {Limit("Long", 4, 10, FALSE), Limit("Short", 4, 10, FALSE)}

\* One user has placed a bid and every other an ask that crosses it.
Placed(dir, price) ==
    [DefaultOrder EXCEPT !.status = "Open", !.type = "Limit", !.dir = dir, !.base = 4,
                         !.price = price]

CrossedBook ==
    /\ Bootstrapped /\ Funded(Users, 1)
    /\ \E bidder \in Users :
          orders = [u \in Users |-> [s \in OrderSlots |->
                      IF s # 1 THEN DefaultOrder
                      ELSE IF u = bidder THEN Placed("Long", 10) ELSE Placed("Short", 10)]]

KeeperStart ==
    /\ KeeperInit
    /\ \/ Seeded /\ moves = 0
       \/ CrossedBook /\ moves = 1

KeeperSpec == KeeperStart /\ [][KeeperNext]_kvars /\ WF_kvars(KeeperStep)

=============================================================================

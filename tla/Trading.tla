-------------------------------- MODULE Trading --------------------------------
(***************************************************************************)
(* open_position and close_position: a user's market orders against the    *)
(* virtual AMM.                                                             *)
(***************************************************************************)
EXTENDS Controller

OpenPosition(u, m, dir, n, limit) ==
    /\ ~paused
    /\ user[u].exists
    /\ m \in CreatedMarkets
    /\ CanOpen(m)
    /\ n > 0
    /\ n >= market[m].minOrder
    /\ OracleUsable(m)
    /\ ExecuteAmmOpen(u, m, dir, n, limit)
    /\ UNCHANGED <<clock, paused, numMarkets, oracle, orders, insurance,
                   wallet, vault, insuranceVault>>

\* a request of 0, or of more than the position, closes all of it
CloseSize(request, size) == IF request = 0 \/ request > size THEN size ELSE request

\* allowed while the protocol or the market is paused
ClosePosition(u, m, request, limit) ==
    /\ m \in CreatedMarkets
    /\ OracleUsable(m)
    /\ \E s \in PositionSlots :
          /\ FoundPosition(u, m, s)
          /\ ExecuteAmmClose(u, m, s, CloseSize(request, Magnitude(positions[u][s].base)),
                             limit)
    /\ UNCHANGED <<clock, paused, numMarkets, oracle, orders, insurance,
                   wallet, vault, insuranceVault>>

=============================================================================

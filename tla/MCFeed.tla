-------------------------------- MODULE MCFeed --------------------------------
(***************************************************************************)
(* One panel, two markets, one change of the chain, one fault.  MarketStats  *)
(* is the panel whose polls overlap, RecentTrades the one whose loads do:    *)
(* their code is that of all panels.                                        *)
(***************************************************************************)
EXTENDS LiveFeed

PollsOf == [p \in Panels |-> IF p = "MarketStats" THEN 2 ELSE 1]
LoadsOf == [p \in Panels |-> IF p = "RecentTrades" THEN 2 ELSE 1]

===============================================================================

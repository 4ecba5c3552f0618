-------------------------- MODULE MCGasAccounting ---------------------------
(***************************************************************************)
(* GasAccounting with a user and an account that both sends transactions   *)
(* and takes the network fee.  The L1 gas price and the divisor make the   *)
(* base price 120 or 144 wei, enough for the congestion price to move by   *)
(* one wei a second; gas amounts are small, but the price of 900 gas does  *)
(* not fit in a word.                                                      *)
(***************************************************************************)
EXTENDS GasAccounting

CONSTANTS alice, sequencer, treasury, reserves

MCAddr == {alice, sequencer, treasury, reserves}
MCUser == {alice, treasury}
MCNetworkFeeShare == <<15, 100>>
MCMaxGases == {12, 31, 900}
MCBids == {130, 200}
MCUnits == {1}
MCBurns == {4}
MCDeltas == {0, 1}
MCOverheads == {0}
MCL1Prices == {1440}
=============================================================================

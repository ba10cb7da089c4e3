------------------------------ MODULE MCMargin ------------------------------
(* Mark price 10 in a unit of 1/720, so that the divisions by positions up *)
(* to 4 and by the leverage are exact.  Initial margin rate and fee rate   *)
(* are 10%.                                                                *)
EXTENDS Margin

U == 720

MCPrices == {8 * U, (19 * U) \div 2, 10 * U, (21 * U) \div 2, 12 * U}

MCMenu == [price : MCPrices, amount : {-2, -1, 1, 2}]

\* Accounts above the initial margin, their wallets from empty to enough for
\* two lots.
MCAccounts ==
    {a \in [cash : {n * U : n \in {-12, -2, 0, 10, 24}}, position : {-2, -1, 0, 1, 2},
            wallet : {n * U : n \in {0, 5, 12}}, leverage : {1, 4}] :
        IsIMSafe(a) /\ AvailableMargin(a) < 10 * U}

=============================================================================

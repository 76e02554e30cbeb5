------------------------------ MODULE MCBlock ------------------------------
EXTENDS BlockDrivers
\* Cards of every kind the driver tells apart; the sizes use every field of
\* the two register layouts, and two of the cards are write protected.
MCCards ==
  {[kind |-> k[1], csize |-> k[2], mult |-> k[3], rbl |-> k[4], wp |-> k[5]] :
     k \in {<<"v1", 0, 0, 9, FALSE>>, <<"v2", 4094, 7, 10, TRUE>>,
            <<"hc", 0, 0, 9, FALSE>>, <<"hc", 70001, 0, 9, TRUE>>,
            <<"badvolt", 0, 0, 9, FALSE>>, <<"mmc", 0, 0, 9, FALSE>>}}
=============================================================================

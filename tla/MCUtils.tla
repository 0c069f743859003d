------------------------------- MODULE MCUtils -------------------------------
EXTENDS Utils

MCBlocks == 0 .. 6
MCSizes == 1 .. 4
MCRates == 1 .. 12
MCNames == {<<"eth">>, <<"a", "eth">>, <<"b", "a", "eth">>, <<"xyz">>, <<"b", "xyz">>,
            <<"c", "b", "xyz">>}
MCDelays == {0, 400, 1000, 1500, 2500}
=============================================================================

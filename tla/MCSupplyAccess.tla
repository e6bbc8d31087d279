--------------------------- MODULE MCSupplyAccess ---------------------------
(* SupplyAccess for TLC: an RD6018 whose registers all hold something else, *)
(* and requests at the edges: amounts that are a whole number of counts or  *)
(* not, one of them a count that binary fractions miss (1.15), and one that *)
(* does not fit in a register.                                             *)
EXTENDS SupplyAccess

MCContents ==
    [r \in Registers |->
        CASE r = 0 -> 60181 [] r = 18 -> 0 [] r = 19 -> 1 [] r = 71 -> 4 [] r = 72 -> 5
          [] OTHER -> 1000 + 10 * r]
MCAmounts == {11500, 50049, 7000000}
MCChoices == {-1, 0, 5, 9, 10, 257}
\* The fields of several words that lie next to the end of a chunk, some that
\* do not, and of single words the output and the set voltage.
MCChanging ==
    {"Output", "VoltageSet", "PowerOut", "AH", "WH", "Clock", "Calibration", "M5", "M6", "M9"}
MCDates == {<<2024, 2, 29>>, <<67560, 1, 1>>}
MCTimes == {<<23, 59, 58>>, <<256, 0, 0>>}
=============================================================================

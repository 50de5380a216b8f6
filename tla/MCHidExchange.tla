--------------------------- MODULE MCHidExchange ----------------------------
(***************************************************************************)
(* Small instances of HidExchange: two devices with the same usages in     *)
(* differently numbered reports, one of them with an output report.        *)
(***************************************************************************)
EXTENDS MCHidParser, HidExchange

TwoDevices ==
    {Device(<<An("reportId", 1)>>,
            <<Use(2), An("input", 2), Use(2), An("feature", 2),
              Use(3), An("feature", 2), Use(2), An("output", 2)>>),
     Device(<<An("reportId", 2)>>,
            <<Use(2), An("input", 2), Use(4), An("feature", 2),
              An("reportId", 3), Use(3), An("reportCount", 2), An("feature", 2)>>)}

ASSUME \A d \in TwoDevices : Answerable(d)

Paths == {<<At(1, 1), At(1, 2)>>, <<At(1, 1), At(1, 3)>>, <<At(2, 3)>>}
=============================================================================

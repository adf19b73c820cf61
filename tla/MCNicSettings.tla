---------------------------- MODULE MCNicSettings ----------------------------
(***************************************************************************)
(* NicSettings with one or two VFs and configurations that differ in what  *)
(* the setters treat in different ways.                                    *)
(***************************************************************************)
EXTENDS NicSettings

Plain == [vlans |-> {5}, stag |-> FALSE, ctag |-> FALSE, bcast |-> TRUE, mcast |-> TRUE,
          ucast |-> FALSE, rate |-> 0, minRate |-> 0, link |-> "auto"]
MCConfigs ==
  {Plain,
   [Plain EXCEPT !.stag = TRUE, !.rate = 50, !.mcast = FALSE, !.link = "on"],
   [Plain EXCEPT !.ctag = TRUE, !.minRate = 20, !.ucast = TRUE],
   [Plain EXCEPT !.vlans = {5, 6}, !.stag = TRUE, !.bcast = FALSE, !.rate = 150],
   [Plain EXCEPT !.vlans = {6, 7}, !.ucast = TRUE, !.rate = 10, !.minRate = 10]}
MCLosses == {DOMAIN Fresh, {"vlans"}, {"bcast", "mcast", "ucast"}, {"rate", "strip", "insert"}}

ASSUME MCAssumption == SharesFit
=============================================================================

---------------------------- MODULE MCAdmission ----------------------------
(* Three VFs; files that pass and fail each check; two kinds of PF with either policy. *)
EXTENDS Admission, TLC

File(v, r, vl, q, cb, tg) ==
  [vfid |-> v, minRate |-> r, vlans |-> vl, queues |-> q, cbs |-> cb, target |-> tg]

\* The floats next to these fractions, in units of 2^-27.
R7 == 9395241
R33 == 44291852
R50 == 67108864
R60 == 80530640
Minus25 == -33554432

\* Rates of 0.60, 0.33 and 0.07 are refused in this order and taken in others, and one
\* file has a negative rate; a share of 97 alone is scaled to 99, not 100.
MCConfigs ==
  { File(0, 0, <<10>>, 0 :> 20 @@ 1 :> 29, "clean", NoMirror),
    File(1, R50, <<30>>, 0 :> 80 @@ 2 :> 12, "clean", 2),
    File(0, R60, <<20, 10>>, 0 :> 60 @@ 1 :> 20 @@ 2 :> 97, "clean", NoMirror),
    File(1, R33, <<20>>, 0 :> 45 @@ 1 :> 2 @@ 2 :> 256, "clean", NoMirror),
    File(2, R7, <<20>>, 0 :> 40 @@ 1 :> 7 @@ 2 :> 256, "clean", NoMirror),
    File(2, Minus25, <<10, 5000>>, 0 :> 7 @@ 2 :> 256, "clean", 3),
    File(0, 0, << >>, << >>, "clean", NoMirror),
    File(0, 0, <<10, 10>>, << >>, "clean", NoMirror),
    File(0, 0, <<5000, 10>>, << >>, "clean", NoMirror),
    File(0, 0, <<4096>>, << >>, "clean", NoMirror),
    File(1, 0, <<10>>, << >>, "semicolon", NoMirror),
    File(1, 0, <<10>>, << >>, "clean", 1),
    File(3, 0, <<10>>, << >>, "clean", NoMirror) }

\* All pairs that miss a whole number below, for up to three VFs, and all of an MTU of
\* 9000 that miss it above.
MCFallsBelow ==
  { <<97, 97>>, <<161, 161>>, <<167, 167>>, <<193, 193>>, <<97, 194>>, <<194, 194>>,
    <<117, 195>>, <<195, 195>>, <<199, 199>>, <<183, 305>>, <<161, 322>>, <<167, 334>>,
    <<201, 335>>, <<77, 385>>, <<154, 385>>, <<231, 385>>, <<193, 386>>, <<97, 388>>,
    <<194, 388>>, <<117, 390>>, <<195, 390>>, <<234, 390>>, <<199, 398>>, <<183, 610>>,
    <<161, 644>>, <<167, 668>>, <<201, 670>> }
MCEndsAbove == { <<56, 35>> }

MCPorts ==
  { [nic |-> "niantic", ntcs |-> 4, oversub |-> b] : b \in BOOLEAN }
  \cup { [nic |-> "mlx5", ntcs |-> 8, oversub |-> b] : b \in BOOLEAN }
=============================================================================

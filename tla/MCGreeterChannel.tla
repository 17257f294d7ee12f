-------------------------- MODULE MCGreeterChannel --------------------------
(***************************************************************************)
(* A greeter with one screen, a session of either type, and a daemon with  *)
(* two back ends for power off and suspend.                                *)
(***************************************************************************)
EXTENDS GreeterChannel

TwoBackends == <<"login1", "upower">>
OffAndSuspend == {PowerOff, Suspend}
OfEachType == [f \in {"plasma.desktop", "sway.desktop"} |->
                  IF f = "plasma.desktop" THEN X11Session ELSE WaylandSession]
=============================================================================

------------------------------ MODULE MCForecast -------------------------------
(* Three states of a road at the intervals of the code: in units of 2.5    *)
(* minutes, the defaults are a window and a horizon of 12 and buckets of 2. *)
EXTENDS OneForecast

\* The default intervals look far enough ahead.
ASSUME DefaultsAssumption == FarSighted

\* Faster than maxSpeed, slow, and standing with more than full occupancy.
Traffic == {[speed |-> 12, occ |-> 0, flow |-> 1, samples |-> 9],
            [speed |-> 6, occ |-> 3, flow |-> 4, samples |-> 9],
            [speed |-> 0, occ |-> 11, flow |-> 10, samples |-> 30]}
=============================================================================

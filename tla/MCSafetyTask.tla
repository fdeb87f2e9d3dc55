---------------------------- MODULE MCSafetyTask ----------------------------
(* SafetyTask in units of 500 ms: the resume window is 4 units; thresholds  *)
(* of 1 and 2 units stand for the class defaults and a --watchdog-ms        *)
(* override.  The samples sit on both sides of every boundary of class D    *)
(* and of the resume ceilings of the other classes.                         *)
EXTENDS SafetyTask

MCThresholds == {1, 2}
MCRttSamples == {19, 20, 79, 80, 99, 100, 180, 250, 400, 499, 500, 1000}
=============================================================================

--------------------------- MODULE MCCalibration ---------------------------
(* Three workers with up to three intervals each, equally many or not.     *)
EXTENDS Calibration

OneMatrix == [chunks : [Worker -> 1..3], parallelMatrix : {FALSE}]
SomeJobs == OneMatrix \cup [chunks : [Worker -> 1..2], parallelMatrix : {TRUE}]
=============================================================================

----------------------- MODULE MCBandpassCalibration -----------------------
(* Two beams, whose feeds are not in order, and two channels; three workers *)
(* have two units, one and one.  The feeds are those the assertions allow. *)
EXTENDS BandpassCalibration

Feeds == [b \in 0..1 |-> 1 - b]

\* A sparse subset of the beams, which only a build without assertions solves
\* for: with it FailsOnlyWithoutData does not hold.
SparseFeeds == [b \in 0..1 |-> IF b = 0 THEN 3 ELSE 1]
Shares == <<0, 2, 3, 4>>

\* Any quality of the units of the first worker, with and without data for
\* the last.
SomeQualities ==
    {q \in [0..3 -> -1..2] : q[2] \in {0, 2} /\ q[3] \in {-1, 1, 2}}
=============================================================================

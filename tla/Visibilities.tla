---------------------------- MODULE Visibilities ----------------------------
(* What the visibilities and the flags of a measurement set may hold, for  *)
(* the modules that read, correct and write them.  A chunk is what the     *)
(* iterator over the set returns at a time: its rows are not told apart.   *)
EXTENDS Integers

\* A visibility or a flag: of which chunk and channel (of none, when set to
\* zero), and of which chunk and channel the solutions applied to it are.
Cell(of, by) == [of |-> of, by |-> by]

Raw(k, chans) == [c \in chans |-> Cell(<<k, c>>, <<>>)]
Zero(chans) == [c \in chans |-> Cell(<<>>, <<>>)]
Corrected(k, chans) == [c \in chans |-> Cell(<<k, c>>, <<k, c>>)]
Predicted(k, chans) == [c \in chans |-> Cell(<<>>, <<k, c>>)]

Untouched(k, chans) == [vis |-> Raw(k, chans), flag |-> Raw(k, chans)]

\* With READ the visibilities are read first; with SYNCFLAG flags are written.
Updated(k, chans, mode) ==
    [vis |-> IF "READ" \in mode THEN Corrected(k, chans) ELSE Predicted(k, chans),
     flag |-> IF "SYNCFLAG" \in mode THEN Corrected(k, chans) ELSE Raw(k, chans)]
=============================================================================

---------------------------- MODULE MCModeration ----------------------------
(* Moderation on small instances.  Limits are scaled to single digits; the *)
(* sizes lie at the limit, one byte above it (where io.LimitReader cuts)   *)
(* and far above it.                                                       *)
EXTENDS Moderation, TLC

CONSTANTS w1, w2, u1, u2, r1, r2, r3, fits, other, above, huge

OneUploader  == w1 :> u1
TwoUploaders == (w1 :> u1) @@ (w2 :> u2)

Info(size) == [size |-> size, duration |-> 3, height |-> 2, format |-> "h264"]

\* fits and other are accepted, above and huge are not.
Files == (fits :> Info(4)) @@ (other :> Info(3)) @@ (above :> Info(5))
           @@ (huge :> Info(9))

VideoInfoOf == [v \in Videos |-> Files[v]]

RequestSymmetry == Permutations(Requests)

=============================================================================

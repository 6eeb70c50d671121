------------------------------ MODULE MC_BlockWork ------------------------------
(* Small blocks, one per kind of port layout and tag policy. *)
EXTENDS BlockWork

CONSTANTS in1, in2

Plain == [sync |-> <<in1>>, async |-> {}, chunkIn |-> 1, chunkOut |-> 1, stride |-> 0,
          minIn |-> 1, minAsync |-> 1, policy |-> "keep", epilogue |-> FALSE,
          outRing |-> 2, maxIn |-> 3, maxTags |-> 2, maxSets |-> 0]
Decimator    == [Plain EXCEPT !.policy = "ratio", !.chunkIn = 2, !.maxTags = 1, !.maxSets = 1]
Chunks       == [Decimator EXCEPT !.chunkOut = 2, !.maxIn = 2, !.maxTags = 2]
Interpolator == [Plain EXCEPT !.policy = "ratio", !.chunkOut = 2, !.maxIn = 2]
Epilogue     == [Decimator EXCEPT !.epilogue = TRUE, !.maxSets = 0]
Skipping     == [Plain EXCEPT !.policy = "first", !.stride = 2, !.outRing = 3]
Sliding      == [Skipping EXCEPT !.policy = "ratio", !.maxTags = 1]
Passing      == [Plain EXCEPT !.policy = "first", !.minIn = 2]
Overlapping  == [Plain EXCEPT !.policy = "ratio", !.chunkIn = 2, !.stride = 1]
Backward     == [Plain EXCEPT !.policy = "back", !.maxIn = 2, !.maxTags = 1, !.maxSets = 1]
TwoInputs    == [Plain EXCEPT !.sync = <<in1, in2>>, !.maxIn = 2, !.maxTags = 1]
WithAsync    == [Plain EXCEPT !.policy = "first", !.async = {in2}, !.minAsync = 2, !.maxIn = 2, !.maxTags = 0]

MCConfigs == {Plain, Decimator, Chunks, Interpolator, Epilogue, Skipping, Sliding, Passing, Overlapping,
              Backward, TwoInputs, WithAsync}

\* For the temporal property: no tags but the end, fewer samples, a ring of two.
Bare(c, n) == [c EXCEPT !.maxTags = 0, !.maxSets = 0, !.maxIn = n]
LiveConfigs == {Bare(Plain, 2), Bare(Epilogue, 3), Bare([Skipping EXCEPT !.outRing = 2], 2), Bare(WithAsync, 1)}
=============================================================================

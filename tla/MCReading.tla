----------------------------- MODULE MCReading -----------------------------
(* Values at the boundaries of Reading's codings.                          *)
EXTENDS Reading

MCWatts == {-2147483647, -1, 0, 65536, 2147483645}
MCAmps == {-1, 0, 32765}
MCRaws == {<<0, 0, 0, 0>>, <<5, 245, 224, 255>>, <<255, 255, 255, 253>>}
MCCoefs == {<<0, 0, 0, 1>>, <<0, 15, 66, 63>>}
MCUnits == {-4, 0, 1, 4}

\* With MapExtra 15 to 18 codes: the list ends and the bitmap begins.
MCMapBase == 128..131 \cup 157..159 \cup {192, 208, 211, 215, 224, 225, 227, 229}
MCMapExtra == {231, 234, 255}
=============================================================================

--------------------------- MODULE MCImportWorker ---------------------------
(* Instances of ImportWorker for TLC. *)
EXTENDS ImportWorker, TLC

CONSTANTS r0, r1, r2, m1, p1, p2

\* An upgrade: r1 replaces r0 under the same name.
UpgradeMovieOf == r0 :> m1 @@ r1 :> m1
UpgradeDestOf == r0 :> p1 @@ r1 :> p1
UpgradeSources == r0 :> "good" @@ r1 :> "good"

\* Two releases of one movie are downloaded at once.
TwinMovieOf == r1 :> m1 @@ r2 :> m1
TwinDestOf == r1 :> p1 @@ r2 :> p2
TwinSources == r1 :> "good" @@ r2 :> "good"

\* One grab.
OneMovieOf == r1 :> m1
OneDestOf == r1 :> p1
OneSources == r1 :> "good"

\* Consumers are interchangeable (safety runs only).
ConsumerSymmetry == Permutations(Consumers)
=============================================================================

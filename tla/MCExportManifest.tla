-------------------------- MODULE MCExportManifest --------------------------
(* Two dataset paths, two interchangeable export processes, two bar times.   *)
EXTENDS ExportManifest, TLC

CONSTANTS p1, p2

MCPaths == <<p1, p2>>
MCTimes == {1, 2}
MCRanges == {<<1, 1>>, <<1, 2>>}
MCSymmetry == Permutations(Exporters)
=============================================================================

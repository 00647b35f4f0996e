---------------------------- MODULE MCHarvestJob ----------------------------
(* Small instances of HarvestJob for TLC.                                  *)
EXTENDS HarvestJob, TLC

CleanOrFailing == {[nfail |-> 0, nwarn |-> 0], [nfail |-> 1, nwarn |-> 0]}
Clean == {[nfail |-> 0, nwarn |-> 0]}
SomeText == {"connection refused"}
NoText == {""}

ExecSymmetry == Permutations(Execs)
RunExecSymmetry == Permutations(Execs) \cup Permutations(Runs)
=============================================================================

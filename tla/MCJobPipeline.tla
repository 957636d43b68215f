---------------------------- MODULE MCJobPipeline ----------------------------
(* Constants of the model-checking runs of JobPipeline.                    *)
EXTENDS JobPipeline, TLC

CONSTANTS j1, j2, h1, w1, w2, d1, c1, c2, c3, mp4, webm

None == {}
OneJob == {j1}
TwoJobs == {j1, j2}
OneHandler == {h1}
OneWorker == {w1}
TwoWorkers == {w1, w2}
OneDownload == {d1}
TwoCalls == {c1, c2}
ThreeCalls == {c1, c2, c3}
OneFormat == {mp4}
TwoFormats == {mp4, webm}
Symmetric == Permutations(TwoCalls) \cup Permutations(TwoWorkers)
==============================================================================

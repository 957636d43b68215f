----------------------------- MODULE MCStatusApi -----------------------------
(* Constants of the model-checking runs of StatusApi.                      *)
EXTENDS StatusApi, TLC

CONSTANTS j1, c1, c2, c3

OneJob == {j1}
TwoCalls == {c1, c2}
ThreeCalls == {c1, c2, c3}
(* The stages, ways out of some, and what the service must refuse or ignore.*)
SomeRequests == {<<s, Advance[s]>> : s \in DOMAIN Advance}
    \cup {<<"pending", "cancelled">>, <<"processing", "cancelled">>, <<"uploading", "failed">>,
          <<"completed", "failed">>, <<"downloading", "uploading">>, <<"queued", "queued">>}
Symmetric == Permutations(ThreeCalls)
==============================================================================

----------------------------- MODULE MCCascadePush -----------------------------
(***************************************************************************)
(* Six campaigns on two platforms: releases pushed one after another with  *)
(* a failure, variants and pre-releases, two publishers with a repair and  *)
(* a registry that deletes manifests, two publishers whose merges overlap  *)
(* on the tags of one build, a repair of one tag, and a pre-release family *)
(* that is pruned and repaired.  9 stands for a part that is not there.    *)
(***************************************************************************)
EXTENDS CascadePush

N == 9
V(variant, major, minor, patch, pre, build) == <<variant, major, minor, patch, pre, build>>

Release(v, q) == [version |-> v, platform |-> q, cascade |-> TRUE, default |-> FALSE]
Default(v, q) == [Release(v, q) EXCEPT !.default = TRUE]
Plain(v, q) == [Release(v, q) EXCEPT !.cascade = FALSE]

Quiet == [pushes |-> {}, publishers |-> {"p1"}, failures |-> 0, repairs |-> FALSE,
          request |-> {}, retention |-> FALSE, prunes |-> {}, index |-> EmptyIndex]

MCCampaigns == {
    [Quiet EXCEPT !.failures = 1,
        !.pushes = {Release(V(N, 1, 1, 0, N, 1), "a"), Release(V(N, 1, 1, 0, N, 2), "a"),
                    Release(V(N, 1, 1, 0, N, 1), "b"), Release(V(N, 1, 2, 0, N, N), "a"),
                    Release(V(N, 2, 0, N, N, N), "b")}],
    [Quiet EXCEPT !.failures = 1,
        !.pushes = {Default(V(1, 1, 0, 0, N, N), "a"), Release(V(2, 1, 0, 0, N, N), "a"),
                    Default(V(1, 1, 1, N, N, N), "b"), Release(V(N, 1, 0, 1, 1, 1), "a"),
                    Plain(V(N, 1, 2, N, N, N), "a")}],
    [Quiet EXCEPT !.publishers = {"p1", "p2"}, !.repairs = TRUE, !.retention = TRUE,
        !.pushes = {Release(V(N, 1, 1, N, N, N), "a"), Release(V(N, 1, 2, N, N, N), "a")}],
    [Quiet EXCEPT !.publishers = {"p1", "p2"}, !.failures = 1, !.repairs = TRUE,
        !.pushes = {Release(V(N, 1, 0, 0, 1, 1), "a"), Release(V(N, 1, 0, 0, 1, 1), "b")}],
    [Quiet EXCEPT !.repairs = TRUE, !.request = {V(N, 1, 1, N, N, N)},
        !.pushes = {Release(V(N, 1, 1, 0, N, N), "a"), Release(V(N, 1, 2, 0, N, N), "b")}],
    [Quiet EXCEPT !.repairs = TRUE,
        !.prunes = {[family |-> V(N, 1, 0, 0, 1, N), keep |-> 1, force |-> FALSE],
                    [family |-> V(N, 1, 0, 0, 1, N), keep |-> 0, force |-> TRUE]},
        !.index = [t \in {V(N, 1, 0, 0, 1, 1)} |-> TRUE],
        !.pushes = {Release(V(N, 1, 0, 0, 1, 1), "a"), Release(V(N, 1, 0, 0, 1, 2), "b")}] }
================================================================================

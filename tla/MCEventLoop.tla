---------------------------- MODULE MCEventLoop ----------------------------
(* EventLoop with small sets of coroutines and threads, for TLC. *)
EXTENDS EventLoop, TLC

CONSTANTS l1, l2, r1, w1

OneLocal  == {l1}
TwoLocal  == {l1, l2}
OneRemote == {r1}
OneWorker == {w1}
None      == {}
=============================================================================

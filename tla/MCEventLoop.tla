---------------------------- MODULE MCEventLoop ----------------------------
(* Instances of EventLoop for TLC. *)
EXTENDS EventLoop

CONSTANTS f1, f2, f3, loopThread, t1, t2, sock, wakeup

MCFunctors3 == {f1, f2, f3}
MCFunctors2 == {f1, f2}
MCThreads2 == {t1, t2}
MCThreads1 == {t1}
MCChannels == {sock}
=============================================================================

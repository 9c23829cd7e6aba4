---------------------------- MODULE MCSignalMask ----------------------------
(* Two signals, the handler of one of which blocks the other, and a        *)
(* sigprocmask call of each kind.                                          *)
EXTENDS SignalMask

MCSignals == {"s1", "s2"}
MCSaMask == [s \in MCSignals |-> IF s = "s1" THEN {"s2"} ELSE {}]
MCOps == {[how |-> "SIG_BLOCK", set |-> {"s1"}], [how |-> "SIG_UNBLOCK", set |-> {"s1"}],
          [how |-> "SIG_SETMASK", set |-> {"s2", SIGSEGV}]}
=============================================================================

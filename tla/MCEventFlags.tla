---------------------------- MODULE MCEventFlags ----------------------------
(* An instance of EventFlags for TLC: the recorder's get (any event, taken *)
(* away, with a timeout), one that waits for all events, and a poll.       *)
EXTENDS EventFlags

CONSTANTS t1, t2, ready, focus

MCThreads  == {t1, t2}
MCEvents   == {ready, focus}
MCRequests == {[mask |-> MCEvents, all |-> FALSE, consume |-> TRUE, wait |-> "timed"],
               [mask |-> MCEvents, all |-> TRUE, consume |-> TRUE, wait |-> "forever"],
               [mask |-> {ready}, all |-> FALSE, consume |-> FALSE, wait |-> "no"]}
MCSets     == {[bits |-> {ready}, op |-> "OR"], [bits |-> {focus}, op |-> "OR"],
               [bits |-> {ready}, op |-> "AND"]}
=============================================================================

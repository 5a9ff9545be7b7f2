---------------------------- MODULE LeakageSearch ----------------------------
(***************************************************************************)
(* What DetectorMain::run promises its caller, AEG::leakage: every         *)
(* candidate transmitter of the function is decided once, leaks are        *)
(* reported only for a candidate that is still being examined, and the     *)
(* report that is dumped is published once, after the last decision, and   *)
(* holds every leak that was found.  A process that dies publishes         *)
(* nothing more, and what it had published stays.                          *)
(***************************************************************************)
EXTENDS Naturals

CONSTANTS Proc,      \* the compile processes that run the pass
          MaxTasks   \* bound on the candidate transmitters of a function

VARIABLES total,     \* total[p]: number of candidates of p's function
          decided,   \* decided[p]: candidates whose job has finished
          found,     \* found[p]: candidates that leak, so far
          report,    \* report[p]: what dump() wrote
          status     \* status[p]: "idle", "searching", "reported", "dead"

vars == <<total, decided, found, report, status>>

Candidates(p) == 0 .. total[p] - 1

Init == /\ total   = [p \in Proc |-> 0]
        /\ decided = [p \in Proc |-> {}]
        /\ found   = [p \in Proc |-> {}]
        /\ report  = [p \in Proc |-> {}]
        /\ status  = [p \in Proc |-> "idle"]

Begin(p) == /\ status[p] = "idle"
            /\ \E n \in 0 .. MaxTasks : total' = [total EXCEPT ![p] = n]
            /\ status' = [status EXCEPT ![p] = "searching"]
            /\ UNCHANGED <<decided, found, report>>

Find(p) == /\ status[p] = "searching"
           /\ \E t \in Candidates(p) \ decided[p] :
                found' = [found EXCEPT ![p] = @ \cup {t}]
           /\ UNCHANGED <<total, decided, report, status>>

Decide(p) == /\ status[p] = "searching"
             /\ \E t \in Candidates(p) \ decided[p] :
                  decided' = [decided EXCEPT ![p] = @ \cup {t}]
             /\ UNCHANGED <<total, found, report, status>>

Publish(p) == /\ status[p] = "searching"
              /\ decided[p] = Candidates(p)
              /\ report' = [report EXCEPT ![p] = found[p]]
              /\ status' = [status EXCEPT ![p] = "reported"]
              /\ UNCHANGED <<total, decided, found>>

Die(p) == /\ status[p] \in {"searching", "reported"}
          /\ status'  = [status EXCEPT ![p] = "dead"]
          /\ total'   = [total EXCEPT ![p] = 0]
          /\ decided' = [decided EXCEPT ![p] = {}]
          /\ found'   = [found EXCEPT ![p] = {}]
          /\ UNCHANGED report

Next == \E p \in Proc : \/ Begin(p) \/ Find(p) \/ Decide(p)
                        \/ Publish(p) \/ Die(p)

Spec == Init /\ [][Next]_vars
=============================================================================

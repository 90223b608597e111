------------------------------ MODULE Execution ------------------------------
(***************************************************************************)
(* What an execution does, as AsyncQueue has it in its slots: until it is  *)
(* over it may be told of a stop; it ends once, by a result, a stop, its   *)
(* timer or the shutdown, and only the first two write a status, which is  *)
(* then the last word.  ExecSignals shows that the goroutines and channels *)
(* of exec implement this.                                                 *)
(***************************************************************************)

VARIABLES busy,      \* whether the slot holds an execution
          told,      \* whether the monitor saw the stop flag
          written,   \* status written
          returned,  \* what the handler returned
          flag,      \* the stop flag
          fired,     \* whether the timer has fired
          ctx        \* whether the process is shutting down

world    == << returned, flag, fired, ctx >>
execVars == << busy, told, written, world >>

Nothing == "none"

Init == busy => ~told /\ written = Nothing /\ returned = Nothing /\ ~fired

\* The world never takes back a result, the end of the timer or a shutdown.
World ==
  /\ returned # Nothing => returned' = returned
  /\ fired => fired'
  /\ ctx => ctx'
  /\ UNCHANGED << busy, told, written >>

Monitor ==
  /\ busy /\ flag /\ ~told /\ told'
  /\ UNCHANGED << busy, written, world >>

\* A write that fails is not repeated.
Ends(status) ==
  /\ busy /\ ~busy' /\ ~told'
  /\ written' \in {status, written}
  /\ UNCHANGED world

Result    == returned # Nothing /\ Ends(returned)
Terminate == told /\ Ends("Terminate")
Timeout   == fired /\ Ends(written)
Shutdown  == ctx /\ Ends(written)

Next == World \/ Monitor \/ Result \/ Terminate \/ Timeout \/ Shutdown

Spec == Init /\ [][Next]_execVars
=============================================================================

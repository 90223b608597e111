----------------------------- MODULE MCProcess ------------------------------
(* The parts of one process that share no state, for TLC in one run.  A    *)
(* behaviour is one of an execution, of the process from start to shutdown,*)
(* of the id generator, or of the batch loop; the other parts are over and *)
(* have no step to take.                                                   *)
EXTENDS ExecSignals, Shutdown, UidSegment, BatchPush

partVars == << vars, procVars, uidVars, batchVars >>

Zero == [b \in Buckets |-> 0]

ExecOver ==
  /\ exec = "gone" /\ handler = "gone" /\ monitor = "gone"
  /\ branch = "result" /\ heeds = TRUE /\ outcome = "Success"
  /\ timeOut = "taken" /\ stop = Open /\ finish = Closed(Open)
  /\ res = [val |-> "Success", closed |-> TRUE]
  /\ ctx = TRUE /\ flag = FALSE /\ stops = MaxStops
  /\ panicked = FALSE

ProcOver ==
  /\ main = "exited" /\ taskCtx = TRUE
  /\ timer = [t \in Timers |-> "gone"] /\ worker = [b \in Buckets |-> "gone"]
  /\ execs = Zero /\ lost = Zero /\ handlers = Zero /\ late = Zero
  /\ jobs = 0 /\ requests = 0

UidOver ==
  /\ maxId = 0 /\ rows = MaxBoots /\ handed = {} /\ raced = FALSE
  /\ producer = [p \in Procs |-> AllOff]
  /\ ch = [p \in Procs |-> NoIds] /\ used = [p \in Procs |-> 0]

BatchOver ==
  /\ dup = << FALSE >> /\ upto = 1 /\ pushed = << 1 >>
  /\ args = << >> /\ script = "ended"

MCInit == \/ Init /\ ProcOver /\ UidOver /\ BatchOver
          \/ ExecOver /\ ProcInit /\ UidOver /\ BatchOver
          \/ ExecOver /\ ProcOver /\ UidInit /\ BatchOver
          \/ ExecOver /\ ProcOver /\ UidOver /\ BatchInit

MCNext == \/ Next /\ UNCHANGED << procVars, uidVars, batchVars >>
          \/ ProcNext /\ UNCHANGED << vars, uidVars, batchVars >>
          \/ UidNext /\ UNCHANGED << vars, procVars, batchVars >>
          \/ BatchNext /\ UNCHANGED << vars, procVars, uidVars >>

MCSpec == MCInit /\ [][MCNext]_partVars
            /\ Fairness /\ ProcFairness /\ UidFairness
=============================================================================

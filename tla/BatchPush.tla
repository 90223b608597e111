------------------------------ MODULE BatchPush ------------------------------
(***************************************************************************)
(* The loop of Pending2ReadyScript (tools/luascript.go), which JobStore    *)
(* takes for one push: the due ids are collected as arguments of LPUSH and *)
(* sent when there are Flush of them and once more at the end.  unpack     *)
(* raises an error beyond the limit of Lua's stack, which ends the script. *)
(* The due ids are numbered in the order of their scores; dup[k] says that *)
(* the k-th is in ready or running already.                                *)
(***************************************************************************)
EXTENDS Integers, Sequences

CONSTANTS Flush,   \* arguments at which the loop pushes (4000)
          Limit,   \* arguments unpack can return (LUAI_MAXCSTACK, 8000)
          MaxDue   \* bound on the due ids

ASSUME BatchAssumption == /\ Flush \in 3..Limit
                          /\ Limit \in Nat
                          /\ MaxDue \in Nat

VARIABLES dup,    \* the due ids of one call of the script
          upto,   \* those that the loop is through with
          args,   \* the ids collected in args2, behind 'LPush' and the key
          pushed, \* the ids in ready
          script  \* where the script is

batchVars == << dup, upto, args, pushed, script >>

Inputs == UNION {[1..n -> BOOLEAN] : n \in 1..MaxDue}

BatchInit ==
  /\ dup \in Inputs
  /\ upto = 0 /\ args = << >> /\ pushed = << >>
  /\ script = "loop"

Arguments(a) == Len(a) + 2

\* redis.call(unpack(args2)), after which the script is at next.
PushBatch(a, next) ==
  IF Arguments(a) > Limit
  THEN script' = "aborted" /\ args' = a /\ UNCHANGED pushed
  ELSE script' = next /\ args' = << >> /\ pushed' = pushed \o a

BugFlushesLate(a) == Arguments(a) = Limit + 1

FlushDue(a) == Arguments(a) = Flush

\* A duplicate is collected like the others, but it is no reason to push.
Collect ==
  LET k == upto + 1
      a == Append(args, k)
  IN  /\ script = "loop" /\ upto < Len(dup)
      /\ upto' = k
      /\ IF ~dup[k] /\ FlushDue(a) THEN PushBatch(a, "loop")
         ELSE args' = a /\ UNCHANGED << pushed, script >>
      /\ UNCHANGED dup

BugDropsRest(a) == Arguments(a) > Flush

Rest(a) == Arguments(a) > 2

PushRest ==
  /\ script = "loop" /\ upto = Len(dup)
  /\ IF Rest(args) THEN PushBatch(args, "ended")
     ELSE script' = "ended" /\ UNCHANGED << args, pushed >>
  /\ UNCHANGED << dup, upto >>

BatchNext == Collect \/ PushRest

BatchSpec == BatchInit /\ [][BatchNext]_batchVars

-----------------------------------------------------------------------------
(* However the batches fall, a script that comes to its end has pushed what*)
(* one LPUSH of all due ids would: each once, in the order of the scores.  *)
BatchesAsOne == script = "ended" => pushed = [k \in DOMAIN dup |-> k]

(* The script aborts for no other reason than a duplicate just where a     *)
(* batch was full: the equality test is skipped and the batch goes on.     *)
AbortNeedsDuplicate ==
  script = "aborted" => /\ Len(dup) - Len(pushed) + 2 > Limit
                        /\ dup[Len(pushed) + Flush - 2]
=============================================================================

----------------------------- MODULE UidSegment -----------------------------
(***************************************************************************)
(* The id generator (app/pkg/base/dbgenerate.go).  Every process fills a   *)
(* channel with the ids of a segment it reserves by moving max_id in the   *)
(* uid table.  getData reads max_id outside the transaction that writes it,*)
(* and each boot inserts one more row for business "1"                     *)
(* (bootstrap/plugins/database.go), for which the next boots start one more*)
(* producer: NewUidGroup keeps the last, the others still reserve.         *)
(***************************************************************************)
EXTENDS Integers, Sequences, FiniteSets

CONSTANTS Procs,    \* asyncjob processes
          Step,     \* ids per segment
          Reserve,  \* capacity of the channel, half a step
          MaxBoots, \* bound on boots, which bounds the rows
          MaxSeg    \* bound on the segments reserved

ASSUME UidAssumption == /\ Step \in Nat \ {0}
                        /\ Reserve \in Nat \ {0}
                        /\ MaxBoots \in Nat
                        /\ MaxSeg \in Nat

VARIABLES maxId,    \* max_id of the first row; Updates writes every row alike
          rows,     \* rows of business "1"
          producer, \* process -> index -> producer goroutine
          ch,       \* process -> index -> its channel
          used,     \* process -> index of the generator in uidGroup, 0 if down
          handed,   \* ids returned by NextId
          raced     \* history: two producers were between read and write

uidVars == << maxId, rows, producer, ch, used, handed, raced >>

Index    == 1..MaxBoots
Producer == [pc : {"off", "read", "write", "fill"}, min : Nat, max : Nat]
Off      == [pc |-> "off", min |-> 0, max |-> 0]
Start    == [Off EXCEPT !.pc = "read"]
AllOff   == [k \in Index |-> Off]
NoIds    == [k \in Index |-> << >>]

UidTypeOK ==
  /\ maxId \in Nat
  /\ rows \in 0..MaxBoots
  /\ producer \in [Procs -> [Index -> Producer]]
  /\ ch \in [Procs -> [Index -> Seq(Nat)]]
  /\ used \in [Procs -> 0..MaxBoots]
  /\ handed \subseteq Nat
  /\ raced \in BOOLEAN

UidInit ==
  /\ maxId = 0
  /\ rows = 0
  /\ producer = [p \in Procs |-> AllOff]
  /\ ch = [p \in Procs |-> NoIds]
  /\ used = [p \in Procs |-> 0]
  /\ handed = {}
  /\ raced = FALSE

\* initMySqlTables inserts a row, NewUidGroup starts a producer for each row.
Boot(p) ==
  /\ used[p] = 0
  /\ rows < MaxBoots
  /\ rows' = rows + 1
  /\ producer' = [producer EXCEPT ![p] =
                    [k \in Index |-> IF k <= rows + 1 THEN Start ELSE Off]]
  /\ used' = [used EXCEPT ![p] = rows + 1]
  /\ UNCHANGED << maxId, ch, handed >>

Kill(p) ==
  /\ used[p] # 0
  /\ producer' = [producer EXCEPT ![p] = AllOff]
  /\ ch' = [ch EXCEPT ![p] = NoIds]
  /\ used' = [used EXCEPT ![p] = 0]
  /\ UNCHANGED << maxId, rows, handed >>

BugLastIdAgain(seen) == [pc |-> "write", min |-> seen - 1, max |-> seen + Step]

BugEmptySegment(seen) == [pc |-> "write", min |-> seen, max |-> seen]

\* getData: the read goes through lgDB ...
Segment(seen) == [pc |-> "write", min |-> seen, max |-> seen + Step]

GetDataRead(p, k) ==
  /\ producer[p][k].pc = "read"
  /\ maxId < MaxSeg * Step
  /\ producer' = [producer EXCEPT ![p][k] = Segment(maxId)]
  /\ UNCHANGED << maxId, rows, ch, used, handed >>

\* ... and the transaction writes what the read returned, plus step.
GetDataWrite(p, k) ==
  /\ producer[p][k].pc = "write"
  /\ maxId' = producer[p][k].max
  /\ producer' = [producer EXCEPT ![p][k].pc = "fill"]
  /\ UNCHANGED << rows, ch, used, handed >>

\* A failed query ends the producer goroutine for good.
GetDataFails(p, k) ==
  /\ producer[p][k].pc \in {"read", "write"}
  /\ producer' = [producer EXCEPT ![p][k] = Off]
  /\ UNCHANGED << maxId, rows, ch, used, handed >>

BugOneTooMany(u) == u.min > u.max

Exhausted(u) == u.min >= u.max

Refill(p, k) ==
  /\ producer[p][k].pc = "fill"
  /\ Exhausted(producer[p][k])
  /\ producer' = [producer EXCEPT ![p][k].pc = "read"]
  /\ UNCHANGED << maxId, rows, ch, used, handed >>

Produce(p, k) ==
  LET u == producer[p][k]
  IN  /\ u.pc = "fill"
      /\ ~Exhausted(u)
      /\ Len(ch[p][k]) < Reserve
      /\ producer' = [producer EXCEPT ![p][k].min = u.min + 1]
      /\ ch' = [ch EXCEPT ![p][k] = Append(@, u.min + 1)]
      /\ UNCHANGED << maxId, rows, used, handed >>

NextId(p) ==
  /\ used[p] # 0
  /\ ch[p][used[p]] # << >>
  /\ handed' = handed \cup {Head(ch[p][used[p]])}
  /\ ch' = [ch EXCEPT ![p][used[p]] = Tail(@)]
  /\ UNCHANGED << maxId, rows, producer, used >>

Runs(p, k) == \/ GetDataRead(p, k) \/ GetDataWrite(p, k)
              \/ Refill(p, k) \/ Produce(p, k)

\* At most one producer of all processes has read max_id and not written it.
Serial ==
  \A x, y \in Procs \X Index :
    producer[x[1]][x[2]].pc = "write" /\ producer[y[1]][y[2]].pc = "write"
      => x = y

UidNext ==
  /\ \E p \in Procs :
       \/ Boot(p) \/ Kill(p) \/ NextId(p)
       \/ \E k \in Index : Runs(p, k) \/ GetDataFails(p, k)
  /\ raced' = (raced \/ ~Serial')

UidSpec == UidInit /\ [][UidNext]_uidVars

\* A producer that is neither blocked on its channel nor gone goes on.
UidFairness ==
  \A p \in Procs, k \in Index : WF_uidVars(UidNext /\ Runs(p, k))

-----------------------------------------------------------------------------
(* dbgenerate.go:100, "every generator uses a segment of its own": NextId  *)
(* never returns an id that was returned before, by any process.  False as *)
(* soon as two producers read max_id before either writes it.              *)
UniqueIds ==
  [][\A p \in Procs :
       NextId(p) => Head(ch[p][used[p]]) \notin handed]_uidVars

(* That race is the only way to repeat an id: until it has happened NextId *)
(* is unique over processes, boots, kills, failed queries and segments that*)
(* were reserved and never used.                                           *)
UniqueUnlessRaced ==
  [][\A p \in Procs :
       NextId(p) /\ ~raced => Head(ch[p][used[p]]) \notin handed]_uidVars

HasIds(p) == used[p] # 0 /\ ch[p][used[p]] # << >>

(* A request that waits for an id gets one: the generator in use fills its *)
(* channel again, unless its producer ended on a failed query or the       *)
(* process went down (or the bound on segments is reached).                *)
IdsKeepComing ==
  \A p \in Procs :
    used[p] # 0 ~> \/ HasIds(p) \/ used[p] = 0
                   \/ producer[p][used[p]].pc = "off"
                   \/ maxId >= MaxSeg * Step
=============================================================================

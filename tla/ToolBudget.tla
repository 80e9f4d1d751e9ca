----------------------------- MODULE ToolBudget -----------------------------
(***************************************************************************)
(* The catalog-call budget of iceberg-agent/iceberg_tool.py: a context     *)
(* variable that holds a shared mutable _Budget.  An event loop copies the *)
(* context of whoever starts it, a framework runs each tool call in a task *)
(* with a further copy, and what a task sets in its copy nobody else sees. *)
(*                                                                         *)
(* Two programs call the tools.  run_once.py is a serving wrapper: it      *)
(* resets the budget before each turn and reads the count after it.        *)
(* servers/iceberg_mcp.py runs every tools/call in an event loop of its    *)
(* own and resets nothing (Wrapped = FALSE).                               *)
(*                                                                         *)
(* The tools are coroutines that never await: a call is one step.          *)
(***************************************************************************)
EXTENDS Integers, Sequences

CONSTANTS
  Calls,            \* tool calls a framework may have open at once
  CATALOG_BUDGET,
  Wrapped,          \* the tools are driven by a serving wrapper
  WarmChoices,      \* values of --warm to explore
  MaxAnswers,       \* bound: answers of one process
  MaxAsked          \* bound: calls the model asks for in one turn

ASSUME BudgetAssumption ==
  /\ CATALOG_BUDGET \in Nat
  /\ Wrapped \in BOOLEAN
  /\ WarmChoices \subseteq BOOLEAN
  /\ MaxAnswers \in Nat /\ MaxAsked \in Nat

VARIABLES
  used,      \* used[b]: the field of the b-th _Budget object
  main,      \* _used in the main context: an object, or Unset
  loop,      \* _used in the context the event loop of the turn copied
  task,      \* _used in the context of each open call
  open,      \* the calls that are open
  phase,
  answers, asked,            \* bounded counters
  through, refused, count    \* history: calls let through and refused in this
                             \* answer, and what its header reported

vars == <<used, main, loop, task, open, phase, answers, asked, through,
          refused, count>>

Unset == 0
Objects == 0..Len(used)

TypeOK ==
  /\ used \in Seq(Nat)
  /\ main \in Objects /\ loop \in Objects
  /\ task \in [Calls -> Objects]
  /\ open \subseteq Calls
  /\ phase \in {"idle", "warmup", "question"}
  /\ answers \in Nat /\ asked \in Nat
  /\ through \in Nat /\ refused \in BOOLEAN /\ count \in Nat

Init ==
  /\ used = <<>>
  /\ main = Unset /\ loop = Unset
  /\ task = [c \in Calls |-> Unset]
  /\ open = {}
  /\ phase = "idle"
  /\ answers = 0 /\ asked = 0
  /\ through = 0 /\ refused = FALSE /\ count = 0

(* A budget that exists is kept. *)
ResetOnlyOnce ==
  IF main = Unset
  THEN used' = Append(used, 0) /\ main' = Len(used) + 1
  ELSE UNCHANGED <<used, main>>

(* A new object in the main context, by the wrapper only. *)
reset_budget ==
  IF Wrapped
  THEN used' = Append(used, 0) /\ main' = Len(used) + 1
  ELSE UNCHANGED <<used, main>>

(* asyncio.run of one turn of the agent: the loop copies the context.      *)
StartTurn ==
  /\ reset_budget
  /\ loop' = main'
  /\ asked' = 0
  /\ through' = 0 /\ refused' = FALSE

StartAnswer ==
  /\ phase = "idle"
  /\ answers < MaxAnswers /\ answers' = answers + 1
  /\ StartTurn
  /\ \E warm \in WarmChoices : phase' = IF warm THEN "warmup" ELSE "question"
  /\ UNCHANGED <<task, open, count>>

(* The warm-up turn is over; the timed question follows at once. *)
EndWarmup ==
  /\ phase = "warmup" /\ open = {}
  /\ StartTurn
  /\ phase' = "question"
  /\ UNCHANGED <<task, open, answers, count>>

(* The framework starts a task for a call the model asked for; the server  *)
(* starts an event loop for it, one call after the other.                  *)
OpenCall(c) ==
  /\ phase # "idle" /\ c \notin open
  /\ Wrapped \/ open = {}
  /\ asked < MaxAsked /\ asked' = asked + 1
  /\ open' = open \cup {c}
  /\ task' = [task EXCEPT ![c] = loop]
  /\ UNCHANGED <<used, main, loop, phase, answers, through, refused, count>>

(* Off by one; and counting down. *)
ChargeOneMore(b, n) ==
  \/ /\ n <= CATALOG_BUDGET
     /\ used' = [used EXCEPT ![b] = n + 1]
     /\ through' = through + 1
     /\ UNCHANGED refused
  \/ /\ n > CATALOG_BUDGET
     /\ refused' = TRUE
     /\ UNCHANGED <<used, through>>

ChargeDown(b, n) ==
  \/ /\ n < CATALOG_BUDGET
     /\ used' = [used EXCEPT ![b] = n - 1]
     /\ through' = through + 1
     /\ UNCHANGED refused
  \/ /\ n >= CATALOG_BUDGET
     /\ refused' = TRUE
     /\ UNCHANGED <<used, through>>

(* _spend on object b, which is the n-th unit of its budget. *)
Charge(b, n) ==
  \/ /\ n < CATALOG_BUDGET
     /\ used' = [used EXCEPT ![b] = n + 1]
     /\ through' = through + 1
     /\ UNCHANGED refused
  \/ /\ n >= CATALOG_BUDGET
     /\ refused' = TRUE
     /\ UNCHANGED <<used, through>>

(* The LookupError branch of _budget: a fresh object, in this task's own   *)
(* copy of the context.                                                    *)
ChargeFresh ==
  \/ /\ 0 < CATALOG_BUDGET
     /\ used' = Append(used, 1)
     /\ through' = through + 1
     /\ UNCHANGED refused
  \/ /\ 0 >= CATALOG_BUDGET
     /\ used' = Append(used, 0)
     /\ refused' = TRUE
     /\ UNCHANGED through

(* A counter that is rebound, not mutated: the task keeps it to itself. *)
SpendRebound(c) ==
  LET n == IF task[c] = Unset THEN 0 ELSE used[task[c]] IN
  \/ /\ n < CATALOG_BUDGET
     /\ used' = Append(used, n + 1)
     /\ through' = through + 1
     /\ UNCHANGED refused
  \/ /\ n >= CATALOG_BUDGET
     /\ refused' = TRUE
     /\ UNCHANGED <<used, through>>

Spend(c) ==
  IF task[c] = Unset THEN ChargeFresh ELSE Charge(task[c], used[task[c]])

(* The tool runs, and its task ends with it. *)
ToolCall(c) ==
  /\ c \in open
  /\ Spend(c)
  /\ open' = open \ {c}
  /\ task' = [task EXCEPT ![c] = Unset]
  /\ UNCHANGED <<main, loop, phase, answers, asked, count>>

(* The answer's header: catalog_count() in the main context.  The server   *)
(* reads no count; there the answer just ends.                             *)
EndAnswer ==
  /\ phase = "question" /\ open = {}
  /\ count' = IF Wrapped THEN used[main] ELSE count
  /\ phase' = "idle"
  /\ UNCHANGED <<used, main, loop, task, open, answers, asked, through, refused>>

Next ==
  \/ StartAnswer \/ EndWarmup \/ EndAnswer
  \/ \E c \in Calls : OpenCall(c) \/ ToolCall(c)

Spec == Init /\ [][Next]_vars

-----------------------------------------------------------------------------
(* An answer gets at most CATALOG_BUDGET catalog calls (iceberg_tool.py:   *)
(* "Catalog calls allowed per answer"), however many calls the framework   *)
(* has open at once.                                                       *)
WithinBudget == through <= CATALOG_BUDGET

(* The count in the answer's header is the number of calls that were let   *)
(* through for this answer: the ones made in tasks are not lost, the ones  *)
(* of the warm-up turn are not in it (_Budget: "Mutating one shared object *)
(* is seen from both sides").                                              *)
HeaderCountsCalls ==
  Wrapped /\ phase = "idle" /\ answers > 0 => count = through

Promise == INSTANCE CallAllowance WITH Limit <- CATALOG_BUDGET

(* The wrapper's budget implements the promise: no call beyond the limit,  *)
(* and none refused before it, so that the warm-up's calls and earlier     *)
(* answers' never use up the budget of the answer being written.           *)
BudgetKept == Promise!Spec
=============================================================================

-------------------------- MODULE ToolBudgetProofs --------------------------
(***************************************************************************)
(* Theorems of ToolBudget, for every limit, any set of open calls and any  *)
(* number of answers.  What makes the budget work is that one object is    *)
(* held by the main context, the event loop and every open call of an      *)
(* answer, and that its field counts the calls let through (Shared).       *)
(***************************************************************************)
EXTENDS ToolBudget, TLAPS

Shared ==
  /\ phase # "idle" => main # Unset /\ loop = main /\ used[main] = through
  /\ phase = "idle" => open = {}
  /\ \A c \in open : task[c] = main
  /\ through <= CATALOG_BUDGET

BudgetInv == TypeOK /\ (Wrapped => Shared) /\ HeaderCountsCalls

(* A reset makes an object of its own with nothing charged to it.          *)
LEMMA ResetFacts ==
  ASSUME TypeOK, reset_budget
  PROVE  /\ used' \in Seq(Nat)
         /\ Objects \subseteq Objects'
         /\ main' \in Objects'
         /\ Wrapped => main' # Unset /\ used'[main'] = 0
<1>1. CASE Wrapped
  <2>1. used' = Append(used, 0) /\ main' = Len(used) + 1 /\ used \in Seq(Nat)
    BY <1>1 DEF reset_budget, TypeOK
  <2>2. used' \in Seq(Nat) /\ Len(used') = Len(used) + 1 /\ Len(used) \in Nat
    BY <2>1
  <2>3. used'[main'] = 0
    BY <2>1
  <2>4. QED
    BY <2>1, <2>2, <2>3 DEF Objects, Unset
<1>2. CASE ~Wrapped
  BY <1>2 DEF reset_budget, TypeOK, Objects
<1>3. QED
  BY <1>1, <1>2

(* A call charges an object that exists, or makes one. *)
LEMMA SpendFacts ==
  ASSUME TypeOK, NEW c \in Calls, Spend(c)
  PROVE  /\ used' \in Seq(Nat)
         /\ Objects \subseteq Objects'
         /\ through' \in Nat
         /\ refused' \in BOOLEAN
<1>1. used \in Seq(Nat) /\ task[c] \in 0..Len(used) /\ Len(used) \in Nat
      /\ through \in Nat /\ refused \in BOOLEAN
  BY DEF TypeOK, Objects
<1>2. CASE task[c] = Unset
  <2>1. refused' \in BOOLEAN
    BY <1>1, <1>2, Zenon DEF Spend, ChargeFresh
  <2>2. used' \in {Append(used, 0), Append(used, 1)} /\ through' \in Nat
    BY <1>1, <1>2 DEF Spend, ChargeFresh
  <2>3. used' \in Seq(Nat) /\ Len(used') = Len(used) + 1
    BY <1>1, <2>2
  <2>4. QED
    BY <1>1, <2>1, <2>2, <2>3 DEF Objects
<1>3. CASE task[c] # Unset
  <2>1. task[c] \in 1..Len(used) /\ used[task[c]] \in Nat
    BY <1>1, <1>3 DEF Unset
  <2>2. Charge(task[c], used[task[c]])
    BY <1>3 DEF Spend
  <2>3. refused' \in BOOLEAN
    BY <1>1, <2>2, Zenon DEF Charge
  <2>4. through' \in Nat
    BY <1>1, <2>2 DEF Charge
  <2>5. used' \in Seq(Nat) /\ Len(used') = Len(used)
    BY <1>1, <2>1, <2>2 DEF Charge
  <2>6. QED
    BY <2>3, <2>4, <2>5 DEF Objects
<1>4. QED
  BY <1>2, <1>3

(* A call of a wrapped answer charges the shared object.                   *)
LEMMA SharedSpend ==
  ASSUME TypeOK, Wrapped, Shared, NEW c \in open, Spend(c), phase # "idle"
  PROVE  \/ /\ through < CATALOG_BUDGET
            /\ through' = through + 1
            /\ used' = [used EXCEPT ![main] = through + 1]
            /\ refused' = refused
         \/ /\ through = CATALOG_BUDGET
            /\ refused' = TRUE
            /\ used' = used /\ through' = through
<1>1. task[c] = main /\ main # Unset /\ used[main] = through
      /\ through <= CATALOG_BUDGET
  BY DEF Shared
<1>2. Charge(main, through)
  BY <1>1 DEF Spend
<1>3. through \in Nat /\ CATALOG_BUDGET \in Nat
  BY BudgetAssumption DEF TypeOK
<1>4. CASE through < CATALOG_BUDGET
  <2>1. ~(through >= CATALOG_BUDGET)
    BY <1>3, <1>4
  <2>2. QED
    BY <1>2, <1>4, <2>1, Zenon DEF Charge
<1>5. CASE through >= CATALOG_BUDGET
  <2>1. ~(through < CATALOG_BUDGET) /\ through = CATALOG_BUDGET
    BY <1>1, <1>3, <1>5
  <2>2. QED
    BY <1>2, <2>1, Zenon DEF Charge
<1>6. through < CATALOG_BUDGET \/ through >= CATALOG_BUDGET
  BY <1>3
<1>7. QED
  BY <1>4, <1>5, <1>6, Zenon

-----------------------------------------------------------------------------
LEMMA TurnType ==
  ASSUME TypeOK, StartTurn, UNCHANGED <<task, open, count>>,
         answers' \in Nat, phase' \in {"warmup", "question"}
  PROVE  TypeOK'
<1>1. /\ used' \in Seq(Nat) /\ Objects \subseteq Objects' /\ main' \in Objects'
  BY ResetFacts DEF StartTurn
<1>2. loop' = main' /\ asked' = 0 /\ through' = 0 /\ refused' = FALSE
  BY DEF StartTurn
<1>3. task' \in [Calls -> Objects']
  BY <1>1 DEF TypeOK
<1>4. QED
  BY <1>1, <1>2, <1>3 DEF TypeOK

LEMMA TurnShared ==
  ASSUME TypeOK, StartTurn, UNCHANGED <<task, open, count>>, Wrapped,
         open = {}, phase' \in {"warmup", "question"}
  PROVE  Shared' /\ HeaderCountsCalls'
<1>1. main' # Unset /\ used'[main'] = 0
  BY ResetFacts DEF StartTurn
<1>2. loop' = main' /\ through' = 0
  BY DEF StartTurn
<1>3. through' <= CATALOG_BUDGET
  BY <1>2, BudgetAssumption
<1>4. QED
  BY <1>1, <1>2, <1>3 DEF Shared, HeaderCountsCalls

(* The invariant is inductive. *)
LEMMA BudgetStep ==
  ASSUME BudgetInv, [Next]_vars
  PROVE  BudgetInv'
<1> USE DEF BudgetInv
<1>1. CASE StartAnswer
  <2>1. StartTurn /\ UNCHANGED <<task, open, count>> /\ answers' \in Nat
        /\ phase = "idle" /\ phase' \in {"warmup", "question"}
    BY <1>1 DEF StartAnswer, TypeOK
  <2>2. TypeOK'
    BY <2>1, TurnType
  <2>3. Wrapped => Shared' /\ HeaderCountsCalls'
    BY <2>1, TurnShared DEF Shared
  <2>4. QED
    BY <2>2, <2>3 DEF HeaderCountsCalls
<1>2. CASE EndWarmup
  <2>1. StartTurn /\ UNCHANGED <<task, open, count>> /\ answers' \in Nat
        /\ open = {} /\ phase' \in {"warmup", "question"}
    BY <1>2 DEF EndWarmup, TypeOK
  <2>2. TypeOK'
    BY <2>1, TurnType
  <2>3. Wrapped => Shared' /\ HeaderCountsCalls'
    BY <2>1, TurnShared
  <2>4. QED
    BY <2>2, <2>3 DEF HeaderCountsCalls
<1>3. CASE EndAnswer
  <2>1. CASE Wrapped
    <3>1. count' = through
      BY <1>3, <2>1 DEF EndAnswer, Shared
    <3>2. TypeOK'
      BY <1>3, <3>1 DEF EndAnswer, TypeOK, Objects
    <3>3. Shared' /\ HeaderCountsCalls'
      BY <1>3, <2>1, <3>1 DEF EndAnswer, Shared, HeaderCountsCalls
    <3>4. QED
      BY <3>2, <3>3
  <2>2. CASE ~Wrapped
    BY <1>3, <2>2 DEF EndAnswer, TypeOK, Objects, HeaderCountsCalls
  <2>3. QED
    BY <2>1, <2>2
<1>4. ASSUME NEW c \in Calls, OpenCall(c)
      PROVE  BudgetInv'
  <2>1. TypeOK'
    BY <1>4 DEF OpenCall, TypeOK, Objects
  <2>2. ASSUME Wrapped PROVE Shared'
    <3>1. \A d \in open' : task'[d] = main'
      BY <1>4, <2>2 DEF OpenCall, Shared, TypeOK
    <3>2. QED
      BY <1>4, <2>2, <3>1 DEF OpenCall, Shared
  <2>3. HeaderCountsCalls'
    BY <1>4 DEF OpenCall, HeaderCountsCalls
  <2>4. QED
    BY <2>1, <2>2, <2>3
<1>5. ASSUME NEW c \in Calls, ToolCall(c)
      PROVE  BudgetInv'
  <2>1. TypeOK'
    <3>1. used' \in Seq(Nat) /\ Objects \subseteq Objects' /\ through' \in Nat
          /\ refused' \in BOOLEAN
      BY <1>5, SpendFacts DEF ToolCall
    <3>2. /\ UNCHANGED <<main, loop, phase, answers, asked, count>>
          /\ open' = open \ {c} /\ task' = [task EXCEPT ![c] = Unset]
      BY <1>5 DEF ToolCall
    <3>3. Unset \in Objects'
      BY <3>1 DEF Objects, Unset, TypeOK
    <3>4. task' \in [Calls -> Objects']
      BY <3>1, <3>2, <3>3 DEF TypeOK
    <3>5. main' \in Objects' /\ loop' \in Objects'
      BY <3>1, <3>2 DEF TypeOK
    <3>6. open' \subseteq Calls
      BY <3>2 DEF TypeOK
    <3>7. QED
      BY <3>1, <3>2, <3>4, <3>5, <3>6 DEF TypeOK
  <2>2. ASSUME Wrapped PROVE Shared' /\ HeaderCountsCalls'
    <3>1. /\ phase' = phase /\ main' = main /\ loop' = loop /\ c \in open
          /\ open' = open \ {c} /\ task' = [task EXCEPT ![c] = Unset]
      BY <1>5 DEF ToolCall
    <3>2. phase # "idle" /\ Spend(c)
      BY <1>5, <2>2, <3>1 DEF Shared, ToolCall
    <3>3. used'[main'] = through' /\ through' <= CATALOG_BUDGET
      <4>1. main \in 1..Len(used) /\ used \in Seq(Nat) /\ through \in Nat
            /\ used[main] = through /\ through <= CATALOG_BUDGET
            /\ CATALOG_BUDGET \in Nat
        BY <2>2, <3>2, BudgetAssumption DEF Shared, TypeOK, Objects, Unset
      <4>2. CASE /\ through < CATALOG_BUDGET
                 /\ through' = through + 1
                 /\ used' = [used EXCEPT ![main] = through + 1]
        BY <3>1, <4>1, <4>2
      <4>3. CASE used' = used /\ through' = through
        BY <3>1, <4>1, <4>3
      <4>4. QED
        BY <2>2, <3>1, <3>2, <4>2, <4>3, SharedSpend
    <3>4. \A d \in open' : task'[d] = main'
      BY <2>2, <3>1 DEF Shared, TypeOK
    <3>5. QED
      BY <2>2, <3>1, <3>2, <3>3, <3>4 DEF Shared, HeaderCountsCalls
  <2>3. QED
    BY <2>1, <2>2 DEF HeaderCountsCalls
<1>6. CASE UNCHANGED vars
  BY <1>6 DEF vars, TypeOK, Objects, Shared, HeaderCountsCalls
<1>7. QED
  BY <1>1, <1>2, <1>3, <1>4, <1>5, <1>6 DEF Next

LEMMA BudgetInit == Init => BudgetInv
<1> SUFFICES ASSUME Init PROVE BudgetInv
  OBVIOUS
<1>1. used = <<>> /\ Len(used) = 0 /\ used \in Seq(Nat)
  BY DEF Init
<1>2. TypeOK
  <2>1. main \in Objects /\ loop \in Objects /\ task \in [Calls -> Objects]
    BY <1>1 DEF Init, Objects, Unset
  <2>2. refused \in BOOLEAN
    BY Zenon DEF Init
  <2>3. open \subseteq Calls /\ phase = "idle" /\ through = 0 /\ count = 0
        /\ answers = 0 /\ asked = 0
    BY DEF Init
  <2>4. QED
    BY <1>1, <2>1, <2>2, <2>3 DEF TypeOK
<1>3. Shared /\ HeaderCountsCalls
  BY BudgetAssumption DEF Init, Shared, HeaderCountsCalls
<1>4. QED
  BY <1>2, <1>3 DEF BudgetInv

(* Every reachable state satisfies the invariant. *)
THEOREM BudgetInvariant == Spec => []BudgetInv
<1>1. BudgetInv /\ [Next]_vars => BudgetInv'
  BY BudgetStep
<1>2. QED
  BY <1>1, BudgetInit, PTL DEF Spec

(* The budget objects, the contexts and the counters keep their types: a   *)
(* context is only ever bound to an object that exists.                    *)
THEOREM BudgetTypes == Spec => []TypeOK
<1>1. BudgetInv => TypeOK
  BY DEF BudgetInv
<1>2. QED
  BY <1>1, BudgetInvariant, PTL

(* The count printed in an answer's header is the number of calls that     *)
(* were let through for that answer, whatever the limit, the warm-up and   *)
(* the calls open at once.                                                 *)
THEOREM HeaderIsTrue == Spec => []HeaderCountsCalls
<1>1. BudgetInv => HeaderCountsCalls
  BY DEF BudgetInv
<1>2. QED
  BY <1>1, BudgetInvariant, PTL

(* Under a serving wrapper no answer exceeds the budget.  (Without one the *)
(* run MCToolBudget_server shows that it does.)                            *)
THEOREM WrappedWithinBudget == Spec => [](Wrapped => WithinBudget)
<1>1. BudgetInv => (Wrapped => WithinBudget)
  BY DEF BudgetInv, Shared, WithinBudget
<1>2. QED
  BY <1>1, BudgetInvariant, PTL

(* Every step of a wrapped answer is a step of the promise, or is none of  *)
(* its business.                                                           *)
LEMMA PromiseStep ==
  ASSUME Wrapped, BudgetInv, [Next]_vars
  PROVE  [Promise!Next]_<<through, refused>>
<1> USE DEF BudgetInv
<1>1. CASE StartAnswer
  BY <1>1 DEF StartAnswer, StartTurn, Promise!Next, Promise!NewAnswer
<1>2. CASE EndWarmup
  BY <1>2 DEF EndWarmup, StartTurn, Promise!Next, Promise!NewAnswer
<1>3. CASE EndAnswer
  BY <1>3 DEF EndAnswer
<1>4. ASSUME NEW c \in Calls, OpenCall(c)
      PROVE  UNCHANGED <<through, refused>>
  BY <1>4 DEF OpenCall
<1>5. ASSUME NEW c \in Calls, ToolCall(c)
      PROVE  Promise!Next
  <2>1. c \in open /\ Spend(c) /\ phase # "idle"
    BY <1>5 DEF ToolCall, Shared
  <2>2. CASE /\ through < CATALOG_BUDGET /\ through' = through + 1
             /\ refused' = refused
    BY <2>2 DEF Promise!Next, Promise!Grant
  <2>3. CASE /\ through = CATALOG_BUDGET /\ refused' = TRUE
             /\ through' = through
    BY <2>3 DEF Promise!Next, Promise!Refuse
  <2>4. QED
    BY <2>1, <2>2, <2>3, SharedSpend
<1>6. CASE UNCHANGED vars
  BY <1>6 DEF vars
<1>7. QED
  BY <1>1, <1>2, <1>3, <1>4, <1>5, <1>6 DEF Next

(* The wrapped budget implements the promise: no call beyond the limit,    *)
(* none refused before it.                                                 *)
THEOREM BudgetImplementsPromise ==
  ASSUME Wrapped
  PROVE  Spec => BudgetKept
<1>1. Init => Promise!Init
  BY DEF Init, Promise!Init
<1>2. BudgetInv /\ [Next]_vars => [Promise!Next]_<<through, refused>>
  BY PromiseStep
<1>3. QED
  BY <1>1, <1>2, BudgetInvariant, PTL DEF Spec, BudgetKept, Promise!Spec
=============================================================================

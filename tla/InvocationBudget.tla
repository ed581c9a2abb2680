-------------------------- MODULE InvocationBudget --------------------------
(***************************************************************************)
(* What every paid command of skill-evidence promises about its budget.     *)
(*                                                                          *)
(* A budget key (an Author campaign, one sample of a benchmark, one kind of *)
(* live experiment) authorises one provider invocation.  An actor, which is *)
(* one operating-system process, first takes the key; a key is never given  *)
(* back or passed on, whether its actor succeeds, fails or dies.  Only the  *)
(* actor that took a key may spend it, and it spends it once.               *)
(*                                                                          *)
(* This is the abstract specification: the modules of the commands map      *)
(* their reservation files and their provider calls onto it.                *)
(***************************************************************************)
EXTENDS Naturals

CONSTANTS Key,      \* what a budget is counted by
          Actor,    \* the processes that may take a key
          Nobody    \* the mark of a key that no actor has taken

VARIABLES holder,   \* holder[k]: the actor that took k, or Nobody
          spent     \* spent[k]: provider invocations made on k

budget == <<holder, spent>>

TypeOK ==
  /\ holder \in [Key -> Actor \cup {Nobody}]
  /\ spent \in [Key -> Nat]

Init ==
  /\ holder = [k \in Key |-> Nobody]
  /\ spent = [k \in Key |-> 0]

Take(a, k) ==
  /\ holder[k] = Nobody
  /\ holder' = [holder EXCEPT ![k] = a]
  /\ UNCHANGED spent

Spend(a, k) ==
  /\ holder[k] = a
  /\ spent[k] = 0
  /\ spent' = [spent EXCEPT ![k] = 1]
  /\ UNCHANGED holder

Next == \E a \in Actor, k \in Key : Take(a, k) \/ Spend(a, k)

Spec == Init /\ [][Next]_budget

-----------------------------------------------------------------------------

\* No key is ever spent twice, and none is spent that nobody took.
WithinBudget ==
  \A k \in Key : spent[k] <= 1 /\ (spent[k] > 0 => holder[k] \in Actor)
=============================================================================

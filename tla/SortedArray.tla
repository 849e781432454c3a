----------------------------- MODULE SortedArray -----------------------------
(***************************************************************************)
(* What a caller of the vector sort may rely on: given two arrays it ends  *)
(* with one of them holding the input's items in ascending order, and it   *)
(* changes no memory but the two arrays'.  Which of the arrays it is, is   *)
(* the sort's choice, and what it leaves in the other is unspecified.      *)
(***************************************************************************)
EXTENDS Integers, Sequences, TLC

VARIABLES
    call,       \* the arguments, and the memory when the call was made
    mem,        \* the memory
    state,      \* "sorting", "sorted"
    result      \* where the sorted items are

vars == <<call, mem, state, result>>

Cells(a, n) == a .. (a + n - 1)
Items(m, a, n) == SubSeq(m, a + 1, a + n)
InArrays(i) == i - 1 \in Cells(call.inp, call.n) \/ i - 1 \in Cells(call.out, call.n)

Init == /\ call \in [inp : Nat, out : Nat, n : Nat, mem : Seq(Nat)]
        /\ mem = call.mem
        /\ state = IF call.n = 0 THEN "sorted" ELSE "sorting"
        /\ result = call.inp

Work == /\ state = "sorting"
        /\ DOMAIN mem' = DOMAIN mem
        /\ \A i \in DOMAIN mem : mem'[i] # mem[i] => InArrays(i)
        /\ UNCHANGED <<call, state, result>>

Finish == /\ state = "sorting"
          /\ state' = "sorted"
          /\ result' \in {call.inp, call.out}
          /\ Items(mem, result', call.n) = SortSeq(Items(call.mem, call.inp, call.n), <)
          /\ UNCHANGED <<call, mem>>

Next == Work \/ Finish

Spec == Init /\ [][Next]_vars
=============================================================================

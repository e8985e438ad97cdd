---------------------------- MODULE MCCartMerge ----------------------------
(* Instances of CartMerge for TLC: dish d1 is named in every way, d2 by its  *)
(* name; one delta names something the menu does not have.                   *)
EXTENDS CartMerge, TLC

CONSTANTS d1, d2, add_one

W(dish, form) == [dish |-> dish, form |-> form]
Delta(label, word, op, qty) == [label |-> label, word |-> word, op |-> op, qty |-> qty]
Item(word, qty) == [word |-> word, dish |-> NoDish, qty |-> qty]

Add(word)    == Delta(NoLabel, word, "add", 1)
TakeOff(word) == Delta(NoLabel, word, "remove", 1)
SetTo(word, n) == Delta(NoLabel, word, "set_quantity", n)

MCBatches ==
    {<<Add(W(d1, f))>>       : f \in {"id", "name", "alias"}} \cup
    {<<TakeOff(W(d1, f))>>    : f \in {"id", "name", "alias"}} \cup
    {<<SetTo(W(d1, f), 2)>>  : f \in {"id", "name", "alias"}} \cup
    {<<Delta(add_one, W(d2, "name"), "add", 1)>>,
     <<Delta(add_one, W(d2, "name"), "add", 1), Delta(add_one, W(d2, "name"), "add", 2)>>,
     <<SetTo(W(d2, "name"), 0)>>,
     <<Add(W(d1, "alias")), TakeOff(W(d1, "id"))>>,
     <<Add(W(d1, "name")), Add(W(NoDish, "name"))>>,
     <<Add(W(NoDish, "id"))>>}

MCLists ==
    {<<Item(W(d1, "name"), 1)>>,
     <<Item(W(d1, "alias"), 1), Item(W(d1, "name"), 1)>>,
     <<Item(W(d1, "alias"), 1), Item(W(d2, "name"), 1)>>,
     <<Item(W(d2, "name"), 2), Item(W(NoDish, "alias"), 1)>>}

Symmetry == Permutations(Messages)
=============================================================================

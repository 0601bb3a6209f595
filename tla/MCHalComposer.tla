----------------------------- MODULE MCHalComposer -----------------------------
(* Lists with tasks, an owner and the list they are within, tasks with their    *)
(* list and owner; a class that extends another and has an accessor only by it, *)
(* if the decorators run in order.                                              *)
EXTENDS HalComposer, TLC

R(type, list) == [resource |-> type, list |-> list]
MCTypes == {"Task", "List", "User", "Sub"}
MCOwnRelations ==
  [Task |-> [list |-> R("Sub", FALSE), owner |-> R("User", FALSE)],
   List |-> [tasks |-> R("Task", TRUE), owner |-> R("User", FALSE), within |-> R("List", FALSE)],
   User |-> <<>>,
   Sub  |-> [owner |-> R("User", FALSE)]]
MCResourceLineage == [t \in MCTypes |-> IF t = "Sub" THEN <<"Sub", "List">> ELSE <<t>>]
MCOwnIdTypes == {"List"}
D(type, kind) == [type |-> type, kind |-> kind]
ParentFirst == <<D("Task", "get"), D("Task", "list"), D("List", "member"), D("List", "get"), D("User", "get"), D("Sub", "member")>>
SubFirst == <<D("Sub", "member"), D("User", "get"), D("List", "get"), D("Task", "list"), D("Task", "get")>>
MCDecoratorOrders == {ParentFirst, SubFirst}
NestedDecoratorOrders == {ParentFirst}

(* Paths with a common beginning, with two different ones, a repeated relation, *)
(* one that does not exist, one by way of a type that may lack an accessor.     *)
MCAsks == {<<>>, << <<"owner">>, <<"tasks", "owner">> >>, << <<"tasks">>, <<"tasks", "owner">> >>,
           << <<"tasks", "owner">>, <<"owner", "list">> >>, << <<"self">>, <<"owner">> >>,
           << <<"tasks", "list", "owner">> >>, << <<"within", "owner">>, <<"within">> >>}
NestedAsks == {<< <<"owner">>, <<"tasks", "owner">> >>}
================================================================================

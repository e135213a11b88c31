------------------------------ MODULE WorkPool -------------------------------
(***************************************************************************)
(* What the thread pool promises to the code that queues work on it: a     *)
(* work item is run by one thread and at most once, its reply function is  *)
(* run exactly once after that, and a cancelled item is one that no thread *)
(* has touched and none will.  Cancelling an item that a thread has        *)
(* already taken does nothing.                                             *)
(***************************************************************************)

CONSTANT Items

VARIABLE item   \* what has become of each item

Stages == {"new", "pending", "running", "answered", "replied", "cancelled"}

Move(i, from, to) == item[i] = from /\ item' = [item EXCEPT ![i] = to]

Init == item = [i \in Items |-> "new"]

Queue(i)  == Move(i, "new", "pending")
Start(i)  == Move(i, "pending", "running")
Finish(i) == Move(i, "running", "answered")
Reply(i)  == Move(i, "answered", "replied")
Cancel(i) == Move(i, "pending", "cancelled")

Next == \E i \in Items :
          Queue(i) \/ Start(i) \/ Finish(i) \/ Reply(i) \/ Cancel(i)

Spec == Init /\ [][Next]_item
=============================================================================

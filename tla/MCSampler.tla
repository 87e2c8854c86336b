----------------------------- MODULE MCSampler -----------------------------
(* A small instance of the sampler: a request with all its budgets and images, and one *)
(* without, under one id or two.                                                       *)
EXTENDS Sampler

Names   == {<<1, 1>>, <<1, 2>>}
Budgets == <<[retries |-> 3, doom |-> 1], [retries |-> 0, doom |-> 0]>>
=============================================================================

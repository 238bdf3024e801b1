------------------------ MODULE MC_CellServiceBudget ------------------------
(* The CellService instance of MC_CellService with a history variable that *)
(* counts the backoff delays a request sleeps through, in the dial loop    *)
(* and in the retried call together.  The router's steps are unchanged:    *)
(* spent only records what each step did to the backoff.                   *)
EXTENDS MC_CellService

VARIABLE
  spent  \* spent[r]: backoff delays r has slept through since it was received

\* A step sleeps one backoff delay for r exactly when it takes a retry from
\* r's backoff (the Dial and RpcReturn retries) and r is still being
\* served; an answer ends the request and clears its count.
Slept(r) == pc'[r] # "idle" /\ budget'[r] < budget[r]

BudgetInit == SvcInit /\ spent = [r \in Reqs |-> 0]

BudgetNext ==
  /\ SvcNext
  /\ spent' = [r \in Reqs |-> IF pc'[r] = "idle" THEN 0
                              ELSE IF Slept(r) THEN spent[r] + 1
                              ELSE spent[r]]

BudgetSpec == BudgetInit /\ [][BudgetNext]_<<allVars, spent>>

(* Spec sections 4.6 and 5: the dial and the retried call share one       *)
(* backoff budget, "a hard 20 s budget for nested dial + retry", so a     *)
(* request sleeps through at most MaxRetries delays in all.  do_in_cell!  *)
(* hands the strategy its dial loop has partly spent to                   *)
(* backoff::future::retry, which resets it before the first call.         *)
SharedBackoffBudget ==
  \A r \in Reqs : spent[r] <= MaxRetries
=============================================================================

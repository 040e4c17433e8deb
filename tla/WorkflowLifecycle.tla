------------------------- MODULE WorkflowLifecycle -------------------------
(***************************************************************************)
(* What a workflow execution promises, with no tables, leases or clock: an *)
(* execution is one token that is offered, claimed, and handed on.  Only a *)
(* claimed attempt completes or fails, a retry raises the attempt by one,  *)
(* a new step starts at attempt 0, and an ended execution stays as it is.  *)
(***************************************************************************)
EXTENDS Naturals

CONSTANTS Executions, StepNames, Workers, None

VARIABLE life   \* life[e] is None until e starts

Offer(s, attempt) ==
  [phase |-> "Pending", step |-> s, attempt |-> attempt, holder |-> None]

In(e, phases) == life[e] # None /\ life[e].phase \in phases

Begins(e) == life[e] = None /\ \E s \in StepNames : life'[e] = Offer(s, 0)

\* A claim of an offered attempt, or of one whose holder went silent.
Claims(e) ==
  /\ In(e, {"Pending", "Running"})
  /\ \E w \in Workers :
       life'[e] = [life[e] EXCEPT !.phase = "Running", !.holder = w]

Advances(e) ==
  In(e, {"Running"}) /\ \E s \in StepNames : life'[e] = Offer(s, 0)

Finishes(e) ==
  /\ In(e, {"Running"})
  /\ life'[e] = [life[e] EXCEPT !.phase = "Completed", !.holder = None]

Fails(e) ==
  /\ In(e, {"Running"})
  /\ \/ life'[e] = Offer(life[e].step, life[e].attempt + 1)
     \/ life'[e] = [life[e] EXCEPT !.phase = "Failed", !.holder = None]

Cancels(e) ==
  /\ In(e, {"Pending", "Running"})
  /\ life'[e] = [life[e] EXCEPT !.phase = "Canceled", !.holder = None]

Init == life = [e \in Executions |-> None]

\* A poll claims and a sweep fails any number of executions at once; every
\* other operation moves one.
Next ==
  \/ \E e \in Executions :
       /\ Begins(e) \/ Advances(e) \/ Finishes(e) \/ Fails(e) \/ Cancels(e)
       /\ \A f \in Executions \ {e} : life'[f] = life[f]
  \/ \A e \in Executions : life'[e] = life[e] \/ Claims(e)
  \/ \A e \in Executions : life'[e] = life[e] \/ Fails(e)

Spec == Init /\ [][Next]_life

=============================================================================

-------------------------------- MODULE Feed --------------------------------
(***************************************************************************)
(* What the message queue promises the engine: the wanted messages are     *)
(* applied one after the other, in the order of the queue, none left out;  *)
(* after a death the engine goes on behind its check point.                *)
(***************************************************************************)
EXTENDS Integers

CONSTANTS Msgs, Wanted
VARIABLES last, chk, alive
vars == <<last, chk, alive>>

\* The wanted messages after p.
After(p) == {m \in Wanted : m > p}

Init == last = 0 /\ chk = 0 /\ alive = TRUE

Apply ==
  /\ alive
  /\ last' \in After(last) /\ \A m \in After(last) : last' <= m
  /\ UNCHANGED <<chk, alive>>

Save == alive /\ chk' \in chk..last /\ UNCHANGED <<last, alive>>

Stop == alive /\ alive' = FALSE /\ UNCHANGED <<last, chk>>

Start == ~alive /\ alive' = TRUE /\ last' = chk /\ UNCHANGED chk

Next == Apply \/ Save \/ Stop \/ Start
Spec == Init /\ [][Next]_vars
=============================================================================

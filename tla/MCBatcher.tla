------------------------------ MODULE MCBatcher ------------------------------
(***************************************************************************)
(* Batcher with numbered Add calls.  The calls are interchangeable, so it  *)
(* is enough to make them in order: the n-th call of a behaviour is n.     *)
(***************************************************************************)
EXTENDS Batcher

CallsInOrder == \A e \in offered' : 1..e \subseteq offered'

MCSpec == Init /\ [][Next /\ CallsInOrder]_vars /\ Fairness
===============================================================================

------------------------------- MODULE MCJobs -------------------------------
(* Jobs for TLC: no symmetry, since a liveness property is checked.          *)
EXTENDS Jobs, TLC

CONSTANT FewViews

(* Jobs and history meet in the cleanup job only: faults and the other kinds
   of job are explored with few views of what is there, and many views, of
   what may go, with cleanup jobs that run without faults. *)
Lively == SumFunction(tracked) <= FewViews /\ existing = Users \cup Products
Calm == faults = 0 /\ \A j \in JobIds : jobs[j] # None => jobs[j].kind = "cleanup"

MCNext == Next /\ (Lively' \/ Calm')

MCSpec == Init /\ [][MCNext]_vars /\ Fairness
=============================================================================

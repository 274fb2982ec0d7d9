---------------------------- MODULE MCScheduler ----------------------------
(* Instance of Scheduler for TLC: the startup task, the timer task and a    *)
(* task of the application.  KRN_priority makes any of them peers.          *)
EXTENDS SchedulerLive

CONSTANTS startup, timer, a, w1
=============================================================================

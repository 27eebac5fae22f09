-------------------------- MODULE MCSchedulerLoop --------------------------
EXTENDS SchedulerLoop
=============================================================================

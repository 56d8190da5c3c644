---------------------------- MODULE MCScheduler ----------------------------
\* The scheduler over one configured bin and one that a put creates.
EXTENDS Scheduler
=============================================================================

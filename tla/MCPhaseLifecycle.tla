-------------------------- MODULE MCPhaseLifecycle --------------------------
EXTENDS PhaseLifecycle
=============================================================================

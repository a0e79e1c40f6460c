-------------------------- MODULE MCAlertPipeline --------------------------
EXTENDS AlertPipeline, TLC

\* Workers are interchangeable, and so are events.
Symmetry == Permutations(Workers) \cup Permutations(Events)
=============================================================================

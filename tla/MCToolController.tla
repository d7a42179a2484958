-------------------------- MODULE MCToolController --------------------------
EXTENDS ToolController, TLC

\* Calls are interchangeable, and so are the editable files.
CallsAndFiles == Permutations(Calls) \cup Permutations(Files)
=============================================================================

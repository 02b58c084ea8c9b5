----------------------------- MODULE MCToolBatch -----------------------------
EXTENDS ToolBatch
=============================================================================

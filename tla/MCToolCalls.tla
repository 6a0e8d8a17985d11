---------------------------- MODULE MCToolCalls ----------------------------
EXTENDS ToolCalls
=============================================================================

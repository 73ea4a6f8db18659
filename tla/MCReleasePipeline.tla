------------------------- MODULE MCReleasePipeline --------------------------
EXTENDS ReleasePipeline
=============================================================================

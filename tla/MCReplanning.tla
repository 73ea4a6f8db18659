---------------------------- MODULE MCReplanning ----------------------------
EXTENDS Replanning
=============================================================================

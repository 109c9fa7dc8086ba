---------------------------- MODULE MCWriteBack ----------------------------
EXTENDS WriteBack
=============================================================================

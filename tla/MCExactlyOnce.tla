--------------------------- MODULE MCExactlyOnce ---------------------------
EXTENDS ExactlyOnce
LOCAL INSTANCE FiniteSetsExt

CONSTANT MaxWrites

(* the writes of all sessions together *)
FewWrites == MapThenSumSet(LAMBDA s : writeSeq[s], Sessions) <= MaxWrites
=============================================================================

------------------------------ MODULE MCRunLoop ------------------------------
(* RunLoop alone, for the run that refutes CloseEnds; MCStreams has its    *)
(* other properties.  FetchMore asks for one row or for the rest.          *)
EXTENDS RunLoop

MCFetches == {1, U64Max}
=============================================================================

---------------------------- MODULE MCClientConn ----------------------------
(* ClientConn for TLC.                                                       *)
EXTENDS ClientConn

\* The CA's retry time has passed already, so that the base backoff is slept.
MCRetryAfters == {-1}

==============================================================================

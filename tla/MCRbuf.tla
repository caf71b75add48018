------------------------------- MODULE MCRbuf -------------------------------
(* Three items in a ring of three slots: every wrap of both indices, a full *)
(* buffer that is overwritten several times and every reuse of the handle.  *)
EXTENDS Rbuf

MCItem == {"zero", "one", "two"}
=============================================================================

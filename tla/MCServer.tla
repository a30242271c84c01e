------------------------------- MODULE MCServer -------------------------------
(***************************************************************************)
(* Small instances of Server for TLC.                                      *)
(***************************************************************************)
EXTENDS Server, TLC

\* Clients are interchangeable: no definition tells one from another.
ClientSymmetry == Permutations(Remotes)

\* ESTABLISHED carries TCP_STATE_FLAG_RX_BUF, and so does LAST_ACK, where
\* what came before the FIN can still be read.
MCRxBufStates == {"ESTABLISHED", "LAST_ACK"}

=============================================================================

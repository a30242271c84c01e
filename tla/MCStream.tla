------------------------------- MODULE MCStream -------------------------------
(***************************************************************************)
(* Small instances of TcpStream for TLC.                                   *)
(***************************************************************************)
EXTENDS TcpStream

MCOne   == <<1>>
MCTwo   == <<1, 2>>
MCThree == <<1, 2, 3>>
MCFour  == <<1, 2, 3, 4>>

=============================================================================

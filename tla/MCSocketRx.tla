----------------------------- MODULE MCSocketRx -----------------------------
(***************************************************************************)
(* The instances of SocketRx that TLC checks: two sockets, with one reader *)
(* that is prompt and one that is not, and with neither prompt.            *)
(***************************************************************************)
EXTENDS SocketRx

MCOnePrompt == {0}
MCNonePrompt == {}
=============================================================================

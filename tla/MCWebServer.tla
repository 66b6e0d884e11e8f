---------------------------- MODULE MCWebServer ----------------------------
(***************************************************************************)
(* The instance of WebServer that TLC checks: a page of one part, an SD    *)
(* file of two.                                                            *)
(***************************************************************************)
EXTENDS WebServer

MCPages == {"page"}
MCFiles == {"file"}
MCSize == [c \in MCPages \cup MCFiles |-> IF c = "page" THEN 1 ELSE 2]
=============================================================================

---------------------------- MODULE MCHttpServer ----------------------------
(***************************************************************************)
(* The instance of HttpServer that TLC checks: a page of one part, one of  *)
(* three parts the last of which is full, an SD file of two parts and an   *)
(* empty one.                                                              *)
(***************************************************************************)
EXTENDS HttpServer

MCPages == {"short", "long"}
MCFiles == {"file", "empty"}
MCSize == [c \in MCPages \cup MCFiles |->
             CASE c = "short" -> 2 [] c = "long" -> 6 [] c = "file" -> 3 [] c = "empty" -> 0]
=============================================================================

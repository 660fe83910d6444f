----------------------------- MODULE MCTypeCheck -----------------------------
(* TypeCheck with the three types programs declare; Type::Char has no      *)
(* literal and takes the paths of "string".                                *)
EXTENDS TypeCheck
MCType == {"int", "string", "void"}
=============================================================================

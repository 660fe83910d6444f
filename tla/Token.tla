------------------------------- MODULE Token -------------------------------
(***************************************************************************)
(* The types of tokens (token.h), which the lexer makes and the parser     *)
(* reads.                                                                  *)
(***************************************************************************)

TokenType ==
  {"Eof", "Identifier", "TypeName", "KeywordIf", "KeywordElse", "KeywordWhile", "KeywordReturn",
   "KeywordOtherwise", "KeywordRepeat", "KeywordFun", "KeywordVar", "Semicolon", "Comma", "Lparen",
   "Rparen", "Lcurl", "Rcurl", "Lbracket", "Rbracket", "Assign", "OpOr", "OpAnd", "OpBor", "OpXor",
   "OpBand", "OpNe", "OpEq", "OpGt", "OpGe", "OpLt", "OpLe", "OpPlus", "OpMinus", "OpTimes",
   "OpDiv", "OpRem", "OpNot", "IntLiteral", "FloatLiteral", "StrLiteral", "BoolLiteral"}
=============================================================================

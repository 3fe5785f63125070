------------------------------ MODULE MCLexer ------------------------------
(* Small texts for Lexer.                                                  *)
EXTENDS Lexer

CONSTANTS MaxLen, UsedClasses

(* All texts of at most MaxLen characters.                                 *)
MCSources == UNION {[1..n -> UsedClasses] : n \in 0..MaxLen}
=============================================================================

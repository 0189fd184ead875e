---------------------------- MODULE MCSymbolTable ----------------------------
(* A small instance of SymbolTable: two ordinary names and one builtin,    *)
(* types of three sizes (void has size 0), up to three scopes.             *)
EXTENDS SymbolTable

MCTypeSize == [t \in Types |-> CASE t = "void" -> 0 [] t = "char" -> 1 [] t = "int32" -> 4]
=============================================================================

---------------------------- MODULE SymbolTable ----------------------------
(***************************************************************************)
(* The symbol table of one function (src/src/common/symbol.cpp).           *)
(*                                                                         *)
(* An environment is the sequence of the symbols in its symbol_table; a    *)
(* symbol's id is its index there, counted from 0, and is what the syntax  *)
(* tree stores (token.inner_scope_id).  A symbol is its name and its type; *)
(* the hash field is always 0 and is left out.                             *)
(***************************************************************************)
EXTENDS Integers, Sequences, SequencesExt

SymbolTypes == {"VAR", "PAR", "FUNC"}

Variable(str) == [str |-> str, type |-> "VAR"]
Function(str) == [str |-> str, type |-> "FUNC"]

(* create_env: an environment without symbols. *)
CreateEnv == << >>

(* find_symbol: the id of the first symbol with this name and type, or -1. *)
FindSymbol(env, sym) == SelectInSeq(env, LAMBDA s : s = sym) - 1

(* Mutants: the search is forgotten; the newest symbol comes first.        *)
AddSymbolAgain(env, sym) == Append(env, sym)
AddSymbolInFront(env, sym) ==
    IF FindSymbol(env, sym) >= 0 THEN env ELSE <<sym>> \o env

(* add_symbol_to_env: the environment afterwards ...                       *)
AddSymbol(env, sym) ==
    IF FindSymbol(env, sym) >= 0 THEN env ELSE Append(env, sym)

(* Mutant: the new symbol's id is the size, not the size minus one.        *)
AddedIdPastEnd(env, sym) ==
    LET id == FindSymbol(env, sym)
    IN  IF id >= 0 THEN id ELSE Len(AddSymbol(env, sym))

(* ... and the id it returns: the one found, or the last one.              *)
AddedId(env, sym) ==
    LET id == FindSymbol(env, sym)
    IN  IF id >= 0 THEN id ELSE Len(AddSymbol(env, sym)) - 1

(* symbol_at. *)
SymbolAt(env, id) == env[id + 1]

(* No symbol has two ids. *)
Unique(env) ==
    \A i, j \in 1..Len(env) : env[i] = env[j] => i = j

(* Every id handed out for env still names the same symbol in later. *)
Extends(env, later) ==
    /\ Len(env) <= Len(later)
    /\ \A i \in 1..Len(env) : later[i] = env[i]
=============================================================================

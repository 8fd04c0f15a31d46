# A verification of the mipt-compiler

`src/` is a compiler of a small C-like language in three programs: the front end
reads a text and writes a syntax tree to a file, the middle end reads the tree and
simplifies it, the back end reads a tree and writes assembly for a stack machine.
Everything is sequential C++. There are no threads, no messages and no retries;
what makes the program hard is elsewhere:

* a **backtracking recursive descent** that has side effects while it tries: it
  moves the position, allocates and frees nodes, and enters names in symbol tables,
  and takes back only part of that when an attempt fails;
* **manual memory**: nodes are owned by their parents, by the locals of functions
  that have not returned, and by a list that is used only when the text is rejected;
* **ids that outlive the state they were computed in**: a symbol's id is its index
  in a table that still grows, and is written into nodes;
* **partial failure**: any function of the descent may fail half-way, any growing
  array may fail to grow, any of the three programs may fail and leave old files.

## 1. The parts of the system

| part | state | operations | used by |
|---|---|---|---|
| lexer (`frontend/lexer.cpp`) | the buffer and its position, the tokens | `lex` | front end |
| syntax analyzer (`frontend/syntax_analyzer.cpp`) | `pos`, `to_delete`, the C++ call stack with each function's local nodes | one function per nonterminal, `perform_recursive_descent` | front end |
| symbol table (`common/symbol.cpp`) | a vector of symbols per function | `create_env`, `find_symbol`, `add_symbol_to_env`, `symbol_at` | syntax analyzer, tree file, translator |
| syntax tree (`common/ast.cpp`) | nodes, `root`, `envs`, `current_env`, `to_delete` | `new_node`, `add_enviroment`, `find_enviroment`, `copy_subtree`, `mark_to_delete`, `dtor` | everything |
| tree file (`common/ast.cpp`) | the file, the reading position, the environments built while reading | `fwrite_infix`, `fread_infix` | all three programs |
| vector (`common/vector.cpp`) | buffer, size, capacity | `ctor`, `push`, `pop`, `at`, `free`, `dtor` | everything |
| optimizer (`middlend/optimize.cpp`, `evaluate.cpp`) | the tree, `treeChanged` | `optimize` | middle end |
| translator (`backend/translator.cpp`) | `label_id`, `current_env`, the emitted text | `emit_program` | back end |
| pipeline (`*_main.cpp`, `*.mk`, `cc.sh`) | the files in `build/` | the three runs | the user |

The lexer hands a vector of tokens to the syntax analyzer. The syntax analyzer
builds the tree and the environments and calls the symbol table for every
identifier; the node of an identifier keeps the pair of ids (environment, symbol).
The tree file carries the tree from program to program, without the environments:
the reader builds them again from the names. The translator turns ids into stack
offsets.

What makes each part correct:

* *lexer*: the tokens of the text, in their order; keywords only where a word ends.
* *syntax analyzer*: terminates on every text; a text of the grammar gives its tree;
  every identifier's ids name it; every call has a function; a node always has one
  owner, a freed one none; a rejected text leaves nothing allocated and an accepted
  one nothing but its tree.
* *symbol table*: no symbol twice, ids are stable.
* *vector*: a sequence, whatever buffers it has been moved through; never outside
  the buffer; an allocation that fails loses nothing silently.
* *tree file*: reading what was written gives the tree, with equivalent ids.
* *optimizer*: the program computes the same; the iteration ends; no node is freed
  twice.
* *translator*: the machine computes what the tree means; the stack is balanced;
  labels are unique; frames do not overlap.
* *pipeline*: the assembly comes from this run's text.

`PROJECT.json` lists under "hazards" where each of these could go wrong, at its line.

## 2. The modules

| module | what it is |
|---|---|
| `SymbolTable` | `symbol.cpp` as operators on sequences of symbols |
| `SyntaxAnalyzer` | the recursive descent, with its heap and its tables; its properties |
| `Grammar` | the language of `src/README.md`: the text of a tree (reference definition) |
| `MCSyntaxFuzz` | the analyzer on every short text over small vocabularies |
| `MCSyntaxGrammar` | the analyzer on the texts of a family of trees, against `Grammar` |
| `MCSyntaxDocs` | claims of the documents that the code does not meet |
| `AstFile` | the file a tree is written to and read from, which may end anywhere |
| `TreeFile`, `MCTreeFile` | `SyntaxAnalyzer`, the writer and the reader together; small programs for them |
| `Lexer`, `MCLexer` | the lexer's loop over the characters; texts of up to three words |
| `Translator` | what each `emit_` function writes |
| `StackMachine` | the machine the assembly is for (external) |
| `Semantics` | what a program means, as an evaluation of its tree (reference definition) |
| `Compiler`, `MCCompiler`, `MCCompilerDocs` | front end, file, `Translator` and `StackMachine` together; programs, and what they print against `Semantics`; claims |
| `Evaluate`, `Optimizer` | constants in an `int` of some bits; `optimize` on the heap of nodes |
| `MiddleEnd`, `MCMiddleEnd`, `MCMiddleEndDocs` | front end, file and `Optimizer` together; programs, and what they print against `Semantics`; claims |
| `Pipeline` | the three programs of `cc.sh` and the files in `build/` |
| `Vector` | the growing array, with allocations that may fail |
| `GrowableSequence` | what a growing array promises (abstract specification) |
| `SyntaxAnalyzerProofs`, `SyntaxTablesProofs`, `SyntaxNodesProofs` | theorems about `SymbolTable` and `SyntaxAnalyzer`, each module on top of the one before |
| `TreeFileProofs`, `MiddleEndProofs` | theorems about writing the tree and reading it back, and about `optimize` on the tree that was read |
| `CompilerProofs`, `VectorProofs`, `PipelineProofs` | theorems about the emitted code, the growing array and the three programs |

### SyntaxAnalyzer

The C++ functions call one another, and which functions are active, with which
locals, is the state that matters. The model makes the call stack a variable:
`stack` is a sequence of frames, one for each activation, the running one last. A
frame has the label where the function stands (`at`), its two local node pointers
(`l`, `r`), the operator it has just seen (`tok`) and a number (`n`: an operator
level, the number of the attempt, a saved position, or an environment id). `ret` is
what the last callee returned.

An action runs one function from its entry, or from the return of the function it
called, to its next call or its own return, with everything it does in between:
`GetIf` is `get_if_` up to its call of `get_expr_`, `IfCondition` goes on from there
to the call of `get_block_`, and so on. Labels are named after the function, with a
suffix for the call that has returned. Functions of one shape share one action with
a parameter: the macro `OPERATOR_` is `GetOperator`/`OperatorFirst`/`OperatorNext`
with the level in the frame, and `get_argument_list_`, which is the same loop over
commas, is level 0. `get_sqrt_` returns `get_primary_`'s result unchanged, which is
a frame replaced in place.

| variable | in the code |
|---|---|
| `tokens`, `pos` | `lex->tokens`, `analyzer->pos` (from 0) |
| `stack`, `ret` | the machine's call stack and return value |
| `nodes`, `to_delete`, `freed` | the heap, `analyzer->to_delete`, the nodes given to `free()` |
| `envs`, `current_env_id` | `astree->envs`, `astree->current_env`/`current_env_id` (`NoEnv` is a `NULL` `current_env`) |
| `root`, `logged`, `status` | `astree->root`, whether a syntax error was logged, how the run ended |

The details that tests hardly reach are kept as they are in the code: an attempt
that fails does not put `pos` back (except in `get_func_call_`); `get_func_call_`
frees the identifier it backs out of while the name stays in the symbol table and
the node's address in `to_delete`; `get_if_` tests the condition again where it
means the body; the environment of a function is the current one as soon as its
name is read, and stays when the declaration fails; `get_identifier_` enters every
name as a variable; `get_primary_` skips whatever follows a parenthesised
expression. Where the process dies (a `NULL` is dereferenced, an assertion fails, a
node is freed twice) the run ends with `status = "aborted"`.

Abstractions: texts of tokens stand for the tokens, with their positions in the
file left out; the parent pointers, which nothing in the front end reads, are left
out; `calloc` succeeds (failing allocations are the subject of `Vector`); a number
of a node is not used again after `free()`, as with the address sanitizer the
program is built with (`Frontend.mk`), so that a double free ends the process; messages are
reduced to the flag `logged`.

### AstFile, TreeFile

`AstFile` has the writer as one action, `Write`, and the reader in small steps. The
file is a sequence of chunks, one for each `fprintf` of `fwrite_node_`: the opening
of a node with its token and, for an identifier, the type of its symbol; `nil` for a
missing left or right child (only the right one has spaces around it, which matters
at the end of a file); the closing parenthesis. Because nobody looks at what
`fprintf` answers, `Write` may leave any beginning of the text, with a last chunk
that is cut short (`torn`).

The reader's variables are its heap (`nodes`, `to_delete`, `freed`, `root`), its
environments, its position and `calls`, the activations of `fread_node_infix_`, each
with the node it fills and what it reads next. `OpenPlain`, `OpenFunction` and
`OpenVariable` are the branches of `scan_token_` with the node they fill, `Nil` and
`Close` the rest of `fread_node_infix_`, `Finish` and `Reject` the two ends of
`fread_infix`. `Ahead` is the character at the position, also at the end of the file:
`advance_buf_pos_` does not leave the last character, so a last `)` is seen again and
again, while `nil` is skipped without `advance_buf_pos_` and leads out of the buffer,
where the address sanitizer ends the process (`Overrun`). In a torn chunk the reader
may find an error or run out of the buffer, whichever it is: both are possible.

`TreeFile` EXTENDS `SyntaxAnalyzer` and has `AstFile` as an instance whose variables
begin with `r_` where the analyzer has one of the same name. The analyzer runs; an
accepted tree is written with the analyzer's environments; what has become of the
file is read. Its properties relate the two heaps and the two sets of tables.

### Lexer

A step is one turn of the loop in `lex_`: a comment, if there is one, and then the
first of the table's entries that fits (`LexTable`), a number, an identifier, spaces,
the end, or the error. `buf` is the text up to its last character, which the code
replaces by the terminator. `AfterComment` is the `sscanf` with its format, in which
the space stands for line feeds as well. Strings are sequences of characters, so that
a comparison with an entry of the table is a `SubSeq`. A record in `Files` has a text
and, for the properties, the words it was put together from.

### Translator, StackMachine, Semantics, Compiler

The recursion of the `emit_` functions is turned into a list: `Text(v)` is what the
function for the node `v` does, as a sequence of instructions, of items `Emit(w)` where
it calls `emit_node_` on `w`, and of the item `Arguments` for the loop of `emit_call_`,
with the values the locals have when it is entered (the label's number, the frame's
size, the cell of the next argument). `pending` is what the active functions still have
to do. `EmitNode` replaces the first item by its text, `EmitArgument` does a turn of the
loop, `WriteInstruction` writes an instruction, and `AssertionFails` is
`utils_assert(node)`. There is an
operator for each `emit_` function, with its name. The frame's size comes from the scope
of the token, which is 0 in a return, a call and a function's name that were read from
the file: it is always the first function's.

`StackMachine` is external. That the value pushed last is the right operand, that a
conditional jump compares in that order, that return addresses do not lie on the
operand stack, and that memory is zero at first is read off `emit_operator_`,
`emit_while_`, `emit_call_` and `emit_return_`. An instruction that finds no operand, cell or
label, or divides by zero, is a `Fault`.

`Semantics` evaluates a tree. It says nothing of frames, cells or labels: an
activation has variables of its own. It takes the arguments of a call in reverse
order, because `src/example/quadratic.txt` does: it declares `printRoots(a,b,c)` and
calls `printRoots(c,b,a)`.

`Compiler` composes: the analyzer accepts a text, the whole file is written and read
back by `AstFile`, translated with the tables made while reading, and run. `MCCompiler`
compares the machine's output with `Semantics` on the *analyzer's* tree (`Meaning`), so
that the file and its rebuilt ids are part of the claim. It stands there because
`Semantics` is recursive: `Compiler` itself has to stay within reach of the proofs.

### Evaluate, Optimizer, MiddleEnd

`eliminate_dead_code_` and `const_fold_` are recursive; `todo` is what their active
calls still have to visit. `const_fold_` meets a node on its way down (`EnterNode`) and
again when both children are done (`LeaveNode`, `FoldNode`). A node that is made has a
new number; `to_delete` keeps the ones that were taken out, and `Dtor` frees the tree
and then these with whatever hangs below them, counting in `frees`. `parents` are the
pointers `fread_infix` sets; the nodes `const_` makes have none. `Evaluate` has an `int`
of `Width` bits, in which sums wrap around as they do with the sanitizer the program is
built with. A missing operand, a division by zero or one whose quotient does not fit (the
smallest `int` by -1, where the machine traps) ends the process (`Die`). `pown` comes from
the library; the model takes it for the power and its cast to `int` for one that wraps, which
the language does not promise of a result that is too large.

`eliminate_neutral_` is called with the root. The root of a program that was read is a
function's name or a `{`, no operator, and at that the function returns. So nothing
below it is ever reached, `eliminate_neutral_mul_`, `_add_`, `_pow_`, `copy_subtree` and
`copy` included, and none of these is modelled.

`MiddleEnd` composes the front end, the file, `Optimizer` and the writing of the second
file, which starts below the root (`Outermost`). `MCMiddleEnd` has the comparison with
`Semantics` (`MeaningKept`), for the reason above. `ValueAssumption` says that a numeric literal is spelt like no
other token, as `TYPE_NUM_LITERAL` tokens differ from `TYPE_OPERATOR` and `TYPE_SEPARATOR` ones.

### Pipeline

Each program has an action for failing before it opens its file, for opening (and so
emptying) it, for writing it, completely or up to a full disk, and for dying while it
writes. `cc.sh` goes on after each of them. In the front end accepting the text is a step
of its own (`FrontAccepts`), which comes before opening: a text that is rejected, and a
process that dies, leaves by `FrontFails`. Which texts are accepted is the constant
`Accepted`, as it is `SyntaxAnalyzer` that has the reasons. `before` is a history variable
for the properties, the tree that was there when the run began.

### SymbolTable, Vector, GrowableSequence

`SymbolTable` is pure: `AddSymbol` is the table after `add_symbol_to_env`, `AddedId`
its answer. `SyntaxAnalyzer` EXTENDS it.

`Vector` is `vector.cpp` as built for debugging (`_vector_validate` before every
operation). An allocation may fail at any time; then `vector_realloc_` frees the old
buffer and leaves its address in the vector (`buffer = "freed"`), and since the
callers in the compiler ignore the error, the next access is to freed memory. `GrowableSequence`
is what remains: a sequence with a phase (raw, open, broken, dead); `Vector`
implements it under `phase <- Phase, elems <- SubSeq(cells, 1, size)`. The abstract
specification says that an open vector is exactly the sequence of what was pushed,
that growing and shrinking move no element, and that a failed allocation *breaks*
the vector: it never goes on with elements missing.

## 3. The runs

| run | module | shows |
|---|---|---|
| `syntax_fuzz` | MCSyntaxFuzz | ten properties on every short text (340 765 states) |
| `syntax_grammar` | MCSyntaxGrammar | every program of a family of trees is parsed back into its tree, and nothing else stays allocated |
| `tree_file` | MCTreeFile | seven properties of what is read against what was written, for every place where the file may end |
| `vector` | Vector | type and refinement of `GrowableSequence` |
| `lexer` | MCLexer | words of a text come back as tokens, and the loop ends (66 171 states) |
| `compiler` | MCCompiler | programs do what they mean, and gaps in them stop the translator; seven properties (295 189 states) |
| `middle_end` | MCMiddleEnd | optimizing keeps the meaning, ends and frees; six properties (224 063 states) |
| `pipeline` | Pipeline | stale files, rejected texts and failing programs (4 758 states) |
| `docs_functions` | MCSyntaxDocs | README.md:13 against a last declaration that breaks off: dropped, and the rest accepted |
| `docs_error` | MCSyntaxDocs | "syntax error, exit..." (frontend_main.cpp:73): the process dies before, in a second `free()` of one node |
| `docs_arguments` | MCCompilerDocs | README.md:32, any expression is an argument: a call before the last one overwrites others |
| `docs_reduced` | MCMiddleEndDocs | README.md:53, the tree is written: the middle end leaves out the outermost node |

(`README.md` with a line is `src/README.md`.) The `docs_` runs end in a counterexample, which is
what they are for. They are the
disagreements that change most what a user gets. The models show
others in the same way, and no run is spent on them:

| document | code |
|---|---|
| README.md:18, a block may be empty | `get_block_` fails without a first statement |
| README.md:25, `x;` is a declaration | `get_assignment_` has consumed the name: the statement has no node |
| README.md:35-36, `\|` and `&` are operators | `emit_operator_` writes nothing for them: the machine runs out of operands, or takes another's |
| README.md:38, `>=` and `<=` are operators | `LexTable` has `>` before `>=` (lexer.cpp:105): two tokens |
| README.md:42, a root of any expression | `evaluate_operator` asserts the missing right operand of a root of a constant |
| README.md:48, identifiers such as `inx`, `x_1` | `in` and `x`; a lexical error |
| README.md:61 and 67, lists nest to the right | the loops over commas make them nest to the left |
| README.md:69, a return node names its function | `get_return_` gives it one child |
| "unknown symbol" (syntax_analyzer.cpp:919) | never given: `get_identifier_` has just entered the name |
| `x ^ 1 = x` (optimize.cpp:218-221) | never applied: `eliminate_neutral_` returns at the root |
| example/quadratic.txt:9, `-1*c/b` | a difference without a left operand: `utils_assert(node)` at translator.cpp:52 fails |

**Properties of the analyzer.**

* `TypeOK`: besides the types, a function that uses a local node without testing it
  has one, and the current environment is the last one.
* `IdentifiersResolve`: the ids in every identifier node name that identifier, at
  any time, also in nodes of attempts that failed.
* `SymbolsUnique`, `IdsAreStable`: tables hold no symbol twice and only grow.
* `SingleOwner`: a node never has two pointers to it among the nodes, the locals
  and the value being returned. `ast::dtor` frees a node once for each.
* `NoDanglingPointer`: a node that was freed while backing out is nobody's.
* `RejectFreesAll`: on a rejected text every node is freed.
* `ScopesMatchFunctions`: what the translator takes for granted: declarations have
  environments of their own and every identifier in a function is a variable of that
  function's environment.
* `CallsHaveTargets`: the functions called in an accepted tree are in that tree,
  although the analyzer looks them up in environments in which failed declarations
  have left their names.
* `Termination`: the descent ends on every text.
* `ParsesBack`: precedence, associativity, the owner of an else-part and the order of
  lists, statements and functions are the grammar's.
* `AcceptLeavesNothing`: attempts that failed leave no node behind on an accepted text.

**Properties of the tree file.**

* `FileTypeOK`: pointers lead into the reader's heap, its calls stand at nodes, the
  position stays in the buffer, and the current environment is the last one.
* `ReadHangsTogether`: at any time, whatever is in the file, the nodes that have been read
  are one tree below the root, each in one place. `ast::dtor` and `free_subtree` free
  through the pointers and rely on it.
* `ReadIsWritten`: a tree that is read without an error is the tree that was written.
  A file that is not whole is rejected or ends the process, except when only closing
  parentheses are missing; then the tree is whole all the same. The run has such files.
* `ScopesSurvive`: the reader makes up new ids; each puts its variable into the same
  function as the front end's and names it there. The numbers of the functions agree although a
  declaration that breaks off leaves an environment in the front end and nothing in
  the file. The numbers of the symbols need not agree: `x;` enters a name and leaves no
  node, so the property compares what the ids name.
* `ParametersLead`: after reading the k-th parameter has the symbol id k, which is where
  the translator has arguments handed over.
* `RejectFreesRead`: a file that is no tree leaves no node allocated.
* `ReadingEnds`: reading comes to an end on every file.

**Properties of the lexer.**

* `LexerTypeOK`: the position never passes the terminator, and exactly one token, the
  last, is a terminator.
* `LexesBack`: what was written as separate words comes back as these words, with
  spaces, line feeds or comments between them or nothing where they cannot be mistaken.
* `LexingEnds`: every turn of the loop moves on, on texts with foreign characters as well.

**Properties of the compiler.**

* `ComputesMeaning`: when the machine halts it has printed, stored and answered what
  the text means for what was typed. Everything takes part: the order of operands, the
  cells of parameters and variables, calls inside expressions, recursion, loops and
  conditions in one another, and the ids rebuilt while reading. It is stated of the programs
  without gaps, `|` and `&` in which no function has more variables than the first one
  (`Overshoot = 0`).
* `CallerUndisturbed`: a return leaves `SP`, the operand stack and the cells of the waiting
  functions as the call found them (compared with what the call recorded). Every frame has the
  size of the first function's, and a function of more variables reaches below its own:
  of its caller's cells the topmost `Overshoot` are lost, and however deep the recursion
  these never get more. In all other programs no cell is lost. Programs with `|` or `&` (not
  `OperatorsEmitted`) are left out: what comes after one of these takes a value of another
  expression.
* `LabelsResolve`: every numbered label is placed once and every jump has its label, although
  comparisons, loops and conditions share one counter.
* `CallsResolve`: every function that is called is in the assembly, once, under the name the
  call has.
* `GapsStop`: the front end accepts trees in which an operand, a name or a body is missing.
  The translator stops (an assertion, or a `NULL` pointer in `emit_in_`) if and only if
  there is a node that is not below a `|` or a `&` and has no child where it needs one.
  Below these two operators nobody looks, and such a tree is translated; in every other
  place, conditions, comparisons, arguments and bodies, half an assembly file is not
  taken for a whole one, and what comes before the gap makes no difference.
* `Halts`: what is run ends, and only a division by zero, or a `|` or `&`, ends it in a fault.
* `MachineTypeOK`: program counter, stack pointer and return addresses stay inside.

**Properties of the middle end.**

* `MeaningKept`: the optimized tree prints, stores and answers the same, in `int`s of
  five bits, so that constants overflow.
* `NothingLeftToDo`: no operator without a name below it and nothing behind a return is left.
* `ParentsLead`: the parent of an operator is the node it hangs on, at
  any time, also in what was taken out of the tree, although the literals put in have no
  parent.
* `TreeOrMarked`: every node but the root hangs in one place or is marked for deletion once,
  never both, and nothing hangs below itself. `FreedOnce` says the same of what `ast::dtor`
  does in the end; this is what keeps it true on the way.
* `FreedOnce`: `ast::dtor` frees every node once, whatever was marked, in whatever order.
* `OptimizeEnds`: the loop ends and the tree is written, or the process ends, and then for a
  reason that stands in the text: a `;` without a statement, or a constant without a value
  (`Refused` finds these in the analyzer's tree). Only `fwrite_infix`, after that, may fail
  as well. So no operand, statement or parent is missing because of an earlier fold or cut.

**Properties of the pipeline.**

* `StaleIsReported`: if whole assembly of another text is left at the end, the front end or
  the back end of this run has not reported success. The middle end does not matter,
  because the back end reads the front end's file.
* `RejectedKeepsTree`: the tree that a run begins with stays to its end, unless the front end
  accepts the text of this run, which then takes its place; and none of the three files
  is ever of a rejected text, through several runs and whatever fails in them.

**Bounds.** `syntax_fuzz` takes every sequence of up to 3 or 4 pieces
(`MaxExpression`, `MaxKeyword`, `MaxBlock`, `MaxDeclaration`) from four
vocabularies, chosen so that one vocabulary has everything that can interact:
expressions with calls, parentheses and assignments; the statements with a keyword;
nested blocks; declarations whose functions call one another. The pieces are put
into a function that is open or closed at the end, so that most texts are
ill-formed in some way and every error path is taken. The longest texts have four
functions. A defect that needs two interacting attempts shows within three pieces:
the counterexamples of the `docs_` runs need one or two.
`syntax_grammar` has every pair of operators one inside the other on both sides,
statements to depth two with every kind of simple statement in every compound one,
and one to three functions with up to three parameters. `tree_file` has 36 programs: functions with none to three parameters (one of them
twice), bodies in which nodes have no child, a left one, a right one or both, a name
that is entered and left out of the tree, a call, and a second function that is
whole, broken off or missing. Every file is tried whole, after every chunk and within
every chunk that can be cut. `lexer` has every sequence of up to three of 14 words (operators of which one begins
another, keywords, identifiers that contain one, numbers that overflow four bits), in
three ways of separating them. `compiler` has 197 programs of the grammar: every operator beside calls of a
function of two parameters, nested in both operands and as the last argument; every pair of
seven bodies, one in a loop and one after it; recursive functions; one that calls
another that calls a third; three arguments. They keep to what the back end can do, as
`MCCompiler` says at its head; the `docs_` runs and section 6 say what happens
otherwise. Three of them have a function that is larger than the first one, with and without
recursion. Another 330 texts are for `GapsStop`: eight
expressions with a gap (or one without), each by itself, beside and below other operators,
`|` and `&` among them, in each of six statements; by themselves in a function that is called; and
statements without a name or a body. Three numbers are typed, and memory has 32 cells. `middle_end` has 506 programs: every pair of
operators on constants, one below the other, constants in every place of an expression,
every pair of five blocks with returns in the middle, and constants without a value.
`pipeline` has three texts, one of them rejected, and three runs: one leaves the files, one
fails or is rejected, one repeats.
`vector` has two elements, a
first capacity of 1 and at most 5 elements, so that the buffer grows three times
and shrinks, and every allocation may fail.

**Fairness.** `WF_vars(Next)`: a sequential program that can go on goes on.
`Termination` needs nothing else. In `tree_file` it is `WF_allVars(TreeNext)`, for the
programs one after the other; `ReadingEnds` needs nothing else. The same holds in `compiler`, `middle_end` and `lexer`:
one sequential program after the other, that goes on while it can. `Vector` and
`Pipeline` state no liveness. `lexer` and `pipeline` do not check deadlock: the lexer stops at the
end of the text, and the pipeline after the last run.

Every property of a passing run has a mutant in `PROJECT.json`: a small mistake in
the code it is about (a node that is not listed, a freed node that is returned, an
id one too large, an operand read at the wrong level, ...), under which the run
fails. The mutated definitions stand before the ones they replace, with a comment.

**What was left out of the runs** because no document says otherwise, but a reader
of the code should know: a text that ends inside parentheses runs past the
terminator and fails an assertion; `(a,` dereferences a `NULL` pointer, and `in ;` does where there
is no variable yet (where there is one it is accepted, and the translator dies of it); `1 +` is accepted without its
right operand; the call statement `f(x);` loses the name `f` and becomes `(x);`,
because the attempt to read an assignment has consumed it;
errors may be logged for texts that are accepted. A statement `x;` ends the middle end.
An empty comment swallows the next line, and a file without a line feed at its end loses
its last character. A function that does not end in a return
runs into the next one; frames grow into the cells of `ramset` without a test. An
assembly file that is cut off by a full disk is reported as a success.

## 4. The proofs

All theorems hold for every value of the constants. The only assumptions are
`InputsAssumption` (names, numbers and the other tokens are different, and a text
ends in the terminator, which the lexer always appends), `VectorAssumption` (a first
capacity and a bound that are numbers) and `ValueAssumption` (a
literal is spelt like no other token).

* `SyntaxTypeOK` (`SyntaxAnalyzerProofs`): `Spec => []TypeOK`. `TypeOK` alone is not
  inductive. Three facts about the order of the calls are needed, and
  `IInv == TypeOK /\ Early /\ Nested /\ NoCallYet` is what is proved:
  * `Early`: while there is no environment only the first few functions are active,
    and an identifier is then a function's name. Without it `get_parameter_list_`
    and the others would read an environment that does not exist.
  * `Nested`: `get_func_call_` waits only for `get_identifier_`, and neither stands
    at its entry below another activation.
  * `NoCallYet`: when `get_func_call_` is entered the current token is not `(`,
    because `get_primary_` has taken it. So `get_func_call_`, which uses the
    identifier without testing it once it sees a `(`, always has one: the identifier
    was read, or the token would not have changed.

  There are lemmas for the ways a step may end (a call, a return, a new node, a
  failure) and then one for each function; `Inductive` puts them together.
* `SyntaxSymbolsUnique`, `SyntaxIdsAreStable` (`SyntaxTablesProofs`): every step either
  leaves the tables alone, adds an environment with one symbol, or calls
  `add_symbol_to_env` on the current one (`TablesStep`). What `add_symbol_to_env` does
  is `AddSymbolProperties`, about `FindSymbol` for all tables.
* `SyntaxRejectFreesAll`: `Listed` says that while the analyzer runs `to_delete` lists
  every node there is, and that a rejected text has had them all freed; every step
  that makes a node lists it (`ListStep`), whatever else it does.
* `SyntaxSingleOwner`, `SyntaxNoDanglingPointer` (`SyntaxNodesProofs`). One is not
  inductive without the other, and both need `IInv`. The argument is about handing over:
  a step may take only the pointers of `Pool` (the running function's locals, what its
  callee returned, the node it makes) and put each of them in at most one of the seven
  places that a step may change (`Fair`, `Hands`); a node may be freed only if it is not
  handed over, or when the text is rejected (`Passing`). `FairlyHanded` shows that this
  keeps both properties (`Owned`), and one lemma for each function that it does nothing
  else.
* `SyntaxIdentifiersResolve`: `NamesInv` adds to the property that a function's frame
  holds the environment made for its name (`Headed`), which is where `get_func_decl_`
  takes the id from after the parameters and the body; that before the first environment
  the only identifier is the name of the first function (`Unborn`); and that the descent
  does not begin with an identifier (`Bottom`). That ids stay what they are when tables
  grow is `SyntaxIdsAreStable` again. `Orderly` is what most steps do: they pass nodes
  on and bind no identifier (`Tame`).
  The last section has `Trees`, which the tree file needs: no node is below itself. It
  says that the locals and the returned value are roots, each of a tree of its own, in
  which a rank falls from a node to its children (`Ranked`, `Rooted`). What a step hands
  over are roots (`PoolRoots`), and as it hands each over once (`Fair`), a node that takes
  one becomes the root of both. The second local of `get_block_`, the last statement of a
  chain, is no root, and `Rooted` says in whose tree it is.
* `SyntaxScopesMatchFunctions`, `SyntaxCallsHaveTargets` (`SyntaxNodesProofs`) rest on
  `DividedInv`. Its part `Regions` gives every node the environment that was current when it
  was made (`Within`: what is below the node is of the same one), or none: the names of
  functions and the `{` nodes that join them are the spine of the tree, and a name there is
  the only owner of its environment (`Owning`).
  * What a step may do to the nodes is known from `Hands` and `Passing`; what it does to the
    activations is `InnerMove`, for the functions that parse the inside of a declaration, or
    one of the ten steps of `OuterMove`. `StackLinked` has who calls whom: the functions
    outside of declarations are three deep (`OuterDepth`), so a declaration is never
    parsed inside another, and the current environment is that of the running declaration.
  * `Full`: while a declaration can still begin (`Ready`) every environment has its
    function, and otherwise all but the last one have. This is why the name a
    failed declaration leaves in the tables does no harm: only calls of that same
    declaration could meet it, and they are not in the tree. What was known when a call was
    read has a function on the spine (`Known`).
  * `Gathered`: the spine hangs from what `get_program_` holds, and from the root in the end.
    It says so of every set closed under the children of the spine (`Covers`), because
    reachability itself would need an induction in every step; `BelowClosed` then shows that
    `Below(root)` is such a set.
* `TreeRejectFreesRead`, `TreeReadHangsTogether` (`TreeFileProofs`), whatever is in the
  file. `ReaderInv` says of the activations of `fread_node_infix_` that those below the
  outermost one have nodes of their own, whose children are `NULL` until they are read
  (`CallsInv`): so a new node takes an empty place and takes nothing away. While the
  file is read `to_delete` lists exactly the nodes, in their order (`ListInv`).
* `TreeFileTypeOK`: whatever is left of the file. The position is compared with the length
  of the file, so the text of a tree must be a sequence: `TextExists` shows that
  `fwrite_node_` comes to an end below every node, because of `Trees`. `FileFrom` says that
  what is whole in the file stands at its own place of the text, which is all that
  cutting leaves. `PositionInv` needs the last character read to be one that is read
  without an error.
* `TreeReadIsWritten`: a tree that is read without an error is the tree that was written,
  also from a file that is not whole. `CopyInv` gives for the reader's node `i` the writer's
  node `m[i]` it is a copy of and the number `b[i]` of chunks before it in the text. Each
  activation goes on where the part of the text that its node has left begins (`Due`), and
  the end of a node is where the activation below it goes on (`Progress`). `Matched` says
  that children are copies of children, or are still to be read. As a last parenthesis may be
  seen again and again, `k` counts what has been read and not the position: the two differ
  only when the file has come to its end, and then all that can follow is parentheses
  (`Seeks`). What is left in the end is that copies node by node give equal trees; the
  function `Tree` is recursive, and that it exists for both heaps is `TreeUnfolds`.
* `MiddleEndTreeOrMarked`, `MiddleEndParentsLead` (`MiddleEndProofs`), for every tree
  that can be read. `optimize` starts from the tree of `ReaderInv`. A cut moves a node
  from its place to the marks (`OneMoreMark`). Folding puts the literal where the
  operator's parent pointer says, and that is right only as long as the operator still
  hangs there. `FoldingInv` gives the reason: no node is twice in what `const_fold_` has
  yet to visit, and each is the root or a child of a node that is left later. So a node
  that is folded has not been taken out, and its parent has not been folded before it.
  `ParentsLead` is needed for `TreeOrMarked`, and the other way round: with two places
  for one node one of them would keep the operator.
* `MiddleEndFreedOnce`: `ast::dtor` frees what is below the root and what is below each
  mark. Each of these lists has no node twice (`SubtreesNoRepeats`), and no two of them share
  one (`SubtreesApart`): from a shared node the way up is the same until one of the two roots,
  which does not hang (`SubtreesHang`). And every node is in one of them, as the way up from
  it ends in the root or in a mark (`ShapeCovered`).
* `MiddleEndNothingLeftToDo`: in `WorkInv` there is a set `C` of nodes that have been seen
  to: it holds the root and the children of its members, but for those that are still to be
  visited (`Reaches`). In `eliminate_dead_code_` none of them has anything behind a return; in
  `const_fold_` none of them can be folded but those that are left later. When nothing is
  left to visit the set is closed and so holds the whole tree (`TreeAmong`). Folding makes
  no return and no statement, so what the first pass reached is still true after the second
  (`Trimmed`). And a round that folded something is followed by another one, which is what
  `treeChanged` is for: only of a round without a change does `EnteredInv` speak.
* `CompilerLabelsResolve` (`CompilerProofs`), for every text and every tree.
  `LabelsResolve` says nothing of code that is half emitted, where the places of some
  labels are still to be written. `LabelsInv` therefore looks at what is written
  together with what is pending (`Output == asm \o pending`): to write leaves it as it
  is, and coming to a node replaces an item by a text that has the places of its own
  labels, all with the number `label_id` had (`TextKeepsResolved`). Then the numbers
  used are those below `label_id`, and no two texts share one.
* `VectorBufferOK`, `VectorRefinesSequence` (`VectorProofs`): `BufferOK` is inductive
  there; each operation is a step of `GrowableSequence` or a stutter.
* `PipelineStaleIsReported`, `PipelineRejectedKeepsTree` (`PipelineProofs`), for any number
  of runs and texts, of which any are accepted. `StaleIsReported` looks only at the end of a
  run; `PInv` says what holds on the way: a program has reported nothing before it opens its
  file (`InTheirOrder`), the tree is of this text once it is opened (`TreeIsOfText`), and the
  assembly is of the tree, whichever text that is of (`AssemblyIsOfTree`). Without the
  first, opening the tree anew could make a reported assembly stale. For `RejectedKeepsTree`
  the front end is at the stage of opening or writing only with an accepted text, and until
  it opens the tree is the one from before; the other programs open their files only for a
  whole one, and that is of an accepted text (`OpensAccepted`).

**Induction and recursion.** The library's theorems about induction take a predicate, which
the provers cannot instantiate. `MinProperties` (every set of numbers has a least element)
follows from the library's finite sets without that, and from it come `UpInduction`,
`DownInduction` and `RankInduction`, which speak of a set in the place of the predicate, and
`Recursion`: a function that is defined by what it gives for lower ranks exists. So
recursive functions on the heap, such as `NodeText`, `Tree` and `Subtree`, can be reasoned
about.

**Only model-checked**, and why:

* `Termination`, `ReadingEnds`, `LexingEnds`, `Halts`, `OptimizeEnds`: liveness under fairness.
* `ParsesBack`, `ComputesMeaning`, `MeaningKept`: the reference they are compared with
  (`Grammar`, `Semantics`) is made of recursive operators, which the provers do not take.
* `AcceptLeavesNothing`, `LexesBack`, `CallsResolve`, `MachineTypeOK`,
  `CallerUndisturbed`: they hold of the texts of their runs and not of all texts. Attempts
  that fail leave nodes behind on other texts, words run into one another, and the
  programs of the run keep to what the back end can do (section 3, what was left out).
* `GapsStop`: it would have to be traced that the translator comes to every node of the tree
  that is not below a `|` or a `&`, in each shape of `Text`.
* `ScopesSurvive`, `ParametersLead`: what the reader takes for the environments of the tree
  would have to be traced through the file as `CopyInv` does for the nodes, and the second needs
  the order in which `get_parameter_list_` enters the parameters.
* `LexerTypeOK`: to the prover a word of the text is one string, without characters.

## 5. The plan

In this order, the most important behaviour first. Modules to be proved about use no
recursive operators.

1. **Done**: `SymbolTable`, `SyntaxAnalyzer` with its runs, `Vector`; the theorems above.
2. **Done**: `AstFile`, composed with `SyntaxAnalyzer` in `TreeFile`; `Translator` with
   `StackMachine` and `Semantics` in `Compiler`; `Optimizer` with `Evaluate` in
   `MiddleEnd`; `Lexer`; `Pipeline`.
3. **Done**: `PipelineProofs`; `CompilerProofs` (the labels); `TreeFileProofs`;
   `MiddleEndProofs`.
4. **Done**: `SyntaxNodesProofs` (owners, freed nodes, the ids of identifiers, no node below
   itself, functions and their environments, calls and what they name); the file that is
   written and read back; what `optimize` leaves and `ast::dtor` frees.
5. Left: the environments that are read back (`ScopesSurvive`, `ParametersLead`); the lexer's `LexerTypeOK`, for which the prover would
   need words as sequences of characters.

## 6. Not modelled

* The functions for neutral elements below `eliminate_neutral_`, `copy_subtree` and `copy`:
  no program reaches them (section 2).
* The characters of the tree file and of the assembly: texts of tokens, spaces and numbers
  in them. `AstFile` has what each `fprintf` writes.
* The machine's word: its numbers are unbounded, as the repository does not say more.
* Options of the programs and their building; `match_internal` (`token.cpp`), which has no caller.
* `vector_copy_from`, which nothing calls.
* Dumps, logs and messages (`ast::dump`, `vector_dump`, `lexer::dump`,
  `compiler_error.cpp`, `symbol_type_str` and the like): output for a person.
* The library `cutils` (assertions, logging, reading files), which is a submodule and
  not part of the source: `utils_assert` ends the process, as in the debug build.
* `src/example`: an input.

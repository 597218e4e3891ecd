# wgtcc in TLA+

wgtcc is a C11 compiler for x86-64 Linux in some nine thousand lines of C++: a
driver forks a process for each input file, which preprocesses it, parses it
into a syntax tree and writes assembly, and hands the result to gcc. Except
for the driver the program is sequential, and what is hard about it is state:
stacks and cursors that a long sequence of legal inputs has to leave
consistent, saved and restored by hand in many places, and read by code far
away. These modules model that state, check it with TLC on small instances and
prove what matters most with TLAPS for instances of every size.

Line numbers below are those of `src/src/`.

## The system

| Part | State | Operations | Hard about it | Correct if | Status |
|---|---|---|---|---|---|
| Conditional directives (`cpp.cc` 349-635, `cpp.h` 51-140) | `ppCondStack_`, `macroMap_` | one per directive | one entry per directive, not per group; only the top is looked at | text is processed exactly where C11 says, and skipped text is inert | modelled, proved |
| Macro expansion (`cpp.cc` 40-346) | the token lists being rewritten, hide sets | turns of `Expand` and `Subst`, which call each other | recursion cut off by hide sets; arguments expanded once, in the right context | agrees with the algorithm, and ends | modelled |
| Token sequences (`token.h` 263-412, `token.cc` 179-254) | a linked list, `begin_`, `end_`, `exceed_end` | `Next`, `Peek`, `PutBack`, `InsertFront`, `GetLine`, ... | looking moves the cursor, line ends are tokens | a stream with marks on tokens that begin a line | most of it, proved |
| Statements (`parser.cc` 20-45, 2107-2553; `code_gen.cc` 897-953) | `breakDest_`, `continueDest_`, `caseLabels_`, `defaultLabel_`, `curLabels_`, `unresolvedJumps_` | one per kind of statement | saved and restored by macros around bodies, gotos patched at the end | jumps bind to the innermost statement, the code does what C11 says | modelled; proved but for the equality of control flow |
| Driver (`main.cc`) | the process table, the files | fork, wait, compile, link, remove | concurrent children, failures, shared file names | links what was compiled, ends, tells of failure | modelled |
| Include search (`cpp.cc` 638-688, 754-814) | `searchPaths_`, descriptors left open | `SearchFile`, `IncludeFile` | the current directory is pushed and popped by hand | a directive denotes the first file of its name along a list that no search changes, reading ends | modelled, proved |
| Line numbers (`cpp.cc` 435-464, 869-898) | `curLine_`, `lineLine_`, each token's line | `#line`, `UpdateFirstTokenLine` | adjusted each time a token is looked at | adjusted once | planned |
| Scanner (`scanner.cc`) | a position | `Scan`, `Tokenize` | splices | | the list it makes only |
| Scopes, linkage, tags (`scope.cc`; `parser.cc` 58-125, 1129-1355, 1492-1627, 1762-1829) | a tree of maps, identifiers, types shared between them, `externalSymbols_` | enter, find, insert, declare, define | `extern` in blocks, types changed by later declarations, export of tags from structs | C11 6.2.2, 6.2.3 and 6.7 | all but prototypes with names; what is emitted proved |
| Struct layout (`type.cc` 329-458, `parser.cc` 1203-1418) | offset, width, two alignments, members | add a member, a bit-field, an unnamed struct, complete | bit-fields, zero width, members moved in place | no overlap, aligned, inside, final | modelled, proved |
| Initializers (`parser.cc` 1832-2100, `code_gen.cc` 787-894) | the list of initializers by offset | designators, braces, overriding | order and elision | each bit from the last initializer for it | modelled |
| Frames and calls (`code_gen.cc` 199-251, 964-1320) | `offset_` | push, pop, spill, call, allocate, `va_start`, `va_arg` | nesting, struct results, alignment | balanced, nothing in use overwritten, arguments arrive, aligned at calls | modelled, proved |
| Types of expressions (`ast.cc` 126-583, `type.cc` 54-188) | none that outlives a call | promotion, usual conversions, casts added to operands | unsigned and narrow types | the types of C11 6.3 and 6.5 | integers, `double` and pointers |
| Code for expressions (`code_gen.cc` 278-776) | `%rax`, `%xmm0` and what is above a value in them | one per operator | widening, which bits an instruction looks at | the value of C11 6.5, whatever is above it | the same |
| Constant evaluation (`evaluator.cc`) | none | one per operator, in a long, a double or an address | widths are those of the compiler, not of the types | the value of C11 6.6 | the same |
| Memory pools, encodings, diagnostics | none, or none that matters | | | | not modelled |

How they interact: `main` forks, and from there on a process is a pipeline. The
preprocessor owns a token list that scanner and macro expansion insert into at
the cursor while it is being read; conditions of `#if` run a parser and an
evaluator on an expansion of their own. The parser reads the finished list and
builds statements as it goes, with the labels that the generator then places
in one walk of the tree. `Error()` ends the process at every point; processes
meet in the file system only.

## The modules

| Module | What it is |
|---|---|
| `CondGroups` | abstract: a nest of conditional groups and a macro table |
| `CondStack` | the stack of directives as the program keeps it, and its mapping to the nest |
| `CondStackProofs` | its invariant, three theorems about it, and the refinement |
| `MCCondStack` | instance |
| `TokenStream` | abstract: a stream of marked tokens with a cursor |
| `TokenSeq` | the linked list with line ends in it, the operations as their callers use them, and the mapping to the stream |
| `TokenSeqProofs` | its invariant, a theorem about it, and the refinement |
| `MCTokenSeq` | files and macros of a few tokens |
| `MacroExpand` | `Expand` and `Subst`, a turn of their loops at a time |
| `MacroAlgorithm` | the same as a recursive function: Prosser's algorithm |
| `MCMacroExpand` | tables of macros and texts |
| `StmtLowering` | the parser's statements and the code they become |
| `StmtFlow` | the control flow of the statements by C11, that of the code, and their equality |
| `StmtLoweringProofs` | the invariants of the jump destinations and of the labels, and a theorem about each |
| `MCStmtLowering` | functions of a few statements |
| `Alignment` | `Type::MakeAlign` |
| `StructLayout` | struct and union types in definition, their members and bit-fields |
| `StructLayoutProofs` | its two invariants, and six theorems |
| `MCStructLayout` | two types, chars and ints |
| `CallFrame` | the frame of a function: parameters, objects, spilled operands, calls in progress |
| `CallFrameProofs` | its three invariants, and five theorems about them |
| `MCCallFrame` | twelve functions and calls of eleven of them |
| `Linkage` | abstract: what names denote, their linkage and definitions by C11 |
| `Declarations` | `Scope` and its maps, and what the parser and the generator do with declarations |
| `LinkageRefinement` | the mapping to `Linkage`, and the differences to C11 that are known |
| `DeclarationsProofs` | the invariants of declarations, two theorems about them, and the refinement of `Linkage` |
| `TagSpaces` | abstract: tags in blocks, types and their definitions by C11 |
| `Tags` | what the parser does with struct, union and enum specifiers, on `Declarations` |
| `MCTags` | units of two names or of two tags, the mapping of the tags, and the differences that are known |
| `ObjectTypes` | the types of objects, their widths and members |
| `Initializers` | the parser's walk of an initializer, and the object made from it |
| `InitStandard` | what C11 6.7.9 says the object is |
| `MCInitializers` | thirteen objects and some 8700 initializers, and the differences to C11 that are known |
| `ArithTypes` | the arithmetic types of a machine, and their widths |
| `ExprStandard` | types, conversions and values of expressions by C11 |
| `Expressions` | the types the parser gives them, the generator's code, the evaluators |
| `MCExpressions` | leaves at the limits of the types, and the differences to C11 that are known |
| `SearchPath` | abstract: a nest of files and a list of directories that never changes |
| `Paths` | paths, the directory of one, the file it leads to |
| `IncludeSearch` | the list as it is pushed and popped, and the descriptors |
| `IncludeRefinement` | its mapping to the abstract list, and the differences that are known |
| `IncludeSearchProofs` | its invariant, three theorems, and the refinement |
| `MCIncludeSearch` | two lists of directories |
| `Driver` | the driver, its children, gcc and the files |
| `DriverProofs` | its inductive invariant and two theorems |
| `MCDriver` | three inputs |

### Conditional directives

`ppCondStack` is `ppCondStack_`, top last, an entry with the fields of
`CondDirective`; `macroMap` has for each name whether it is absent, the
program's or predefined (`preDef_`). Each directive is an action that does all
of its handler: the test of `NeedExpand()`, the pops of `ParseElif` and
`ParseElse` down to the entry that decides, the push. What the rest of a line
evaluates to, and whether it is well formed, are inputs. The end of the input
does not look at the stack, because the code does not.

The abstract `CondGroups` keeps one record per group. The mapping reads it off
the entries above a group's head.

### Token sequences

`tokList`, `begin` and `exceedEnd` are the fields of those names. `Next` moves
the cursor past the line ends that follow, as `Peek` in it does. `ExpandMacro`
is how `Expand` uses the list (`Next`, then `InsertFront` of tokens with the
name's file), `ParseInclude` is `GetLine` and then a scan into the place
behind the line, `ResetTo` the trial parses of the parser. That nothing was taken
past the end when `ResetTo` or `InsertBack` is called is a precondition here, which
neither of them tests: the parser's productions put back what they have no use
for before they call another (`parser.cc` 438, 505, 580, 595, 1079, 1430), by
reading; without it `OvershootAtEnd` would be false. `lineStart` is no
field: it bounds how far back callers put back, which is never over a
directive. In the abstract stream line ends are gone: a token has a mark that
says that it begins a line, and an expansion's tokens never have it.

### Macro expansion

A frame is a call of `Expand` or `Subst` in progress, with its input list from
the cursor on and its output. `Expand`'s turns follow the `if` chain of lines
48-97 in its order, `Subst`'s that of lines 123-156. A token is a spelling and
a hide set; hide sets are values here because copying a token copies its set
(`token.h` 208). Spellings are sequences, so that joining two tokens is
concatenation and a string literal holds what it was made from.
`ParseActualParam` is a few operators on positions. White space (`ws_`) and
lines are left out.

Three ends are the program's own: `rejected` for `Error()`, `undefined` where
`Glue` looks at the last token of an empty output, and `directive` where the
first token of an argument is a `#`, which is taken for a directive. The last
two are not followed further. `context` is where an expansion is asked for: text
that is kept or skipped, the condition of an `#if`, or that of an `#elif`, which is
evaluated while the entry of the branches that failed is on top. There `Subst`
expands an argument as skipped text, and it vanishes: this is the gap
`ArgumentsLost` of `MacroAlgorithm`, and everything else is compared in that
context too. Replacements with `##` at an end, which C11
forbids and `ParseDef` does not check, are excluded by an assumption.

### Statements

`source` is the syntax tree as it grows: a node is a statement with its kind
and parent. `open` is the parser's call stack, where each entry has the
destinations that the `ENTER_` macro saved; `dests` is the parser's members
`breakDest_`, `continueDest_`, `caseLabels_` and `defaultLabel_`. `code` is the
list of instructions the generator walks out of the tree: expressions,
conditional and plain jumps, labels, and the tests of a switch. Labels are
named by the statement and the role they have in it. The tree and the code are
built in one pass, because the generator visits statements in the order in
which the parser made them; a switch's tests and patched gotos come where the
parser puts them. A case outside of a switch, which dereferences a null
pointer, ends the run as `crashed`.

`StmtFlow` defines, from the tree alone, which expression or condition is next
after each and for each outcome, as C11 6.8 says, and the same from the code.

### Struct layout

A type is a record with the fields of `StructType`; `open` is the recursion of
`ParseStructUnionDecl`, innermost last. Members are `Object`s with an identity
(type and number), because `MergeAnony` puts the same `Object` in two maps and
then changes its offset: `memberMap` is a set of identities, and what a name
denotes is looked up in `object`. A declaration is one action, from the
specifiers to the last assignment of `AddMember`, `AddBitField` or `MergeAnony`;
bit-fields have one for each way `ParseBitField` places them. Their widths are
told modulo 256, as `bitFieldWidth_` is an unsigned char; other integers are
far from their limits. The parser's errors end the compilation and are guards.

### Frames and calls

The assembly has no push: every temporary has an offset that the generator
knows when it writes the code, so the generator's walk is the state machine.
`offset` is `offset_`; `slots` are the parts of the frame that are in use, in
the order they were taken; `pending` are the visits in progress, outermost
first, each with what the C++ frame of its call keeps (`base`, `result` for
`retStructOffset`, the arguments that are left). Any expression may be visited
between two steps of another, and for any argument. What a slot holds is told
apart only as far as the argument it is; `whole` tells of `CopyStruct`, which
copies upwards and spoils a struct that overlaps its destination from below.
`call` records the call last emitted, with `%rsp` and the slots behind it, and
caller and callee are compared when the function calls itself: `prologue` has
the offsets that `VisitFuncDef` gave to the parameters. `va_list` is a record
of the three numbers that `GenBuiltin` keeps.

A scope's objects are all placed when it is entered and never given back
(`VisitCompoundStmt`). `GenAssignOp` spills the address only if it is in
`%r10`: that is `Spill` or nothing. A call in the expression for the function
would load the argument registers anew, and is left out.

### Declarations

`scopes` is the chain from the file's scope to `curScope_`; `idents` and `types`
are heaps, and what is a pointer in the code is an index. Types have to be
objects: identifiers share them, and `ProcessDeclarator` completes a type and
replaces its parameters through whichever identifier it finds. A declaration
is one action, `ProcessDeclarator` and then `ParseInitDeclarator` or the start
of `ParseFuncDef`; `Processed` is the state that the one leaves to the other.
`Refused` and `InitRefused` are the calls of `Error`, which ends the unit.
`unit` is what goes to the generator, in the order it is made. `Emits` and
`Assembly` read objects as they are when the unit is complete, because the
generator runs then: a later declaration takes `extern` from an object or adds
an initializer to its `Declaration`. Functions take one `int`, which only a
definition names; arrays have two elements or an unknown number; initializers
have two elements.

The abstract `Linkage` has for each scope that is open what every name denotes,
and for a name with linkage its linkage, composite type and definition. It says
which declarations break a constraint of C11, and a step that reads one of
them has to be an error. What C11 leaves undefined is not read.

The instance has eight gaps, differences between the parser and C11 that are
known. Each is an operator of `LinkageRefinement`, or of `Declarations` where a
theorem about that module names it, that tells which declarations run
into it, and these are skipped; with any one of them left in but `BodyShared`, TLC
finds a violation. That one takes five declarations of three names: it was
checked once with these, and a violation was found without the gap and none with it.

| Gap | The difference |
|---|---|
| `HiddenCompared` | `extern` in a block is compared with a name of no linkage that it hides |
| `TypedefIgnored` | a typedef of a name that is something else of the same type is accepted |
| `LatePrototype` | a declaration after the definition replaces the parameters the body uses |
| `LengthLost` | an array completed by a later declaration has the length -1 |
| `TentativeDropped` | an array tentatively defined without a length is never defined |
| `LengthNotInherited` | `extern int a[]` in a block does not take over the length of `a` |
| `BodyShared` | a function is taken for defined if one is whose type it shares, by a typedef |
| `TypedefBody` | a typedef of a function may have a body |

### Tags

`structs` has the types that specifiers make, each with its map of members,
which is a scope whose parents are those that were open when the type was
first written (`around`); `open` has those whose bodies are being read. While
one is, the last map is `curScope_`: members, enumerators and tags are all
inserted there, and looked up from there outwards. A tag is a name of its own,
as `TagName` makes it one. A specifier is an action up to its brace or its end;
a declaration of a member is one, and `ParseStructUnionDecl` is the end of a
body, which moves its tags one level out or fails. A type is complete from
there on.

In `TagSpaces` the body of a struct is no scope, as in C11 6.2.1: a tag belongs
to the block as soon as it is written. So the mapping adds the maps of open bodies
to that of the block. A tag that C11 refuses at once may be refused by the
parser at the end of the body around it; in between the unit is `Doomed`, and the
mapping takes it for refused. The gaps are operators of `MCTags`.

| Gap | The difference |
|---|---|
| `NestedRefused` | a tag defined in a body may not hide one of another block, nor complete one |
| `ForwardIgnored` | `struct t;` in a block means the `t` outside |
| `KindIgnored` | a tag may be used with `struct`, `union` or `enum`, whatever it is |
| `EnumAgain`, `EnumAhead` | an enum may be defined twice, and used before it is defined |
| `EnumeratorLost` | enumerators of a body are unknown after it |
| `MemberHides` | a member hides the name of a type in its body |

### Initializers

`tokens` is the initializer and `pos` the cursor; `calls` has the loops of
`ParseArrayInitializer` and `ParseStructInitializer` in progress, innermost last,
each with its parameters and its locals. A turn of a loop is two actions: up to
the call for an element, and from its return. It reads commas, braces and
designators, or puts them back for the loop around it. `inits` is the set that
`Declaration` orders by offset, where `AddInit` replaces what has the same
offset and first bit. The generator then walks that set, an initializer an
action, as `GenStaticDecl` or `VisitDeclaration` does, with the zeros
between initializers; what is in the object before is `Garbage`.
An expression is one token with its type and a number of its own, so
that `image` tells of each bit whose value it has.

`InitStandard` is C11 6.7.9: from the initializer as a tree it makes the list of
provisions, which say what subobject gets which value, in the order of the
source, then whether they are legal, and what each scalar holds at last. The
instance has four gaps, operators of `MCInitializers`.

| Gap | The difference |
|---|---|
| `ClosesEarly` | after the last element of an array, or any member of a union, nothing may follow |
| `PartOverridden` | a part that is overridden by the whole, or the other way round, leaves both |
| `Strayed` | a literal that no array of char takes is converted |
| `UnitBits` | the first bit-field of a unit is combined with what was on the stack |

Two kinds of input are left out of the instance: a member's name in a list for
an array of arrays without a length, where the loops put the comma back and
read it again without end (`parser.cc` 1972), and empty lists. `turns` counts the
turns of all loops, and is there for `TurnsBounded` only: that they end is then
an invariant.

### Expressions

`visitor` is who visits the expression, the generator or one of the three
evaluators. `stack` has the operands in the order they are visited, of which
the lower of two is the one spilled; an operand has the type the program gives
it, the type and value C11 gives it, and the set of what the visitor may hold
for it, which for the generator is the whole register: an operator may leave
anything above the bits of its type, and a later one may look there. An empty
set is an assertion that fails, or a trap. Each kind of operator is an action;
the parser adds the casts, and so `GenCastOp` is in every arithmetic operator.
`ExprStandard` gives type and value by C11 and tells which expressions are
undefined, of which none are built on. `GenIncDec` is an action for objects and
one for bit-fields (`GenIncDecField`), where the code takes the unit for the
object; after an assignment or an increment a field is also read again, and
after an assignment so are its neighbours, for which the rest of the unit
stands. A bit-field that fills its unit is excused from nothing but what its
type is. An operator after `,` or `=` promotes their result by the width of
the field.

An expression is built on from operands that are right, so a violation
is shown at the operator that makes it and what is wrong is not followed
further; an operand that one evaluator leaves to another is taken to be right
there, because the other one is checked for itself. Bytes have two bits here and an int four, so that
the leaves are at all limits of all types; pointers have one element type.

What is known to be different is stated where it is excused, in the gaps of
`MCExpressions`. Of the generator:

| Gap | The difference |
|---|---|
| `UnsignedWidened` | an unsigned int is widened with its sign |
| `WholeTested` | an int is made a `_Bool` by a test of the whole register |
| `WholeConverted`, `LongConverted` | and is made a double from the whole register; an unsigned long as a long |
| `IndexNotExtended` | an index is the whole register |
| `BinaryGap` | an integer subtracted from a pointer is not scaled |
| `BoolIncremented` | `++` makes a `_Bool` 2 |
| `SignedBool` | a `_Bool` bit-field is read with its sign |
| `UnitYielded` | an assignment to a bit-field yields its unit |
| `UnitIncremented` | `++` and `--` of a bit-field are those of its unit |
| `NotPromoted` | a narrow bit-field is not promoted to int |
| `NoType` | an unsigned double |

Of the evaluators: nothing is reduced to the width of its type (`NotReduced`,
`NotWrapped`, `BigLong`), fractions are lost inside an expression that is
wanted as a long and kept inside one that is wanted as a double
(`FractionLost`, `FoldUnaryGap`, `FoldBinaryGap`, `TooLarge`), and addresses are
cut to an int and know of addition only (`AddressCut`, `FoldBinaryGap`).

### Include search

`searchPaths` is `searchPaths_`, whose directories are sequences of their
components; `reading` is the nest of files, `descriptors` the number that are
open. `ParseInclude` is an include directive with all that `SearchFile` does:
the push at the front or at the back, the walk with `openat`, the test for the
current file, the pop by the value `next` then has. A descriptor is opened for
every file that exists on the way and none is ever closed, which the comment
in `cpp.cc` 791 calls intentional: the run of out descriptors ends a recursion.
`at` in an entry of `reading` is how far in the list the file was found; the
program does not keep it, and the mapping needs it for what `#include_next`
means.

`SearchPath` is a nest of files and a list of directories that is chosen at the
start. Since the next step of it must be for the directive that was given,
`IncludeRefinement` adds the history `asked` that records it, and `astray`, which
becomes true at the first directive that is one of the five gaps; from there on
nothing is compared.

| Gap | The difference |
|---|---|
| `AbsoluteName` | a name that begins with a slash is opened, but read behind a directory |
| `SelfSkipped` | a file is never its own include |
| `NextInBrackets` | `#include_next <...>` pushes at the front and pops at the back |
| `NextOtherName` | `#include_next` of another name finds nothing, or meets the current file behind its place and misses the files between |
| `NextStartsOver` | `#include_next` goes on from the start of the list |

### Driver

Every process is a program counter; `files` says of each file whether it
exists and whose bytes are in it, so that two writers can mix and a reader may
find an earlier run's file. Options are chosen at the start. `fopen` does not
fail. gcc's own reading of the files is not a step: the run of gcc is.

## What is checked

| Run | Instance | Shows |
|---|---|---|
| `cond_stack` | five entries, a predefined macro and another | the top entry decides for all (`TopDecides`); at most three entries and one branch let through per group (`SegmentShape`); the inductive invariant; skipped text is inert; the stack implements the groups (`ImplementsGroups`) |
| `token_seq` | seven tokens, sources and headers with blank lines first, between and last | counts at the end balance (`OvershootAtEnd`); the list implements the stream (`ImplementsStream`) |
| `macro_expand` | eight tables, some 3000 texts, in text, in the conditions of `#if` and `#elif`, skipped | the loops compute what the algorithm does (`ExpandsAsAlgorithm`), leave nothing to expand (`OutputSettled`) and end (`Terminates`) |
| `stmt_lowering` | six statements of every kind, a label, an empty case range; seven where all are of the kinds that make a switch | the bindings (`DestsInnermost`), their inductive invariant, the control flow, also of nested switches with cases and defaults on both sides of the inner one (`FlowKept`), labels placed once (`TargetsPlaced`) |
| `do_while_continue` | five statements | violated: continue in a do |
| `call_frame` | two registers of the one kind and one of the other, twelve functions, two scopes, two visits in each other | nothing in use is overwritten (`FrameDisjoint`), pops take what was pushed for them (`PopsTakeTheirOwn`), a statement leaves the frame as it was (`Balanced`), caller, callee and `va_arg` agree (`ArgsArrive`), plain calls are aligned (`PlainCallAligned`), the inductive invariant |
| `driver` | three inputs, names that may collide | the link is of finished and current files, nothing writes on after a success, the driver ends |
| `struct_layout` | two types of one and three members, each of which may be nested, chars, ints, alignment 2, widths 0, 3 and 29 | no two members of a struct share a bit (`MembersDisjoint`), names lead inside (`NamesInside`), members are aligned and the size fits an array (`PlainAligned`, `SizeMultipleOfAlign`), a complete type is final (`CompleteIsFinal`) |
| `declarations` | four declarations of two names, three scopes | a declaration is refused exactly if C11 forbids it, and else its name denotes what C11 says, with that linkage and definition (`ImplementsLinkage`); a symbol is emitted once (`EmittedOnce`); a function is entered with the parameters its body was parsed with (`BodyHasParams`); units of four specifiers and members of two tags, with a typedef and a function around them: a specifier is refused exactly if C11 forbids it, and else means the type C11 says, of the members and completeness it says (`ImplementsTags`) |
| `initializers` | thirteen objects, automatic and static, lists of up to four items, in any order and nesting | refused is what breaks a constraint (`AcceptsAsStandard`); each bit of the object is what the last initializer for it gives, and nothing is written behind it (`ObjectAsStandard`); the loops end (`TurnsBounded`) |
| `expressions` | four nodes, 30 leaves of nine types, six bit-fields | type and value after every operator (`CodeAsStandard`), in every evaluator (`FoldingAsStandard`) |
| `include_search` | two lists of directories, one of them below another, a header in any of them and in others, in three spellings, eight descriptors | an include denotes the first file along a list that does not change (`ImplementsSearchPath`); every step leaves less to read (`ReadingEnds`) |

The bounds. Five entries hold two groups with the most entries a group can
have, or five nested ones; `CondStackProofs` does away with the bound. Seven
tokens hold a line, an include and an expansion with line ends on each side.
The texts for macros cover every call with up to three tokens as arguments and
every way for it to be followed by another; the longest expansion takes 115
turns. Six statements are enough for a loop in a switch in a loop with a jump
inside and a statement after it, and for gotos forward and backward past them;
the bindings are proved for any number. Three children are enough for one to
fail, one to be waited for and one to be left behind. Three and 29 bits fill an
int and leave a rest in a char, so that four members reach every way to place
a bit-field after every kind of member; the proof has no such bounds. With two
registers of a kind a call of three arguments has one in memory; the functions
are chosen so that a parameter of every class follows one of every other, the
structs so that they need padding, fit and are aligned to more than a push is;
one call in another meets every alignment that the outer can leave (three in
each other take five minutes and were checked once). Four declarations are one
outside, one in a body, one in a block within it and one that follows, or a
name declared, defined, declared again and used in a body; one name is declared
in every way and the other is the typedef or the parameter that hides it. Four
specifiers define a struct in another and use it after both, or declare one,
define it and use it in a block (five, of fewer kinds, were checked once). Seven
statements are enough for a switch in a switch with a label before, in and
behind the inner one. Three items in a list go forward, back and on from there,
and the fourth ends what the third began; the objects have each kind of part
in each other kind. An int of four bits has both signs, a limit, and values
that a char and a long tell apart, and with eight bits to a long every
product and shift can still be looked at; four nodes are two operators over
operands that may each be a call or a cast, which is the least that leaves
garbage above a value and then looks there. Eight descriptors are enough for
every file to be read once and one to be read again and again until they run
out; `IncludeSearchProofs` does away with that bound.

Fairness. The driver's processes are each weakly fair, which is what an
operating system's scheduler gives; `wait()` gets no more than that. In
`MacroExpand` the one process is, since a loop that can turn does. No other
liveness is claimed: that the loops of initializers and the reading of files
end is said by a measure instead, which is cheaper to check and can be proved.
In the runs of the stack, the tokens and the statements
the input may stop, so deadlock is not checked there; it is in the driver, in
the initializers and in the search of files, which may only stop at their end.

Properties of frames have gaps where the code is known to be wrong; each is an
operator with a name and a comment (`SavedResult`, `Shallow`, `VaStartRight`,
`PlainCall`), and the instance has functions that violate the property without
it. That a plain call may be misaligned too, while a struct result of less than
eight bytes is above the frame, was seen first when the proof of
`PlainCallAligned` failed there; the function that shows it was then added. The
proof of `ArgsArrive` failed at the same place: under a `Shallow` visit three structs
of less than eight bytes are all pushed to one place, which no function of
the run did until `packed` was given three of them. `NextOtherName` was too narrow
by the case of a file that is met behind its place, until the proof of
`ImplementsSearchPath` got there; the second list of directories has it. The gaps
in the tables above are of the same kind: without any one of them TLC finds a
violation.

Every property has a mutant of the code beside the definition it replaces
("A bug to be caught"), which TLC finds to violate it.

## What is proved

For the stack of directives (`CondStackProofs`), for any set of macros and any
height: `IInv` is inductive. `TopDecides` alone is not, because after a pop
the entry below decides. What has to be known is, for each entry, how it
relates to the one below it: an `#elif` or `#else` sits on the entry that
decides its group and shares its `enabled_` flag, and an enabled entry has only
selected branches around its group (`WellNested`). From it follow
`TopDecidesAlways`, `SegmentShapeAlways`, and, as an action property,
`SkippedTextInert`. The proofs split by directive; pops are prefixes of the
stack, for which all parts of the invariant are inherited, and pushes add one
entry.

The same stack implements the nest of groups (`GroupsImplemented`). The mapping
is a recursive function of the stack's height, whose values are found by
counting up (`Counting`, which is drawn from the well-foundedness of the
numbers). What is needed of it is said of the stack's top in the entry of the
nest that it makes (`Described`): the group is live if the entry is selected,
its last branch is seen if the entry is an `#else`'s, and a branch has been
taken if the entry that decides is not waiting for one. With it `NeedExpand` is
what C11 asks of all groups (`LiveIsNeedExpand`); a new entry continues the last
group (`ContinueGroups`), for `#elif` and `#else` pop at most one entry to find
the one that decides; and `#endif` takes all of a group's entries
(`CloseGroups`), by induction on how many there are.

For token sequences (`TokenSeqProofs`), for lists, expansions and files of any
length: `SeqInv` is inductive, gives `OvershootAtEndAlways`, and with it the list
implements the stream (`StreamImplemented`). The invariant says where the cursor
may be and how far back it may go, and that tokens with no line end between
them are of one file as far as that; this makes the rest of a directive's
line what a stream takes away, its tokens without a mark. Files have numbers,
and an included one has the next. A list is seen as its tokens with a mark each and
the line ends gone, a flattened sequence of sequences. Four laws of such views
do the work: that of a list is that of its parts (`ViewSplit`), line ends have
none (`ViewBlank`), it does not depend on where the list begins (`ViewShift`), and an
expansion's tokens have no marks whatever comes before them (`ViewFront`). Each
operation then moves a boundary between two parts.

For statements (`StmtLoweringProofs`), for functions of any size, any labels
and case ranges: `IInv` is inductive and gives `DestsInnermostAlways`. Here the
destinations in use say nothing about what an `EXIT_` macro will restore, so
the invariant says of each open statement that what it has saved is right for
the statements outside of it (`WellSaved`). Entering a body pushes the one
description on the other, leaving it takes it back (the lemmas `PushRight` and
`PopRight`), and a statement that is neither loop nor switch changes nothing.

`PlacedInv` says the same of labels and gives `TargetsPlacedAlways`. A label that
is in use is placed, or it is owed: each open statement owes those it has yet to
place (`OwedBy`, `LaterBy`), none of which is in the code. What the code, the
destinations, the saved ones and the cases refer to is placed or owed (`Sure`), but for the
gotos in `unresolvedJumps`. At the end nothing is open and `ExitFunc` has
patched each goto with a label of the function, or the function was refused.

For layouts (`StructLayoutProofs`), for any types, widths, alignments and number
of members: `IInv` is inductive and gives `TypeCorrect` and
`MembersDisjointAlways`. The code looks at the last member and at `offset_` only,
so the invariant says that no member ends behind either of them (`Laid`); a
new member that follows one of the two is after all others (`Placed`,
`LaidAppend`). Each way of placing a member is shown to be of that kind, with
the arithmetic in lemmas about one member (`MemberPlaced`, `BitFieldPlaced`,
`CountedEnd`). Moving members disturbs only types that are part of another
(`MovedMerged`), for which a second part of the invariant says where the names
in a map come from (`MapOK`). Types that were merged, and structs with a width
that wrapped, are outside of the claim.

A second invariant is about names, `NamesInv`, from which follow
`PlainAlignedAlways`, `SizeMultipleAlways` and `NamesInsideAlways`. Alignments are
a chain, of two one divides the other (`AlignmentsAssumption`; `ParseAlignas`
accepts powers of 2 only), so that the largest is a multiple of all, and a
member that was aligned stays so when the type it is in moves by a multiple of
that type's. Names lead inside because what a type names ends before the next
member of it, moved members too, and no name is reached through two types that
are not themselves part of another (`Apart`). `CompleteIsFinalAlways` looks at
one step: only a merge moves members, and it moves those its own map names.
`SizeMultipleOfAlign` is about types without members of unnamed ones, and unions
without bit-fields: the others are a finding.

For frames (`CallFrameProofs`), for any signatures, calls, scopes and depth of
nesting: `IInv` is inductive and gives `FrameDisjointAlways`,
`PopsTakeTheirOwnAlways` and `BalancedAlways`. What a pop finds says nothing of
the visits around it, which go on with the slots below; so the invariant says
of every visit in progress what holds between where it began and where the
next one in it did (`VisitRight`, with `DepthAt` and `OffsetAt`). The last visit
is the only one that a step changes, and a visit is concerned with the slots
up to its end only (`VisitKept`), so that all others keep theirs (`TopVisits`,
`EnterVisits`, `ReturnVisits`). Of a call the invariant says that the arguments
pushed for registers are the last of them, without gaps and in the order of
the pops (`ArgsRight`); that the next argument keeps this is `ArgPushed`, a
count of the arguments that are less. That nothing overlaps follows from the
slots' being taken downwards (`Downwards`); `offset_` goes up only at pops and at
the reset, over slots that are no longer in use. A visit that is `Shallow`
breaks this, and for as long as it lasts the invariant claims nothing of the
slots taken in it; it says again what it said when the visit has returned.

`AlignedInv` gives `PlainCallAlignedAlways`: in every visit of a plain call,
as many pushes as there are arguments on the stack are what `offset_`
is from a multiple of 16, and no push for a register leaves the frame. The
register that a hidden result pointer takes is what breaks this, and a visit
above the frame, where `Push` goes down by 8 from a place that is not what it
was aligned to; both are outside of `PlainCallAligned`.

`ArrivedInv` gives `ArgsArriveAlways`, for which both sides have to be counted. The
caller pushes from the last argument on and never learns where it will end; the
callee and `va_arg` count from the first. So the invariant is about places
that are a function of the argument list alone (`Places`, the sum of what the
arguments before take in memory, each aligned): what has been pushed lies at its
place from where the frame was aligned to (`ArgPlaced`, `ArgsPlaced`), because
`offset_` has been moved down by exactly what is left to push, and once all are
pushed the first of them is at `%rsp` (`LoadedRight`). On the other side
`VisitFuncDef` has given each parameter so far its place in that list, or the one
in the save area that its number among its kind gives (`PrologueRight`); and a
`va_list` that has gone over the first `k` arguments points at those of the next
(`AreLists`). The two lists agree as far as the parameters go (`ArgsAgree`). Each of
these recursive functions is known by its equations only, and what is said of
all its values is said by counting (`Counting`). `CallAssumption` is what
`FuncCall::TypeChecking` (`ast.cc` 615-632) has seen to before: a parameter has an
argument of its type, and only variadic functions have more. The gaps are those
of the run, `SavedResult`, `VaStartRight` and `Shallow`.

For declarations (`DeclarationsProofs`), for any names, declarators, scopes and number of
declarations: `IInv` is inductive and gives `EmittedOnceAlways`. Two entries of
the unit have different identifiers, since an object's `Declaration` is made once
(`decl`) and a function is defined while its type is not complete. What is to be
known beyond that is which identifiers have the same symbol. Those with linkage
have the name for it; so the invariant says that the one in the file's scope
is the only one of its name with linkage that is of use to the generator
(`HarmlessAt`): in a block, `extern` stays on an object for good, because
an object there is merged only with a declaration that is `extern` too. Those without
linkage have a number. `ProcessDeclarator` is shown once, for its three ways to
end, to keep all this (`ProcessedOK`), and what is in the unit is kept by
whatever makes identifiers, types and the file's scope grow (`GrowKeeps`).
`BodyHasParamsUnlessLate` is about the parameters: the types of functions that
are defined keep theirs, for a definition finds a type that is not complete, and
a declaration that replaces them is a `LatePrototype`, the one gap that has to be
left out; the hypothesis is that no step reads one. Both theorems are of the
specification of `Declarations`, with every input there is, where the run skips
all eight gaps. The proof attempt showed two arms of the model's `Processed` to
overlap, and the one for typedefs to forget the parameter it had read.

Without the gaps the declarations implement `Linkage` (`LinkageImplemented`, and in
the form that the run checks `ImplementsLinkageAlways`), for names, declarators,
scopes and depths of any number. `ToldInv` is what the mapping needs
beside `IInv`: types are of the three shapes, and an array's length is -1 exactly
while it is open; a type that may still be completed belongs to one identifier
(`Unshared`), since an array of unknown length is copied from a typedef; names lead to
identifiers of that name; identifiers of one name with linkage agree on
it and have compatible types (`Agreed`), so that there is one linkage and one composite
type to speak of; an object with linkage has its `Declaration` if and only if its
type is complete. The proof has two halves. The first one is that the calls of
`Error` are the constraints of C11: `LinkageView` and `RefusedView` have the search
of the code, of the scope, then outwards, then in `externalSymbols_`,
give what C11 6.2.2 asks of the visible declaration alone, and `ObjectLegal`,
`TypedefLegal`, `DefinitionLegal` and `EnumeratorLegal` compare all tests for a form of
declaration each. The second is what an accepted one leaves: all forms come to an
`Outcome`, in which one identifier is new or changed and at most one
array gets its length, and from that alone follow the environment
(`EnvOutcome`), what is told of names with linkage (`LinkedOutcome`) and
`ToldInv` (`ToldOutcome`). Two gaps are findings of this proof. Whether a function has
a body is `complete_` of its type, and nothing says that only its own definition
sets it (`BodyShared`); and nothing says that a definition is no typedef
(`TypedefBody`), of which `Linkage` had left out the constraint too.

For the search of files (`IncludeSearchProofs`), for any disk, list of
directories and number of descriptors: `TypeCorrect`, `ReadingEndsAlways` and
`SearchPathsKept`. What is left to read is twice the descriptors that are left
and the files in the nest; a directive that finds a file has opened it, so
that the descriptors lose at least one where the nest gains one
(`SearchCounts`). The file found is the least of a set of places, which exists
because places are numbers (`MinInSet`). The list of search paths is
changed and restored in one step: what is pushed at an end is taken from that
end, which fails for `#include_next <...>` only, and the theorem leaves this
out.

The search implements `SearchPath` (`SearchPathImplemented`). The list that a
search makes, with its own directory pushed at one end, is the abstract list
from a place on: place `k` of the one is directory `k + o` of the other, where `o`
is 0 for `#include` and what `#include_next` passes over (`PlacesAreDirs`). A
search opens the files of the name there are (`OpenedAreThere`), takes up again behind
the current one, and reads the least that is left; two sets of places of which
one is the other moved by `o` have the same first one (`FirstOnesAgree`). A
directory is opened before the file in it, and exists where the file does:
its path continues to that of the file (`PlainOfName`, `DirIsThere`), which is a law
of `Plain`, a recursive function of the path's length, found by counting up.
The invariant adds that no path is empty and that every file in the nest has a place
(`Known`). The names of headers have to end in a name, as those of files do.

For the driver (`DriverProofs`), for any number of inputs of any names: `IInv`
is inductive and gives `LinksWhatWasCompiledAlways` and
`QuietAfterSuccessAlways`. The parent counts the children it has waited for and
never looks which they were, so the invariant says that `waited` is the number
of those that were (`Counted`); the last of them makes it all inputs
(`Reaping`, by cardinalities). It leaves at the first status that is not 0,
which is why all who were waited for before have ended well (`Statuses`). A
child empties its file when it opens it and is the only one to write there, if
the names do not collide; so the file holds that child's code alone once it has
ended well, whatever an earlier run left (`Compiled`). That the driver ends is
liveness, and only model-checked.

The assumptions are those named in the modules: predefined names are names,
bounds are numbers, calls are what the type checker lets through, names of
headers end in a name, case ranges are pairs of integers, types have a width and
an alignment, and of two alignments one divides the other, there is a register
and an input, a keyword is no name, and the name after `-o` is no
assembly file's.

Only model-checked: the refinement of `TagSpaces`, and the equality of control flow; the result of macro expansion, which is
compared with a `RECURSIVE` operator, and that none is left to do
(`OutputSettled`); initializers and expressions, which are compared with C11
written as recursive functions of their inputs; liveness, which is out of the
prover's reach. What a recursive function computes can be
proved where counting on numbers is enough, as it was for the stack of
directives, token sequences, paths and the places of arguments; what a tree decides would need an
induction over trees.

## What the checks found

Where code and documentation disagree (details in `PROJECT.json`):

- `continue` in a `do` skips the condition (`parser.cc` 2339).
- The differences in the tables of gaps above, each of which is a finding with
  its line.
- Arguments vanish in the condition of an `#elif` (`cpp.cc` 152; `ArgumentsLost`),
  `++` of a bit-field is that of its unit (`code_gen.cc` 712; `UnitIncremented`).
- Not shown by a run: a call with a struct result leaves `%rsp` 8 bytes off, or above the
  frame (`code_gen.cc` 1151), the loops of initializers that do not end (`parser.cc`
  1972), a zero width after more than one unit wraps, and members
  overlap (`parser.cc` 1399), the driver removes the program it has linked with `-o`
  (`main.cc` 252), `PutBack` fails its assertion on an empty list (`token.h`
  334), `va_start` takes every function for one with a struct result
  (`code_gen.cc` 1015), a variadic function that has one overwrites its
  pointer (`code_gen.cc` 1251), arrays are aligned to at most 8 instead of at
  least (`code_gen.cc` 987), `#define` of a predefined macro makes it removable
  (`cpp.h` 107), exit status 0 after a failed compilation or link (`main.cc`
  229), a zero width as a member (`parser.cc` 1386), members of a typedef moved
  in their own type (`type.cc` 439), sizes that are no multiple of the alignment
  (`type.cc` 456), the hide set of a call (`cpp.cc` 88), `##` after
  operands that are empty (`cpp.cc` 171), `#` first in an argument
  (`token.cc` 193).

## The plan

Done, in this order: conditional directives, the driver, token sequences,
statements, macro expansion, struct layout, frames and calls, declarations,
linkage and tags, initializers, expressions and evaluation, include search; and
the proofs for all of these but macro expansion, tags, initializers and
expressions. To
come, most important first:

1. `LineNumbers` on `TokenSeq`: a line adjusted once, whatever visits the token.
2. `Preprocessor`: `CondStack`, `TokenSeq`, `MacroExpand` and `IncludeSearch`
   composed, one token list through all of them.
3. `Expressions` with struct operands, subscripts and members, and addresses of
   these as constants.
4. Proofs: that the code's control flow is that of the statements (`FlowKept`);
   that tags are those of `TagSpaces` (`ImplementsTags`).

## Not modelled

`float`, `long double` and complex types, which have the code of `double` with
other instructions; `long long`, which is `long`; inline assembly output,
which is wording. Encodings and messages are functions without state, of which
a model would repeat the tables; the memory pool is a free list of which hardly
anything is freed. Of the scanner only what it does to the token list is
modelled: the spelling of a token is character work on one position.

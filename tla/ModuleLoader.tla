---------------------------- MODULE ModuleLoader ----------------------------
(***************************************************************************)
(* Loading of a Nuua program and of the modules it uses: Parser::parse,    *)
(* Parser::top_level_declaration and Parser::use_declaration               *)
(* (Parser/src/parser.cpp), with the Logger's entity stack they maintain.  *)
(*                                                                         *)
(* The parser parses a module as soon as it meets the `use' that names it, *)
(* by calling itself, so the C++ call stack holds one activation of parse  *)
(* per module being loaded.  Two static tables outlive the activations:    *)
(* file_stack, compared by pointer in PREVENT_CYCLIC, and parsed_files,    *)
(* looked up by path.                                                      *)
(*                                                                         *)
(* A module's text is abstracted to the sequence of its top level          *)
(* declarations.  A pointer to a path string (a shared_ptr made by         *)
(* std::make_shared) is the number of its allocation.                      *)
(***************************************************************************)
EXTENDS Naturals, Sequences, FiniteSets

CONSTANTS
  Path,        \* absolute paths, as format_path returns them
  Root,        \* the path of the file given on the command line
  Sources,     \* the file systems considered: each maps the files that exist
               \* to the sequence of their top level declarations
  MaxDepth     \* activations of Parser::parse the C++ call stack can hold

DeclKinds == {"use", "other", "reexport", "badtoken", "bad"}

(***************************************************************************)
(* kind "use": `use ... "path"', or `export use ... "path"' if exported;   *)
(* "other": a well-formed class or function, exported or not; "reexport":  *)
(* `export export ...'; "bad": a declaration with a syntax error;          *)
(* "badtoken": one the lexer refuses.                                      *)
(***************************************************************************)
Decl == [kind : DeclKinds, path : Path, exported : BOOLEAN]

ASSUME LoaderAssumption ==
  /\ Root \in Path
  /\ MaxDepth \in Nat \ {0}
  /\ \A s \in Sources : \E F \in SUBSET Path : s \in [F -> Seq(Decl)]

VARIABLES
  source,        \* the file system
  frames,        \* activations of Parser::parse, innermost last
  file_stack,    \* static std::vector<const std::string *>
  parsed_files,  \* static map from a path to the pointer of its AST's name
  nptr,          \* path strings allocated so far
  entities,      \* Logger::entities
  status         \* "parsing", or how the loading ended

vars == <<source, frames, file_stack, parsed_files, nptr, entities, status>>

NoFile == [absent |-> TRUE]

Top == frames[Len(frames)]
Decls(p) == source[p]
\* Mutant: the loop over the declarations leaves out the last one.
AtDeclButLast == Top.next + 1 \in DOMAIN Decls(Top.path)

AtDecl == Top.next \in DOMAIN Decls(Top.path)
Current == Decls(Top.path)[Top.next]

Scannable(p) == \A i \in DOMAIN Decls(p) : Decls(p)[i].kind # "badtoken"

Trace(p) == [file |-> p, error |-> FALSE]
Error(p) == [file |-> p, error |-> TRUE]
Entity == [file : Path, error : BOOLEAN] \cup [file : {NoFile}, error : {TRUE}]

(***************************************************************************)
(* Entities the declaration d of module p keeps open while it is parsed:   *)
(* top_level_declaration pushes one, and `export' makes it call itself.    *)
(***************************************************************************)
Opened(d, p) == IF d.exported THEN <<Trace(p), Trace(p)>> ELSE <<Trace(p)>>

Activations == [path : Path, ptr : Nat, next : Nat \ {0}, code : Nat]

\* Mutants: an activation one declaration early, and one of the main file.
ActivationFromZero(p, ptr) == [path |-> p, ptr |-> ptr, next |-> 0, code |-> 0]
ActivationOfRoot(p, ptr) == [path |-> Root, ptr |-> ptr, next |-> 1, code |-> 0]

Activation(p, ptr) == [path |-> p, ptr |-> ptr, next |-> 1, code |-> 0]

Init ==
  /\ source \in Sources
  /\ IF Root \in DOMAIN source
       THEN /\ frames = << Activation(Root, 1) >>
            /\ file_stack = <<1>>
            /\ nptr = 1
            /\ entities = <<>>
            /\ status = "parsing"
       ELSE /\ frames = <<>>
            /\ file_stack = <<>>
            /\ nptr = 0
            /\ entities = << Error(NoFile) >>
            /\ status = "missing"
  /\ parsed_files = [p \in {} |-> 0]

Parsing == status = "parsing"

\* exit(logger->crash()), reached with the entities es added to the stack.
Crash(why, es) ==
  /\ status' = why
  /\ entities' = entities \o es
  /\ UNCHANGED <<source, frames, file_stack, parsed_files, nptr>>

\* Mutant: the declaration is not consumed.
AppendedUnmoved(f) == [f EXCEPT !.code = 1]

\* The innermost activation has appended a declaration to its code.
Appended(f) == [path |-> f.path, ptr |-> f.ptr,
                next |-> f.next + 1, code |-> f.code + 1]

\* Mutants: only the modules under way are searched; the result of the search
\* is compared with the beginning of the table instead of its end.
InOpenModules(x, s) == \E k \in DOMAIN frames : frames[k].ptr = x
InSequenceNotFirst(x, s) == s[1] # x

InSequence(x, s) == \E i \in DOMAIN s : s[i] = x

-----------------------------------------------------------------------------

\* Lexer::scan runs over the whole file before any declaration is parsed.
ScanError ==
  /\ Parsing
  /\ ~ Scannable(Top.path)
  /\ Crash("syntax", << Error(Top.path) >>)

\* A class or a function: the entities it pushes are popped again.
ParseOther ==
  /\ Parsing /\ Scannable(Top.path) /\ AtDecl
  /\ Current.kind = "other"
  /\ frames' = [frames EXCEPT ![Len(frames)] = Appended(@)]
  /\ UNCHANGED <<source, file_stack, parsed_files, nptr, entities, status>>

SyntaxError ==
  /\ Parsing /\ Scannable(Top.path) /\ AtDecl
  /\ Current.kind = "bad"
  /\ Crash("syntax", Opened(Current, Top.path) \o << Error(Top.path) >>)

\* export_declaration refuses to export an export, after parsing the inner one.
ExportOfExport ==
  /\ Parsing /\ Scannable(Top.path) /\ AtDecl
  /\ Current.kind = "reexport"
  /\ Crash("syntax", << Trace(Top.path), Error(Top.path) >>)

UseOf(p) ==
  /\ Parsing /\ Scannable(Top.path) /\ AtDecl
  /\ Current.kind = "use" /\ Current.path = p

\* format_path finds no such file.
UseMissing(p) ==
  /\ UseOf(p) /\ p \notin DOMAIN source
  /\ Crash("missing", Opened(Current, Top.path) \o << Error(NoFile) >>)

(***************************************************************************)
(* The module is not in parsed_files: its name gets a string of its own,   *)
(* whose address PREVENT_CYCLIC looks for in file_stack, and the module is *)
(* parsed by a new activation.                                             *)
(***************************************************************************)
UseNew(p) ==
  /\ UseOf(p) /\ p \in DOMAIN source /\ p \notin DOMAIN parsed_files
  /\ Len(frames) < MaxDepth
  /\ IF InSequence(nptr + 1, file_stack)
       THEN Crash("cyclic", Opened(Current, Top.path) \o << Error(Top.path) >>)
       ELSE /\ nptr' = nptr + 1
            /\ frames' = Append(frames, Activation(p, nptr + 1))
            /\ file_stack' = Append(file_stack, nptr + 1)
            /\ entities' = entities \o Opened(Current, Top.path)
            /\ UNCHANGED <<source, parsed_files, status>>

\* The same call when the C++ stack has no room for another activation.
StackOverflow(p) ==
  /\ UseOf(p) /\ p \in DOMAIN source /\ p \notin DOMAIN parsed_files
  /\ Len(frames) = MaxDepth
  /\ Crash("overflow", Opened(Current, Top.path))

(***************************************************************************)
(* The module is in parsed_files: PREVENT_CYCLIC looks for the pointer     *)
(* kept there, and the AST kept there would be used again.                 *)
(***************************************************************************)
UseParsed(p) ==
  /\ UseOf(p) /\ p \in DOMAIN source /\ p \in DOMAIN parsed_files
  /\ IF InSequence(parsed_files[p], file_stack)
       THEN Crash("cyclic", Opened(Current, Top.path) \o << Error(Top.path) >>)
       ELSE /\ frames' = [frames EXCEPT ![Len(frames)] = Appended(@)]
            /\ UNCHANGED <<source, file_stack, parsed_files, nptr, entities, status>>

EmptyFile ==
  /\ Parsing /\ Scannable(Top.path) /\ ~ AtDecl
  /\ Top.code = 0
  /\ Crash("empty", << Error(Top.path) >>)

\* Mutant: one pop_entity, however many were pushed.
PoppedOnce(es, opened) == SubSeq(es, 1, Len(es) - 1)

\* One pop_entity for each entity that was opened.
Popped(es, opened) == SubSeq(es, 1, Len(es) - Len(opened))

(***************************************************************************)
(* The end of Parser::parse: the module enters parsed_files; the caller,   *)
(* if any, ends the use_declaration that was waiting for it and pops the   *)
(* entities of that declaration.                                           *)
(***************************************************************************)
FinishModule ==
  /\ Parsing /\ Scannable(Top.path) /\ ~ AtDecl
  /\ Top.code # 0
  /\ parsed_files' = [p \in DOMAIN parsed_files \cup {Top.path} |->
                        IF p = Top.path THEN Top.ptr ELSE parsed_files[p]]
  /\ IF Len(frames) = 1
       THEN /\ status' = "done"
            /\ UNCHANGED <<frames, entities>>
       ELSE LET n == Len(frames) - 1
                d == Decls(frames[n].path)[frames[n].next]
            IN  /\ frames' = [i \in 1..n |-> IF i = n THEN Appended(frames[i])
                                                       ELSE frames[i]]
                /\ entities' = Popped(entities, Opened(d, frames[n].path))
                /\ status' = status
  /\ UNCHANGED <<source, file_stack, nptr>>

Next ==
  \/ ScanError \/ ParseOther \/ SyntaxError \/ ExportOfExport
  \/ \E p \in Path :
       UseMissing(p) \/ UseNew(p) \/ StackOverflow(p) \/ UseParsed(p)
  \/ EmptyFile \/ FinishModule

(***************************************************************************)
(* The parser is sequential code: it keeps running until it returns or     *)
(* exits, which weak fairness of its next step states.                     *)
(***************************************************************************)
Spec == Init /\ [][Next]_vars /\ WF_vars(Next)

-----------------------------------------------------------------------------

TypeOK ==
  /\ source \in Sources
  /\ frames \in Seq(Activations)
  /\ Len(frames) <= MaxDepth
  /\ \A i \in DOMAIN frames : frames[i].path \in DOMAIN source
  /\ file_stack \in Seq(Nat)
  /\ DOMAIN parsed_files \subseteq DOMAIN source
  /\ parsed_files \in [DOMAIN parsed_files -> Nat]
  /\ nptr \in Nat
  /\ entities \in Seq(Entity)
  /\ status \in {"parsing", "done", "missing", "syntax", "cyclic", "empty",
                 "overflow"}

IsUse(p, i) == Decls(p)[i].kind = "use"

(***************************************************************************)
(* A set of modules that contains whatever its members use.                *)
(***************************************************************************)
ClosedUnderUses(S) ==
  \A p \in S : \A i \in DOMAIN Decls(p) :
     IsUse(p, i) => Decls(p)[i].path \in S

(***************************************************************************)
(* A program that loads completely is a tree of modules: everything that   *)
(* is used was parsed, the main file is used by none of its modules, and   *)
(* every other module is named by one `use' only (parser.cpp:437-446).     *)
(***************************************************************************)
LoadsOnlyTrees ==
  status = "done" =>
    LET S == DOMAIN parsed_files
    IN  /\ Root \in S
        /\ ClosedUnderUses(S)
        /\ \A p, q \in S : \A i \in DOMAIN Decls(p), j \in DOMAIN Decls(q) :
             /\ IsUse(p, i) => Decls(p)[i].path # Root
             /\ /\ IsUse(p, i) /\ IsUse(q, j)
                /\ Decls(p)[i].path = Decls(q)[j].path
                => p = q /\ i = j

(***************************************************************************)
(* "Cyclic import detected" (parser.cpp:38-44) is only ever said of a      *)
(* module that is parsed already, whose uses never lead back to the module *)
(* that names it: no reported import lies on a cycle.                      *)
(***************************************************************************)
CyclicReportsAreSpurious ==
  status = "cyclic" =>
    /\ Current.path \in DOMAIN parsed_files
    /\ ClosedUnderUses(DOMAIN parsed_files)
    /\ Top.path \notin DOMAIN parsed_files

(***************************************************************************)
(* A module enters parsed_files only after every module it uses, so that   *)
(* the ASTs the analyzer later walks through Use::code are complete.       *)
(***************************************************************************)
UsesAreParsedFirst ==
  [][\A p \in DOMAIN parsed_files' \ DOMAIN parsed_files :
       \A i \in DOMAIN Decls(p) :
         IsUse(p, i) => Decls(p)[i].path \in DOMAIN parsed_files]_vars

(***************************************************************************)
(* The error stack a crash prints (logger.cpp:103-120) names the chain of  *)
(* imports, outermost first: the entities opened by the declarations under *)
(* way, module by module, with the error last.                             *)
(***************************************************************************)
Chain[n \in Nat] ==
  IF n = 0 THEN <<>>
           ELSE Chain[n - 1] \o Opened(Decls(frames[n].path)[frames[n].next], frames[n].path)
UnderWay == IF Current.kind = "reexport" THEN << Trace(Top.path) >> ELSE Opened(Current, Top.path)
TracesAreImportChains ==
  status # "done" /\ frames # <<>> =>
    LET imports == Chain[Len(frames) - 1]
        traces == {imports} \cup IF AtDecl THEN {imports \o UnderWay} ELSE {}
    IN  IF Parsing THEN entities = imports
                   ELSE \E es \in traces :
                          \/ entities = es /\ status = "overflow"
                          \/ \E e \in Entity : e.error /\ entities = Append(es, e)

(***************************************************************************)
(* Loading ends: with a program, or with an error.                         *)
(***************************************************************************)
LoadingEnds == <>(~ Parsing)

(***************************************************************************)
(* The C++ stack overflows only on a program whose imports form a cycle.   *)
(***************************************************************************)
OverflowMeansCycle ==
  status = "overflow" =>
    \E S \in SUBSET DOMAIN source :
       /\ S # {}
       /\ \A p \in S : \E i \in DOMAIN Decls(p) :
                          IsUse(p, i) /\ Decls(p)[i].path \in S

(***************************************************************************)
(* What the comment on file_stack promises (parser.cpp:34-36): "Stores the *)
(* parsing file stack, to avoid cyclic imports".  A module whose parsing   *)
(* is under way is not parsed again.                                       *)
(***************************************************************************)
NoModuleIsReentered ==
  \A i, j \in DOMAIN frames : frames[i].path = frames[j].path => i = j
=============================================================================

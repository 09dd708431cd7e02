------------------------- MODULE ModuleLoaderProofs -------------------------
(***************************************************************************)
(* Proofs about ModuleLoader: its type invariant, and the two theorems     *)
(* about sharing, that only trees of modules load and that no import the   *)
(* parser reports as cyclic is on a cycle; and that modules are parsed     *)
(* after what they use and the C++ stack overflows on cycles only.         *)
(***************************************************************************)
EXTENDS ModuleLoader, SetInduction, SequenceTheorems, FiniteSetTheorems, TLAPS

(***************************************************************************)
(* The declarations already dealt with: all of a parsed module's, and the  *)
(* ones before the current declaration of an activation.                   *)
(***************************************************************************)
Processed(p, i) ==
  \/ p \in DOMAIN parsed_files /\ i \in DOMAIN Decls(p)
  \/ \E k \in DOMAIN frames : frames[k].path = p /\ i < frames[k].next

(***************************************************************************)
(* What holds until the main file is finished.                             *)
(***************************************************************************)
Chained ==
  \A k \in DOMAIN frames :
    k + 1 \in DOMAIN frames =>
      /\ frames[k].next \in DOMAIN Decls(frames[k].path)
      /\ IsUse(frames[k].path, frames[k].next)
      /\ Decls(frames[k].path)[frames[k].next].path = frames[k + 1].path

Rooted == frames # <<>> => frames[1].path = Root

Unparsed == \A k \in DOMAIN frames : frames[k].path \notin DOMAIN parsed_files

ProcessedUsesParsed ==
  \A p \in DOMAIN source : \A i \in DOMAIN Decls(p) :
    Processed(p, i) /\ IsUse(p, i) => Decls(p)[i].path \in DOMAIN parsed_files

ProcessedUsesDistinct ==
  \A p, q \in DOMAIN source :
    \A i \in DOMAIN Decls(p), j \in DOMAIN Decls(q) :
      /\ Processed(p, i) /\ Processed(q, j)
      /\ IsUse(p, i) /\ IsUse(q, j)
      /\ Decls(p)[i].path = Decls(q)[j].path
      => p = q /\ i = j

\* Every pointer in use is on file_stack, and none there is yet to be made.
Stacked ==
  /\ \A p \in DOMAIN parsed_files : InSequence(parsed_files[p], file_stack)
  /\ \A k \in DOMAIN frames : InSequence(frames[k].ptr, file_stack)
  /\ \A n \in DOMAIN file_stack : file_stack[n] <= nptr

Running == Chained /\ Rooted /\ Unparsed /\ ProcessedUsesParsed
             /\ ProcessedUsesDistinct /\ Stacked

LoaderInv ==
  /\ TypeOK
  /\ frames = <<>> => ~ Parsing /\ status # "cyclic"
  /\ status # "done" => Running
  /\ status = "cyclic" =>
       AtDecl /\ Current.kind = "use" /\ Current.path \in DOMAIN parsed_files
  /\ LoadsOnlyTrees

-----------------------------------------------------------------------------

(***************************************************************************)
(* The text of an existing module is a sequence of declarations.           *)
(***************************************************************************)
LEMMA DeclsType ==
  ASSUME source \in Sources, NEW p \in DOMAIN source
  PROVE  Decls(p) \in Seq(Decl) /\ p \in Path
BY LoaderAssumption DEF Decls

(***************************************************************************)
(* A prefix of a sequence is a sequence over the same set, whatever the    *)
(* length asked for, as long as it is at most the sequence's.              *)
(***************************************************************************)
LEMMA PrefixType ==
  ASSUME NEW S, NEW s \in Seq(S), NEW n \in Int, n <= Len(s)
  PROVE  SubSeq(s, 1, n) \in Seq(S)
<1>1. CASE n >= 0
  BY <1>1, SubSeqProperties
<1>2. CASE n < 0
  BY <1>2
<1>. QED  BY <1>1, <1>2

\* The parser starts with the main file alone, or with its error.
LEMMA InitInv == Init => LoaderInv
<1>. SUFFICES ASSUME Init PROVE LoaderInv
  OBVIOUS
<1>. USE LoaderAssumption DEF Init
<1>1. CASE Root \in DOMAIN source
  <2>1. /\ frames = << Activation(Root, 1) >> /\ file_stack = <<1>>
        /\ nptr = 1 /\ entities = <<>> /\ status = "parsing"
        /\ DOMAIN parsed_files = {}
    BY <1>1
  <2>2. TypeOK
    BY <1>1, <2>1 DEF TypeOK, Activation, Activations
  <2>3. Chained /\ Rooted /\ Unparsed
    BY <2>1 DEF Chained, Rooted, Unparsed, Activation
  <2>4. \A p \in DOMAIN source : \A i \in DOMAIN Decls(p) : ~ Processed(p, i)
    BY <2>1, DeclsType DEF Processed, Activation
  <2>5. ProcessedUsesParsed /\ ProcessedUsesDistinct
    BY <2>4 DEF ProcessedUsesParsed, ProcessedUsesDistinct
  <2>6. Stacked
    BY <2>1 DEF Stacked, InSequence, Activation
  <2>. QED
    BY <2>1, <2>2, <2>3, <2>5, <2>6
       DEF LoaderInv, Running, LoadsOnlyTrees, Parsing
<1>2. CASE Root \notin DOMAIN source
  <2>1. /\ frames = <<>> /\ file_stack = <<>> /\ nptr = 0
        /\ entities = << Error(NoFile) >> /\ status = "missing"
        /\ DOMAIN parsed_files = {}
    BY <1>2
  <2>2. TypeOK
    BY <2>1 DEF TypeOK, Error, Entity
  <2>3. Running
    BY <2>1 DEF Running, Chained, Rooted, Unparsed, ProcessedUsesParsed,
                ProcessedUsesDistinct, Processed, Stacked
  <2>. QED
    BY <2>1, <2>2, <2>3 DEF LoaderInv, LoadsOnlyTrees, Parsing
<1>. QED  BY <1>1, <1>2
-----------------------------------------------------------------------------

(***************************************************************************)
(* A crash changes the status and adds entities: whatever does not depend  *)
(* on these two is kept.                                                   *)
(***************************************************************************)
LEMMA CrashKeeps ==
  ASSUME LoaderInv, NEW why, NEW es, Crash(why, es), Parsing,
         why \in {"missing", "syntax", "cyclic", "empty", "overflow"},
         es \in Seq(Entity),
         why = "cyclic" =>
           AtDecl /\ Current.kind = "use" /\ Current.path \in DOMAIN parsed_files
  PROVE  LoaderInv'
<1>1. TypeOK'
  BY ConcatProperties DEF LoaderInv, TypeOK, Crash
<1>2. Running' /\ frames' # <<>>
  BY DEF Crash, LoaderInv, Running, Chained, Rooted, Unparsed, Decls, IsUse,
         ProcessedUsesParsed, ProcessedUsesDistinct, Processed, Stacked,
         InSequence, Parsing
<1>3. LoadsOnlyTrees'
  BY DEF Crash, LoadsOnlyTrees
<1>4. status' = "cyclic" =>
        (AtDecl /\ Current.kind = "use" /\ Current.path \in DOMAIN parsed_files)'
  BY DEF Crash, AtDecl, Current, Top, Decls
<1>. QED  BY <1>1, <1>2, <1>3, <1>4 DEF LoaderInv

(***************************************************************************)
(* The entities of a declaration of module p, and of an error in it.       *)
(***************************************************************************)
LEMMA EntityType ==
  ASSUME NEW p \in Path, NEW d
  PROVE  /\ Opened(d, p) \in Seq(Entity)
         /\ << Error(p) >> \in Seq(Entity)
<1>1. Trace(p) \in Entity /\ Error(p) \in Entity
  BY DEF Trace, Error, Entity
<1>. QED  BY <1>1 DEF Opened

(***************************************************************************)
(* An activation that has dealt with one more declaration.                 *)
(***************************************************************************)
LEMMA AppendedType ==
  ASSUME NEW f \in Activations
  PROVE  /\ Appended(f) \in Activations
         /\ Appended(f).path = f.path
         /\ Appended(f).ptr = f.ptr
         /\ Appended(f).next = f.next + 1
BY DEF Appended, Activations

(***************************************************************************)
(* Facts about the innermost activation while the parser runs.             *)
(***************************************************************************)
LEMMA TopType ==
  ASSUME LoaderInv, Parsing
  PROVE  /\ Running
         /\ Len(frames) \in Nat \ {0}
         /\ Len(frames) \in DOMAIN frames
         /\ Top = frames[Len(frames)]
         /\ Top \in Activations
         /\ Top.path \in DOMAIN source
         /\ Top.path \notin DOMAIN parsed_files
         /\ Decls(Top.path) \in Seq(Decl)
         /\ AtDecl => Current \in Decl
         /\ Top.path \in Path
<1>1. Running /\ frames # <<>> /\ TypeOK
  BY DEF LoaderInv, Parsing
<1>2. Len(frames) \in Nat \ {0} /\ Len(frames) \in DOMAIN frames
  BY <1>1, EmptySeq, LenProperties DEF TypeOK
<1>3. /\ Top \in Activations
      /\ Top.path \in DOMAIN source
  BY <1>1, <1>2, ElementOfSeq DEF Top, TypeOK
<1>4. Top.path \notin DOMAIN parsed_files
  BY <1>1, <1>2 DEF Running, Unparsed, Top
<1>5. Decls(Top.path) \in Seq(Decl)
  BY <1>1, <1>3, DeclsType DEF TypeOK
<1>6. AtDecl => Current \in Decl
  BY <1>5 DEF AtDecl, Current
<1>7. Top.path \in Path
  BY <1>3 DEF Activations
<1>. QED
  BY <1>1, <1>2, <1>3, <1>4, <1>5, <1>6, <1>7 DEF Top

\* A class or a function only moves the innermost activation on.
LEMMA ParseOtherInv == LoaderInv /\ ParseOther => LoaderInv'
<1>. SUFFICES ASSUME LoaderInv, ParseOther PROVE LoaderInv'
  OBVIOUS
<1>. DEFINE n == Len(frames)
<1>0. /\ Parsing /\ AtDecl /\ Current.kind = "other" /\ TypeOK
      /\ frames' = [frames EXCEPT ![n] = Appended(@)]
      /\ UNCHANGED <<source, file_stack, parsed_files, nptr, entities, status>>
  BY DEF ParseOther, LoaderInv
<1>1. /\ Running /\ n \in DOMAIN frames /\ Top = frames[n] /\ n \in Nat \ {0}
      /\ Top \in Activations
      /\ Decls(Top.path) \in Seq(Decl)
  BY <1>0, TopType
<1>2. /\ DOMAIN frames' = DOMAIN frames /\ Len(frames') = n
      /\ frames' \in Seq(Activations)
      /\ \A k \in DOMAIN frames :
           /\ frames'[k].path = frames[k].path /\ frames'[k].ptr = frames[k].ptr
           /\ frames'[k].next = IF k = n THEN frames[n].next + 1
                                         ELSE frames[k].next
  <2>1. frames \in Seq(Activations) /\ frames[n] \in Activations
    BY <1>0, <1>1 DEF TypeOK
  <2>3. /\ Appended(frames[n]) \in Activations
        /\ Appended(frames[n]).path = frames[n].path
        /\ Appended(frames[n]).ptr = frames[n].ptr
        /\ Appended(frames[n]).next = frames[n].next + 1
    BY <2>1, AppendedType
  <2>4. frames' = [frames EXCEPT ![n] = Appended(frames[n])]
    BY <1>0
  <2>5. /\ frames' \in Seq(Activations) /\ Len(frames') = n
        /\ \A k \in 1..n : frames'[k] = IF k = n THEN Appended(frames[n])
                                                ELSE frames[k]
    BY <1>1, <2>1, <2>3, <2>4, ExceptSeq
  <2>6. DOMAIN frames = 1..n /\ DOMAIN frames' = 1..n
    BY <2>1, <2>5, LenProperties
  <2>. QED  BY <1>1, <2>3, <2>5, <2>6
<1>3. TypeOK'
  BY <1>0, <1>2 DEF TypeOK
<1>4. ASSUME NEW p \in DOMAIN source, NEW i \in DOMAIN Decls(p),
             Processed(p, i)', IsUse(p, i)
      PROVE  Processed(p, i)
  <2>1. CASE p \in DOMAIN parsed_files
    BY <2>1 DEF Processed
  <2>2. CASE p \notin DOMAIN parsed_files
    <3>1. PICK k \in DOMAIN frames :
            frames[k].path = p /\ i < frames'[k].next
      BY <1>0, <1>2, <1>4, <2>2 DEF Processed
    <3>2. i \in Nat
      BY DeclsType, <1>0 DEF TypeOK
    <3>3. ~ (k = n /\ i = frames[n].next)
      BY <1>0, <1>1, <1>4, <3>1 DEF Current, IsUse
    <3>4. frames[n].next \in Nat
      BY <1>1 DEF Activations
    <3>. QED
      BY <1>2, <3>1, <3>2, <3>3, <3>4 DEF Processed
  <2>. QED  BY <2>1, <2>2
<1>5. ProcessedUsesParsed' /\ ProcessedUsesDistinct'
  BY <1>0, <1>1, <1>4
     DEF Running, ProcessedUsesParsed, ProcessedUsesDistinct, Decls, IsUse
<1>6. Chained' /\ Rooted' /\ Unparsed' /\ Stacked'
  BY <1>0, <1>1, <1>2
     DEF Running, Chained, Rooted, Unparsed, Stacked, Decls, IsUse, InSequence
<1>. QED
  BY <1>0, <1>1, <1>2, <1>3, <1>5, <1>6
     DEF LoaderInv, Running, Parsing, LoadsOnlyTrees
\* A new activation lengthens the chain of uses by a module not yet parsed.
LEMMA UseNewInv == ASSUME NEW p \in Path PROVE LoaderInv /\ UseNew(p) => LoaderInv'
<1>. SUFFICES ASSUME LoaderInv, UseNew(p) PROVE LoaderInv'
  OBVIOUS
<1>. DEFINE n == Len(frames)
            new == Activation(p, nptr + 1)
<1>0. /\ Parsing /\ AtDecl /\ Current.kind = "use" /\ Current.path = p
      /\ p \in DOMAIN source /\ p \notin DOMAIN parsed_files
      /\ n < MaxDepth /\ TypeOK
  BY DEF UseNew, UseOf, LoaderInv
<1>1. /\ Running /\ n \in DOMAIN frames /\ Top = frames[n] /\ n \in Nat \ {0}
      /\ Top.path \in Path
      /\ Decls(Top.path) \in Seq(Decl)
  BY <1>0, TopType
<1>2. ~ InSequence(nptr + 1, file_stack)
  BY <1>0, <1>1 DEF Running, Stacked, InSequence, TypeOK
<1>3. /\ nptr' = nptr + 1
      /\ frames' = Append(frames, new)
      /\ file_stack' = Append(file_stack, nptr + 1)
      /\ entities' = entities \o Opened(Current, Top.path)
      /\ UNCHANGED <<source, parsed_files, status>>
  BY <1>2 DEF UseNew
<1>4. /\ frames' \in Seq(Activations) /\ DOMAIN frames = 1..n
      /\ Len(frames') = n + 1 /\ DOMAIN frames' = 1..(n + 1)
      /\ frames'[n + 1] = new
      /\ \A k \in 1..n : frames'[k] = frames[k]
      /\ new \in Activations
  BY <1>0, <1>1, <1>3, LenProperties DEF TypeOK, Activation, Activations
<1>5. /\ new.path = p /\ new.ptr = nptr + 1 /\ new.next = 1
  BY DEF Activation
<1>6. TypeOK'
  <2>1. file_stack' \in Seq(Nat) /\ nptr' \in Nat
    BY <1>0, <1>3 DEF TypeOK
  <2>2. entities' \in Seq(Entity)
    BY <1>0, <1>1, <1>3, EntityType, ConcatProperties DEF TypeOK
  <2>3. /\ Len(frames') <= MaxDepth
        /\ \A k \in DOMAIN frames' : frames'[k].path \in DOMAIN source
    <3>1. n + 1 <= MaxDepth
      BY <1>0, <1>1, LoaderAssumption
    <3>2. ASSUME NEW k \in DOMAIN frames' PROVE frames'[k].path \in DOMAIN source
      <4>1. \A j \in 1..n : frames[j].path \in DOMAIN source
        BY <1>0, <1>4 DEF TypeOK
      <4>2. CASE k = n + 1
        BY <1>0, <1>4, <1>5, <4>2
      <4>3. CASE k # n + 1
        BY <1>1, <1>4, <4>1, <4>3
      <4>. QED  BY <4>2, <4>3
    <3>. QED  BY <1>4, <3>1, <3>2
  <2>. QED  BY <1>0, <1>3, <1>4, <2>1, <2>2, <2>3 DEF TypeOK
<1>7. Chained'
  <2>1. frames[n].path = Top.path /\ frames[n].next = Top.next
    BY <1>1
  <2>. QED
    BY SMTT(20), <1>0, <1>1, <1>3, <1>4, <1>5, <2>1
       DEF Running, Chained, Decls, IsUse, AtDecl, Current
<1>8. Rooted' /\ Unparsed'
  BY <1>0, <1>1, <1>3, <1>4, <1>5 DEF Running, Rooted, Unparsed
<1>9. ASSUME NEW q \in DOMAIN source, NEW i \in DOMAIN Decls(q),
             Processed(q, i)'
      PROVE  Processed(q, i)
  <2>1. i \in Nat \ {0}
    BY DeclsType, <1>0 DEF TypeOK
  <2>. QED
    BY <1>3, <1>4, <1>5, <1>9, <2>1 DEF Processed, Decls
<1>10. ProcessedUsesParsed' /\ ProcessedUsesDistinct'
  BY <1>1, <1>3, <1>9
     DEF Running, ProcessedUsesParsed, ProcessedUsesDistinct, Decls, IsUse
<1>11. Stacked'
  <2>1. /\ DOMAIN file_stack' = 1..(Len(file_stack) + 1)
        /\ DOMAIN file_stack = 1..Len(file_stack) /\ Len(file_stack) \in Nat
        /\ file_stack'[Len(file_stack) + 1] = nptr + 1
        /\ \A k \in 1..Len(file_stack) : file_stack'[k] = file_stack[k]
        /\ \A k \in 1..Len(file_stack) : file_stack[k] \in Nat
        /\ nptr \in Nat
    BY <1>0, <1>3, LenProperties DEF TypeOK
  <2>2. \A y : InSequence(y, file_stack) => InSequence(y, file_stack')
    BY <2>1 DEF InSequence
  <2>3. InSequence(nptr + 1, file_stack')
    BY <2>1 DEF InSequence
  <2>4. \A k \in DOMAIN file_stack' : file_stack'[k] <= nptr'
    BY <1>1, <1>3, <2>1 DEF Running, Stacked
  <2>5. \A k \in DOMAIN frames' : InSequence(frames'[k].ptr, file_stack')
    BY <1>1, <1>4, <1>5, <2>2, <2>3 DEF Running, Stacked
  <2>. QED  BY <1>1, <1>3, <2>2, <2>4, <2>5 DEF Running, Stacked
<1>. QED
  BY <1>0, <1>1, <1>3, <1>4, <1>6, <1>7, <1>8, <1>10, <1>11
     DEF LoaderInv, Running, Parsing, LoadsOnlyTrees

(***************************************************************************)
(* Whenever a used module is in parsed_files the pointer kept there is on  *)
(* file_stack, from which nothing is ever removed: the import is refused.  *)
(***************************************************************************)
LEMMA UseParsedInv ==
  ASSUME NEW p \in Path PROVE LoaderInv /\ UseParsed(p) => LoaderInv'
<1>. SUFFICES ASSUME LoaderInv, UseParsed(p) PROVE LoaderInv'
  OBVIOUS
<1>0. /\ Parsing /\ AtDecl /\ Current.kind = "use" /\ Current.path = p
      /\ p \in DOMAIN parsed_files
  BY DEF UseParsed, UseOf
<1>1. Running /\ Top.path \in Path
  BY <1>0, TopType
<1>2. InSequence(parsed_files[p], file_stack)
  BY <1>0, <1>1 DEF Running, Stacked
<1>3. Crash("cyclic", Opened(Current, Top.path) \o << Error(Top.path) >>)
  BY <1>2 DEF UseParsed
<1>4. Opened(Current, Top.path) \o << Error(Top.path) >> \in Seq(Entity)
  BY <1>1, EntityType, ConcatProperties
<1>. QED  BY <1>0, <1>3, <1>4, CrashKeeps

\* The errors that stop the parser.
LEMMA OtherCrashesInv ==
  LoaderInv /\ ( \/ ScanError \/ SyntaxError \/ ExportOfExport \/ EmptyFile
                 \/ \E p \in Path : UseMissing(p) \/ StackOverflow(p) )
    => LoaderInv'
<1>. SUFFICES ASSUME LoaderInv, Parsing PROVE
       ( \/ ScanError \/ SyntaxError \/ ExportOfExport \/ EmptyFile
         \/ \E p \in Path : UseMissing(p) \/ StackOverflow(p) ) => LoaderInv'
  BY DEF ScanError, SyntaxError, ExportOfExport, EmptyFile, UseMissing,
         StackOverflow, UseOf
<1>1. Top.path \in Path
  BY TopType
<1>2. << Error(NoFile) >> \in Seq(Entity)
  BY DEF Error, Entity
<1>3. /\ << Error(Top.path) >> \in Seq(Entity)
      /\ << Trace(Top.path), Error(Top.path) >> \in Seq(Entity)
      /\ Opened(Current, Top.path) \in Seq(Entity)
  <2>1. Trace(Top.path) \in Entity /\ Error(Top.path) \in Entity
    BY <1>1 DEF Trace, Error, Entity
  <2>. QED  BY <1>1, <2>1, EntityType
<1>4. /\ Opened(Current, Top.path) \o << Error(Top.path) >> \in Seq(Entity)
      /\ Opened(Current, Top.path) \o << Error(NoFile) >> \in Seq(Entity)
  BY <1>2, <1>3, ConcatProperties
<1>5. CASE ScanError \/ ExportOfExport \/ SyntaxError
  BY <1>3, <1>4, <1>5, CrashKeeps DEF ScanError, SyntaxError, ExportOfExport
<1>6. CASE EmptyFile
  BY <1>3, <1>6, CrashKeeps DEF EmptyFile
<1>7. ASSUME NEW p \in Path, UseMissing(p) \/ StackOverflow(p) PROVE LoaderInv'
  BY <1>3, <1>4, <1>7, CrashKeeps DEF UseMissing, StackOverflow
<1>. QED  BY <1>5, <1>6, <1>7
(***************************************************************************)
(* The end of a module.  Its path m was in no processed use before, and no *)
(* other activation is parsing m: that activation would be waiting, at a   *)
(* declaration the finished one has passed, for a module not yet parsed.   *)
(***************************************************************************)
LEMMA FinishModuleInv == LoaderInv /\ FinishModule => LoaderInv'
<1>. SUFFICES ASSUME LoaderInv, FinishModule PROVE LoaderInv'
  OBVIOUS
<1>. DEFINE n == Len(frames)
            m == Top.path
<1>0. /\ Parsing /\ ~ AtDecl /\ TypeOK
      /\ parsed_files' = [p \in DOMAIN parsed_files \cup {m} |->
                           IF p = m THEN Top.ptr ELSE parsed_files[p]]
      /\ UNCHANGED <<source, file_stack, nptr>>
  BY DEF FinishModule, LoaderInv
<1>1. /\ Running /\ n \in DOMAIN frames /\ Top = frames[n] /\ n \in Nat \ {0}
      /\ Top \in Activations /\ m \in DOMAIN source
      /\ m \notin DOMAIN parsed_files
      /\ Decls(m) \in Seq(Decl)
      /\ frames \in Seq(Activations) /\ DOMAIN frames = 1..n
  BY <1>0, TopType, LenProperties DEF TypeOK
<1>10. n \in Nat /\ n >= 1
  BY <1>1
<1>11. DOMAIN frames = 1..n
  BY <1>1
<1>12. Running
  BY <1>1
<1>2. \A i \in DOMAIN Decls(m) : i \in Nat /\ i < Top.next
  BY <1>0, <1>1 DEF AtDecl, Activations
<1>3. DOMAIN parsed_files' = DOMAIN parsed_files \cup {m}
  BY <1>0
<1>4. \A k \in 1..n : k # n => frames[k].path # m
  <2>1. SUFFICES ASSUME NEW k \in 1..n, k # n, frames[k].path = m PROVE FALSE
    OBVIOUS
  <2>2. k + 1 \in 1..n
    BY <1>10, <2>1
  <2>3. /\ frames[k].next \in DOMAIN Decls(m)
        /\ IsUse(m, frames[k].next)
        /\ Decls(m)[frames[k].next].path = frames[k + 1].path
    BY <1>1, <2>1, <2>2 DEF Running, Chained
  <2>4. Processed(m, frames[k].next)
    BY <1>1, <1>2, <2>3 DEF Processed
  <2>5. frames[k + 1].path \in DOMAIN parsed_files
    BY <1>1, <2>3, <2>4 DEF Running, ProcessedUsesParsed
  <2>. QED  BY <1>1, <2>2, <2>5 DEF Running, Unparsed
<1>5. ASSUME NEW q \in DOMAIN source, NEW i \in DOMAIN Decls(q),
             Processed(q, i), IsUse(q, i)
      PROVE  Decls(q)[i].path # m
  BY <1>1, <1>5 DEF Running, ProcessedUsesParsed
<1>6. parsed_files' \in [DOMAIN parsed_files' -> Nat]
      /\ DOMAIN parsed_files' \subseteq DOMAIN source
  BY <1>0, <1>1, <1>3 DEF TypeOK, Activations
<1>7. \A p \in DOMAIN parsed_files' : InSequence(parsed_files'[p], file_stack)
  BY <1>0, <1>1, <1>3 DEF Running, Stacked
<1>8. CASE n = 1
  <2>1. status' = "done" /\ UNCHANGED <<frames, entities>>
    BY <1>8 DEF FinishModule
  <2>2. TypeOK'
    BY <1>0, <1>6, <2>1 DEF TypeOK
  <2>3. m = Root
    <3>1. frames # <<>> /\ Top = frames[1]
      BY <1>8, EmptySeq DEF Top
    <3>. QED  BY <1>12, <3>1 DEF Running, Rooted
  <2>4. ASSUME NEW q \in DOMAIN parsed_files', NEW i \in DOMAIN Decls(q)
        PROVE  Processed(q, i) /\ q \in DOMAIN source
    BY <1>0, <1>1, <1>2, <1>3, <2>4 DEF Processed, TypeOK
  <2>5. LoadsOnlyTrees'
    BY <1>0, <1>1, <1>3, <1>5, <2>3, <2>4
       DEF LoadsOnlyTrees, ClosedUnderUses, Running, ProcessedUsesParsed,
           ProcessedUsesDistinct, Decls, IsUse
  <2>. QED
    BY <1>1, <2>1, <2>2, <2>5 DEF LoaderInv, Parsing
<1>9. CASE n # 1
  <2>. DEFINE c == n - 1
              f == frames[c]
  <2>1. /\ frames' = [i \in 1..c |-> IF i = c THEN Appended(frames[i])
                                             ELSE frames[i]]
        /\ entities' = Popped(entities, Opened(Decls(f.path)[f.next], f.path))
        /\ status' = status
    BY <1>9 DEF FinishModule
  <2>2. c \in Nat \ {0} /\ c \in 1..n /\ c + 1 = n /\ f \in Activations
    BY <1>1, <1>9
  <2>3. /\ \A k \in 1..c : frames'[k] \in Activations
        /\ DOMAIN frames' = 1..c
        /\ \A k \in 1..c : /\ frames'[k].path = frames[k].path
                           /\ frames'[k].ptr = frames[k].ptr
                           /\ frames'[k].next = IF k = c THEN f.next + 1
                                                ELSE frames[k].next
    <3>1. \A k \in 1..c : frames[k] \in Activations
      BY <1>1, <1>10
    <3>2. DOMAIN frames' = 1..c
      BY <2>1
    <3>3. \A k \in 1..c : frames'[k] = IF k = c THEN Appended(f) ELSE frames[k]
      BY <2>1
    <3>4. /\ Appended(f) \in Activations
          /\ Appended(f).path = f.path /\ Appended(f).ptr = f.ptr
          /\ Appended(f).next = f.next + 1
      BY <2>2, AppendedType
    <3>5. ASSUME NEW k \in 1..c
          PROVE  /\ frames'[k] \in Activations
                 /\ frames'[k].path = frames[k].path
                 /\ frames'[k].ptr = frames[k].ptr
                 /\ frames'[k].next = IF k = c THEN f.next + 1
                                       ELSE frames[k].next
      <4>1. CASE k = c
        BY <3>3, <3>4, <4>1
      <4>2. CASE k # c
        BY <3>1, <3>3, <4>2
      <4>. QED  BY <4>1, <4>2
    <3>. QED  BY <3>2, <3>5
  <2>4. frames' \in Seq(Activations) /\ Len(frames') = c
    <3>1. frames' \in [1..c -> Activations] /\ c \in Nat
      BY <2>1, <2>2, <2>3
    <3>. QED  BY <3>1, SeqDef, LenProperties
  <2>5. entities' \in Seq(Entity)
    <3>1. Len(Opened(Decls(f.path)[f.next], f.path)) \in Nat
      BY DEF Opened
    <3>. QED  BY <1>0, <2>1, <3>1, PrefixType DEF TypeOK, Popped
  <2>6. TypeOK'
    <3>1. Len(frames') <= MaxDepth
      BY <1>0, <1>1, <2>2, <2>4, LoaderAssumption DEF TypeOK
    <3>2. \A k \in 1..c : frames'[k].path \in DOMAIN source
      BY <1>0, <1>1, <2>2, <2>3 DEF TypeOK
    <3>. QED  BY <1>0, <1>6, <2>1, <2>3, <2>4, <2>5, <3>1, <3>2 DEF TypeOK
  <2>7. /\ f.next \in DOMAIN Decls(f.path) /\ IsUse(f.path, f.next)
        /\ Decls(f.path)[f.next].path = m
        /\ f.path \in DOMAIN source
    BY <1>0, <1>1, <2>2 DEF Running, Chained, TypeOK
  <2>8. ASSUME NEW q \in DOMAIN source, NEW i \in DOMAIN Decls(q),
               Processed(q, i)', IsUse(q, i)
        PROVE  Processed(q, i) \/ (q = f.path /\ i = f.next)
    <3>1. i \in Nat
      BY DeclsType, <1>0 DEF TypeOK
    <3>2. CASE q \in DOMAIN parsed_files' /\ i \in DOMAIN Decls(q)
      BY <1>1, <1>2, <1>3, <3>2 DEF Processed
    <3>3. ASSUME NEW k \in 1..c, frames'[k].path = q, i < frames'[k].next
          PROVE  Processed(q, i) \/ (q = f.path /\ i = f.next)
      <4>1. k \in DOMAIN frames /\ frames[k].path = q
        <5>1. k \in 1..n
          BY <1>10
        <5>. QED  BY <1>11, <2>3, <3>3, <5>1
      <4>2. CASE k # c
        BY <2>3, <3>3, <4>1, <4>2 DEF Processed
      <4>3. CASE k = c
        <5>1. f.next \in Nat /\ i < f.next + 1
          BY <2>2, <2>3, <3>3, <4>3 DEF Activations
        <5>. QED  BY <3>1, <4>1, <4>3, <5>1 DEF Processed
      <4>. QED  BY <4>2, <4>3
    <3>. QED
      BY <1>0, <2>3, <2>8, <3>2, <3>3 DEF Processed, Decls
  <2>9. ProcessedUsesParsed'
    BY <1>0, <1>1, <1>3, <2>7, <2>8
       DEF Running, ProcessedUsesParsed, Decls, IsUse
  <2>10. ProcessedUsesDistinct'
    <3>1. SUFFICES ASSUME NEW p \in DOMAIN source, NEW q \in DOMAIN source,
                          NEW i \in DOMAIN Decls(p), NEW j \in DOMAIN Decls(q),
                          Processed(p, i)', Processed(q, j)',
                          IsUse(p, i), IsUse(q, j),
                          Decls(p)[i].path = Decls(q)[j].path
                   PROVE  p = q /\ i = j
      BY <1>0 DEF ProcessedUsesDistinct, Decls, IsUse
    <3>2. CASE Processed(p, i) /\ Processed(q, j)
      BY <1>1, <3>1, <3>2 DEF Running, ProcessedUsesDistinct
    <3>. QED  BY <1>5, <2>7, <2>8, <3>1, <3>2
  <2>11. Chained' /\ Rooted' /\ Unparsed'
    <3>1. Chained'
      <4>1. SUFFICES ASSUME NEW k \in 1..c, k + 1 \in 1..c
                     PROVE  /\ frames[k].next \in DOMAIN Decls(frames[k].path)
                            /\ IsUse(frames[k].path, frames[k].next)
                            /\ Decls(frames[k].path)[frames[k].next].path
                                 = frames[k + 1].path
                            /\ k # c
        BY <1>0, <2>3 DEF Chained, Decls, IsUse
      <4>2. k \in 1..n /\ k + 1 \in 1..n /\ k # c
        BY <1>10, <4>1
      <4>. QED  BY <1>11, <1>12, <4>2 DEF Running, Chained
    <3>2. Rooted'
      <4>1. frames # <<>> /\ 1 \in 1..c
        BY <1>10, <1>11, <2>2
      <4>. QED  BY <1>12, <2>3, <4>1 DEF Running, Rooted
    <3>3. Unparsed'
      <4>1. \A k \in 1..c : k \in 1..n /\ k # n
        BY <1>10
      <4>. QED  BY <1>3, <1>4, <1>11, <1>12, <2>3, <4>1 DEF Running, Unparsed
    <3>. QED  BY <3>1, <3>2, <3>3
  <2>12. Stacked'
    <3>1. \A k \in 1..c : k \in 1..n
      BY <1>10
    <3>. QED  BY <1>0, <1>7, <1>11, <1>12, <2>3, <3>1 DEF Running, Stacked
  <2>. QED
    BY <1>0, <2>1, <2>2, <2>4, <2>6, <2>9, <2>10, <2>11, <2>12
       DEF LoaderInv, Running, Parsing, LoadsOnlyTrees
<1>. QED  BY <1>8, <1>9

-----------------------------------------------------------------------------

(***************************************************************************)
(* The invariant the theorems rest on: while the main file is unfinished,  *)
(* the activations form a chain of uses whose members are not parsed yet,  *)
(* and what has been processed uses distinct, parsed modules.              *)
(***************************************************************************)
THEOREM LoaderInvariant == Spec => []LoaderInv
<1>1. LoaderInv /\ [Next]_vars => LoaderInv'
  <2>. SUFFICES ASSUME LoaderInv, [Next]_vars PROVE LoaderInv'
    OBVIOUS
  <2>1. CASE UNCHANGED vars
    BY <2>1 DEF vars, LoaderInv, TypeOK, Running, Chained, Rooted, Unparsed,
       ProcessedUsesParsed, ProcessedUsesDistinct, Processed, Stacked, Parsing,
       InSequence, Decls, IsUse, AtDecl, Current, Top, LoadsOnlyTrees,
       ClosedUnderUses
  <2>2. CASE Next
    BY <2>2, OtherCrashesInv, ParseOtherInv, UseNewInv, UseParsedInv,
       FinishModuleInv DEF Next
  <2>. QED  BY <2>1, <2>2
<1>. QED  BY InitInv, <1>1, PTL DEF Spec

(***************************************************************************)
(* Every state of the loader is well typed; in particular the activations  *)
(* stay within MaxDepth and only name files that exist.                    *)
(***************************************************************************)
THEOREM LoaderTypeOK == Spec => []TypeOK
<1>1. LoaderInv => TypeOK
  BY DEF LoaderInv
<1>. QED  BY LoaderInvariant, <1>1, PTL

(***************************************************************************)
(* Only trees of modules load: parsed_files never serves a second use of a *)
(* module, so a program in which one module is used twice is not accepted. *)
(***************************************************************************)
THEOREM OnlyTreesLoad == Spec => []LoadsOnlyTrees
<1>1. LoaderInv => LoadsOnlyTrees
  BY DEF LoaderInv
<1>. QED  BY LoaderInvariant, <1>1, PTL

(***************************************************************************)
(* No import refused as cyclic is on a cycle.                              *)
(***************************************************************************)
THEOREM CyclicReportsSpurious == Spec => []CyclicReportsAreSpurious
<1>1. LoaderInv => CyclicReportsAreSpurious
  <2>. SUFFICES ASSUME LoaderInv, status = "cyclic"
                PROVE  CyclicReportsAreSpurious
    BY DEF CyclicReportsAreSpurious
  <2>1. /\ Running /\ frames # <<>> /\ TypeOK
        /\ Current.path \in DOMAIN parsed_files
    BY DEF LoaderInv
  <2>2. Len(frames) \in DOMAIN frames
    BY <2>1, EmptySeq, LenProperties DEF TypeOK
  <2>3. ClosedUnderUses(DOMAIN parsed_files)
    BY <2>1 DEF ClosedUnderUses, Running, ProcessedUsesParsed, Processed, TypeOK
  <2>. QED
    BY <2>1, <2>2, <2>3 DEF CyclicReportsAreSpurious, Running, Unparsed, Top
<1>. QED  BY LoaderInvariant, <1>1, PTL

(***************************************************************************)
(* A module enters parsed_files only after every module it uses: by then   *)
(* all its declarations have been dealt with.                              *)
(***************************************************************************)
THEOREM UsesParsedFirst == Spec => UsesAreParsedFirst
<1>1. ASSUME LoaderInv, [Next]_vars,
             NEW p \in DOMAIN parsed_files' \ DOMAIN parsed_files,
             NEW i \in DOMAIN Decls(p), IsUse(p, i)
      PROVE  Decls(p)[i].path \in DOMAIN parsed_files
  <2>1. FinishModule
    BY <1>1 DEF Next, vars, ScanError, ParseOther, SyntaxError, ExportOfExport, EmptyFile,
                UseMissing, UseNew, StackOverflow, UseParsed, Crash
  <2>2. Parsing /\ ~ AtDecl /\ p = Top.path
    BY <1>1, <2>1 DEF FinishModule
  <2>3. /\ Running /\ Len(frames) \in DOMAIN frames /\ Top = frames[Len(frames)]
        /\ Top \in Activations /\ p \in DOMAIN source /\ Decls(p) \in Seq(Decl)
    BY <1>1, <2>2, TopType
  <2>4. i \in Nat /\ i < Top.next
    BY <2>2, <2>3 DEF AtDecl, Activations
  <2>5. Processed(p, i)
    BY <2>2, <2>3, <2>4 DEF Processed
  <2>. QED  BY <1>1, <2>3, <2>5 DEF Running, ProcessedUsesParsed
<1>2. LoaderInv /\ [Next]_vars =>
        [\A p \in DOMAIN parsed_files' \ DOMAIN parsed_files :
           \A i \in DOMAIN Decls(p) :
             IsUse(p, i) => Decls(p)[i].path \in DOMAIN parsed_files]_vars
  BY <1>1
<1>. QED  BY LoaderInvariant, <1>2, PTL DEF Spec, UsesAreParsedFirst

(***************************************************************************)
(* Where the loader stops for want of stack there are as many activations  *)
(* as fit.                                                                 *)
(***************************************************************************)
FullOnOverflow == status = "overflow" => Len(frames) = MaxDepth

LEMMA OverflowIsFull == Spec => []FullOnOverflow
<1>1. Init => FullOnOverflow
  BY DEF Init, FullOnOverflow
<1>2. FullOnOverflow /\ [Next]_vars => FullOnOverflow'
  BY DEF Next, vars, FullOnOverflow, ScanError, ParseOther, SyntaxError, ExportOfExport,
         EmptyFile, UseMissing, UseNew, StackOverflow, UseParsed, FinishModule, Crash, UseOf, Parsing
<1>. QED  BY <1>1, <1>2, PTL DEF Spec

(***************************************************************************)
(* If the C++ stack has room for more activations than there are files, it *)
(* overflows only on a program whose imports form a cycle: two activations *)
(* parse the same file, and the ones between lead from it back to it.      *)
(***************************************************************************)
THEOREM OverflowsAreCycles ==
  ASSUME IsFiniteSet(Path), Cardinality(Path) < MaxDepth
  PROVE  Spec => []OverflowMeansCycle
<1>1. ASSUME LoaderInv, FullOnOverflow, status = "overflow"
      PROVE  \E S \in SUBSET DOMAIN source :
               /\ S # {}
               /\ \A p \in S : \E i \in DOMAIN Decls(p) :
                                  IsUse(p, i) /\ Decls(p)[i].path \in S
  <2>1. /\ Running /\ frames \in Seq(Activations) /\ Len(frames) = MaxDepth
        /\ \A k \in DOMAIN frames : frames[k].path \in DOMAIN source
    BY <1>1 DEF LoaderInv, FullOnOverflow, TypeOK
  <2>2. DOMAIN frames = 1 .. MaxDepth /\ MaxDepth \in Nat
    BY <2>1, LenProperties, LoaderAssumption
  <2>3. PICK a, b \in 1 .. MaxDepth : a # b /\ frames[a].path = frames[b].path
    <3>1. IsFiniteSet(1 .. MaxDepth) /\ Cardinality(1 .. MaxDepth) = MaxDepth
      BY <2>2, FS_Interval
    <3>. DEFINE path == [k \in 1 .. MaxDepth |-> frames[k].path]
    <3>2. path \in [1 .. MaxDepth -> Path]
      <4>1. \A k \in 1 .. MaxDepth : frames[k] \in Activations
        BY <2>1, <2>2, ElementOfSeq
      <4>. QED  BY <4>1 DEF Activations
    <3>3. \A k \in 1 .. MaxDepth : path[k] = frames[k].path
      OBVIOUS
    <3>. HIDE DEF path
    <3>4. \E a, b \in 1 .. MaxDepth : a # b /\ path[a] = path[b]
      BY <3>1, <3>2, FS_PigeonHole
    <3>. QED  BY <3>3, <3>4
  <2>4. PICK i, j \in 1 .. MaxDepth : i < j /\ frames[i].path = frames[j].path
    BY <2>2, <2>3
  <2>. DEFINE S == {frames[k].path : k \in i .. j - 1}
  <2>5. \A k \in i .. j - 1 : k \in DOMAIN frames /\ k + 1 \in DOMAIN frames
    BY <2>2, <2>4
  <2>6. frames[i].path \in S /\ S \subseteq DOMAIN source
    BY <2>1, <2>2, <2>4, <2>5
  <2>7. ASSUME NEW k \in i .. j - 1 PROVE frames[k + 1].path \in S
    <3>1. k + 1 \in i .. j - 1 \/ k + 1 = j
      BY <2>2, <2>4
    <3>. QED  BY <2>4, <2>6, <3>1
  <2>8. ASSUME NEW p \in S
        PROVE  \E d \in DOMAIN Decls(p) : IsUse(p, d) /\ Decls(p)[d].path \in S
    <3>1. PICK k \in i .. j - 1 : p = frames[k].path
      OBVIOUS
    <3>2. /\ frames[k].next \in DOMAIN Decls(p) /\ IsUse(p, frames[k].next)
          /\ Decls(p)[frames[k].next].path = frames[k + 1].path
      BY <2>1, <2>5, <3>1 DEF Running, Chained
    <3>. QED  BY <2>7, <3>2
  <2>. QED  BY <2>6, <2>8
<1>2. LoaderInv /\ FullOnOverflow => OverflowMeansCycle
  BY <1>1 DEF OverflowMeansCycle
<1>. QED  BY LoaderInvariant, OverflowIsFull, <1>2, PTL

-----------------------------------------------------------------------------

(***************************************************************************)
(* The equations of Chain, and what they say of the entities.  There is a  *)
(* function that satisfies the equations (Recursion), so that Chain does.  *)
(***************************************************************************)
OpenedBy(n) == Opened(Decls(frames[n].path)[frames[n].next], frames[n].path)
ChainUnfolds == Chain[0] = <<>> /\ \A n \in Nat : Chain[n + 1] = Chain[n] \o OpenedBy(n + 1)

Traced == frames # <<>> /\ Parsing => entities = Chain[Len(frames) - 1]
TraceInv == Traced /\ TracesAreImportChains

LEMMA ShortSeqs ==
  ASSUME NEW E, NEW e \in E
  PROVE  <<>> \in Seq(E) /\ << e >> \in Seq(E) /\ << e, e >> \in Seq(E)
OBVIOUS

LEMMA ChainEquations == ChainUnfolds
<1> DEFINE E == {Trace(frames[n].path) : n \in Nat}
           S == Seq(E)
           step == [n \in Nat |-> [s \in S |-> s \o OpenedBy(n + 1)]]
           Satisfies(c) == c = [n \in Nat |-> IF n = 0 THEN <<>> ELSE c[n - 1] \o OpenedBy(n)]
<1>1. \A n \in Nat : OpenedBy(n) \in S
  <2>1. ASSUME NEW n \in Nat PROVE OpenedBy(n) \in S
    <3>1. PICK e \in E : e = Trace(frames[n].path)
      OBVIOUS
    <3>2. OpenedBy(n) = << e, e >> \/ OpenedBy(n) = << e >>
      BY <3>1 DEF OpenedBy, Opened
    <3> HIDE DEF E
    <3> QED BY <3>2, ShortSeqs
  <2> QED BY <2>1
<1>2. step \in [Nat -> [S -> S]]
  <2>1. ASSUME NEW n \in Nat PROVE [s \in S |-> s \o OpenedBy(n + 1)] \in [S -> S]
    <3>1. OpenedBy(n + 1) \in S
      BY <1>1
    <3> QED BY <3>1, ConcatProperties
  <2> QED BY <2>1
<1>3. PICK f \in [Nat -> S] : f[0] = <<>> /\ \A n \in Nat : f[n + 1] = step[n][f[n]]
  <2>1. <<>> \in S
    <3> HIDE DEF E
    <3> QED OBVIOUS
  <2> HIDE DEF S, step
  <2>2. PICK T, base, g : T = S /\ base = <<>> /\ g = step
    OBVIOUS
  <2>3. base \in T /\ g \in [Nat -> [T -> T]]
    BY <1>2, <2>1, <2>2
  <2>4. PICK f : Recurs(f, T, base, g)
    BY <2>3, Recursion
  <2> QED BY <2>2, <2>4 DEF Recurs
<1>4. \A n \in Nat : f[n + 1] = f[n] \o OpenedBy(n + 1)
  <2> HIDE DEF S
  <2> QED BY <1>3
<1>5. Satisfies(f)
  <2>1. ASSUME NEW n \in Nat PROVE f[n] = IF n = 0 THEN <<>> ELSE f[n - 1] \o OpenedBy(n)
    <3>1. CASE n = 0
      BY <1>3, <3>1
    <3>2. CASE n # 0
      <4>1. PICK m \in Nat : n = m + 1 /\ m = n - 1
        BY <3>2
      <4> QED BY <1>4, <3>2, <4>1
    <3> QED BY <3>1, <3>2
  <2> HIDE DEF S
  <2>2. f = [n \in Nat |-> f[n]]
    BY <1>3
  <2> QED BY <2>1, <2>2
<1>6. Chain = CHOOSE c : Satisfies(c)
  BY Zenon DEF Chain, OpenedBy
<1>7. Satisfies(Chain)
  <2> HIDE DEF Satisfies
  <2> QED BY <1>5, <1>6
<1>8. \A n \in Nat : Chain[n] = IF n = 0 THEN <<>> ELSE Chain[n - 1] \o OpenedBy(n)
  <2>1. PICK C : C = Chain
    OBVIOUS
  <2>2. C = [n \in Nat |-> IF n = 0 THEN <<>> ELSE C[n - 1] \o OpenedBy(n)]
    BY <1>7, <2>1
  <2>3. \A n \in Nat : C[n] = IF n = 0 THEN <<>> ELSE C[n - 1] \o OpenedBy(n)
    BY <2>2
  <2> QED BY <2>1, <2>3
<1>9. \A n \in Nat : n + 1 \in Nat /\ n + 1 # 0 /\ (n + 1) - 1 = n
  OBVIOUS
<1> QED BY <1>8, <1>9 DEF ChainUnfolds

\* The chain up to an activation depends on the activations up to it.
LEMMA SameChain ==
  ASSUME ChainUnfolds, ChainUnfolds', NEW m \in Nat,
         \A n \in 1 .. m : OpenedBy(n)' = OpenedBy(n)
  PROVE  Chain[m]' = Chain[m]
<1> DEFINE A == {n \in Nat : Chain[n]' = Chain[n]}
<1>1. 0 \in A
  BY DEF ChainUnfolds
<1>2. ASSUME NEW n \in Nat, n < m, n \in A PROVE n + 1 \in A
  <2>1. PICK k \in Nat : k = n + 1 /\ k \in 1 .. m
    BY <1>2
  <2>2. Chain[k] = Chain[n] \o OpenedBy(k) /\ Chain[k]' = Chain[n]' \o OpenedBy(k)'
    BY <2>1 DEF ChainUnfolds
  <2>3. Chain[k]' = Chain[k]
    BY <1>2, <2>1, <2>2
  <2> QED BY <2>1, <2>3
<1> HIDE DEF A
<1>3. \A n \in 0 .. m : n \in A
  BY <1>1, <1>2, BoundedInduction
<1> QED BY <1>3 DEF A

LEMMA Predecessor ==
  ASSUME NEW n \in Nat \ {0}
  PROVE  \E m \in Nat : m = n - 1 /\ m + 1 = n
OBVIOUS

LEMMA PositivePredecessor ==
  ASSUME NEW n \in Nat \ {0, 1}
  PROVE  \E m \in Nat \ {0} : m = n - 1
OBVIOUS

LEMMA AppendAfterConcat ==
  ASSUME NEW E, NEW s \in Seq(E), NEW r \in Seq(E), NEW e \in E
  PROVE  (s \o r) \o << e >> = s \o (r \o << e >>)
<1>1. << e >> \in Seq(E)
  BY ShortSeqs
<1> QED BY <1>1, ConcatAssociative

LEMMA ConcatPair ==
  ASSUME NEW E, NEW a \in E, NEW b \in E
  PROVE  << a >> \o << b >> = << a, b >>
<1>1. << a >> \in Seq(E) /\ << b >> \in Seq(E)
  BY ShortSeqs
<1>2. << a, b >> \in Seq(E) /\ Len(<< a, b >>) = 2 /\ << a, b >>[1] = a /\ << a, b >>[2] = b
  OBVIOUS
<1>3. Len(<< a >>) = 1 /\ << a >>[1] = a /\ Len(<< b >>) = 1 /\ << b >>[1] = b
  OBVIOUS
<1>4. PICK p, q, r : p = << a >> /\ q = << b >> /\ r = << a, b >>
  OBVIOUS
<1>5. p \in Seq(E) /\ q \in Seq(E) /\ Len(p) = 1 /\ Len(q) = 1 /\ p[1] = a /\ q[1] = b
  BY <1>1, <1>3, <1>4
<1>6. r \in Seq(E) /\ Len(r) = 2 /\ r[1] = a /\ r[2] = b
  BY <1>2, <1>4
<1>7. p \o q \in Seq(E) /\ Len(p \o q) = 2 /\ (p \o q)[1] = a /\ (p \o q)[2] = b
  BY <1>5, ConcatProperties
<1>8. p \o q = r
  BY <1>6, <1>7, SeqEqual
<1> QED BY <1>4, <1>8

\* The chain is made of traces.
LEMMA ChainType ==
  ASSUME ChainUnfolds, NEW m \in Nat, \A n \in 1 .. m : frames[n].path \in Path
  PROVE  Chain[m] \in Seq(Entity)
<1> DEFINE A == {n \in Nat : Chain[n] \in Seq(Entity)}
<1>1. 0 \in A
  <2>1. <<>> \in Seq(Entity)
    OBVIOUS
  <2> QED BY <2>1 DEF ChainUnfolds
<1>2. ASSUME NEW n \in Nat, n < m, n \in A PROVE n + 1 \in A
  <2>1. PICK k \in Nat : k = n + 1 /\ k \in 1 .. m
    BY <1>2
  <2>2. Chain[k] = Chain[n] \o OpenedBy(k)
    BY <2>1 DEF ChainUnfolds
  <2>3. OpenedBy(k) \in Seq(Entity)
    BY <2>1, EntityType DEF OpenedBy
  <2> QED BY <1>2, <2>1, <2>2, <2>3, ConcatProperties
<1> HIDE DEF A
<1>3. \A n \in 0 .. m : n \in A
  BY <1>1, <1>2, BoundedInduction
<1> QED BY <1>3 DEF A

(***************************************************************************)
(* A crash adds what the current declaration has opened so far, and most   *)
(* often an error.                                                         *)
(***************************************************************************)
LEMMA CrashTraces ==
  ASSUME LoaderInv, Traced, ChainUnfolds, ChainUnfolds', Parsing,
         NEW why, why \notin {"parsing", "done"}, NEW es, Crash(why, es),
         NEW opened \in Seq(Entity), opened = <<>> \/ (AtDecl /\ opened = UnderWay),
         \/ es = opened /\ why = "overflow"
         \/ \E e \in Entity : e.error /\ es = opened \o << e >>
  PROVE  TraceInv'
<1> DEFINE imports == Chain[Len(frames) - 1]
<1>1. /\ Len(frames) \in Nat \ {0} /\ frames # <<>> /\ entities = imports
      /\ entities \in Seq(Entity)
  BY TopType, EmptySeq DEF Traced, LoaderInv, TypeOK
<1>2. /\ status' = why /\ entities' = entities \o es
      /\ UNCHANGED <<source, frames, file_stack, parsed_files, nptr>>
  BY DEF Crash
<1>3. PICK m \in Nat : m = Len(frames) - 1
  <2>1. Len(frames) \in Nat \ {0}
    BY <1>1
  <2> QED BY <2>1, Predecessor
<1>4. Chain[m]' = Chain[m]
  BY <1>2, SameChain DEF OpenedBy, Decls
<1>5. m = Len(frames') - 1 /\ entities = Chain[m]
  BY <1>1, <1>2, <1>3
<1>6. UnderWay' = UnderWay /\ (AtDecl' <=> AtDecl) /\ ~ Parsing' /\ status' # "done"
  BY <1>2 DEF UnderWay, Current, Top, Decls, AtDecl, Parsing
<1> DEFINE t == entities \o opened
<1>7. t \in {Chain[m]'} \cup (IF AtDecl' THEN {Chain[m]' \o UnderWay'} ELSE {})
  BY <1>1, <1>4, <1>5, <1>6, ConcatEmptySeq
<1>8. \/ entities' = t /\ status' = "overflow"
      \/ \E e \in Entity : e.error /\ entities' = Append(t, e)
  <2>1. CASE es = opened /\ why = "overflow"
    BY <1>2, <2>1
  <2>2. ASSUME NEW e \in Entity, e.error, es = opened \o << e >> PROVE entities' = Append(t, e)
    <3>1. << e >> \in Seq(Entity) /\ t \in Seq(Entity)
      BY <1>1, ShortSeqs, ConcatProperties
    <3>2. (entities \o opened) \o << e >> = entities \o (opened \o << e >>)
      <4>1. PICK s \in Seq(Entity), r \in Seq(Entity) : s = entities /\ r = opened
        BY <1>1
      <4>2. (s \o r) \o << e >> = s \o (r \o << e >>)
        BY AppendAfterConcat
      <4> QED BY <4>1, <4>2
    <3>3. entities' = t \o << e >>
      BY <1>2, <2>2, <3>2
    <3> HIDE DEF t
    <3> QED BY <3>1, <3>3, AppendIsConcat
  <2> QED BY <2>1, <2>2
<1> HIDE DEF t
<1>9. TracesAreImportChains'
  BY <1>5, <1>6, <1>7, <1>8 DEF TracesAreImportChains
<1> QED BY <1>6, <1>9 DEF TraceInv, Traced

LEMMA EveryCrashTraces ==
  ASSUME LoaderInv, Traced, ChainUnfolds, ChainUnfolds', Parsing,
         \/ ScanError \/ SyntaxError \/ ExportOfExport \/ EmptyFile
         \/ \E p \in Path : UseMissing(p) \/ StackOverflow(p)
         \/ \E p \in Path : UseOf(p) /\
              Crash("cyclic", Opened(Current, Top.path) \o << Error(Top.path) >>)
  PROVE  TraceInv'
<1>1. Top.path \in Path
  BY TopType
<1>2. /\ Error(NoFile) \in Entity /\ Error(Top.path) \in Entity /\ Trace(Top.path) \in Entity
      /\ Error(NoFile).error /\ Error(Top.path).error
  BY <1>1 DEF Error, Trace, Entity
<1>3. << Trace(Top.path) >> \in Seq(Entity) /\ Opened(Current, Top.path) \in Seq(Entity)
      /\ <<>> \in Seq(Entity)
  BY <1>1, <1>2, EntityType, ShortSeqs
<1>4. <<>> \o << Error(Top.path) >> = << Error(Top.path) >>
  BY <1>2, ShortSeqs, ConcatEmptySeq
<1>5. CASE ScanError \/ EmptyFile
  <2>1. PICK why \in {"syntax", "empty"} : Crash(why, << Error(Top.path) >>)
    BY <1>5 DEF ScanError, EmptyFile
  <2> QED BY <1>2, <1>3, <1>4, <2>1, CrashTraces
<1>6. CASE ExportOfExport
  <2>1. /\ Crash("syntax", << Trace(Top.path), Error(Top.path) >>)
        /\ AtDecl /\ UnderWay = << Trace(Top.path) >>
    BY <1>6 DEF ExportOfExport, UnderWay
  <2>2. << Trace(Top.path), Error(Top.path) >> = << Trace(Top.path) >> \o << Error(Top.path) >>
    BY <1>2, ConcatPair
  <2> QED BY <1>2, <1>3, <2>1, <2>2, CrashTraces
<1>7. ASSUME NEW why \in {"syntax", "missing", "cyclic"}, NEW e \in Entity, e.error,
             Crash(why, Opened(Current, Top.path) \o << e >>),
             AtDecl, Current.kind # "reexport"
      PROVE  TraceInv'
  BY <1>3, <1>7, CrashTraces DEF UnderWay
<1>8. CASE SyntaxError
  BY <1>2, <1>7, <1>8 DEF SyntaxError
<1>9. ASSUME NEW p \in Path, UseMissing(p) PROVE TraceInv'
  BY <1>2, <1>7, <1>9 DEF UseMissing, UseOf
<1>10. ASSUME NEW p \in Path, StackOverflow(p) PROVE TraceInv'
  <2>1. /\ Crash("overflow", Opened(Current, Top.path))
        /\ AtDecl /\ UnderWay = Opened(Current, Top.path)
    BY <1>10 DEF StackOverflow, UseOf, UnderWay
  <2> QED BY <1>3, <2>1, CrashTraces
<1>11. ASSUME NEW p \in Path, UseOf(p),
              Crash("cyclic", Opened(Current, Top.path) \o << Error(Top.path) >>)
       PROVE  TraceInv'
  BY <1>2, <1>7, <1>11 DEF UseOf
<1> QED BY <1>5, <1>6, <1>8, <1>9, <1>10, <1>11

\* The innermost activation moves on: its caller's chain is as it was.
LEMMA MovingOnTraces ==
  ASSUME LoaderInv, Traced, ChainUnfolds, ChainUnfolds', Parsing,
         frames' = [frames EXCEPT ![Len(frames)] = Appended(@)],
         UNCHANGED <<source, entities, status>>
  PROVE  TraceInv'
<1>1. /\ Len(frames) \in Nat \ {0} /\ frames # <<>> /\ frames \in Seq(Activations)
      /\ entities = Chain[Len(frames) - 1]
  BY TopType, EmptySeq DEF Traced, LoaderInv, TypeOK
<1>2. PICK m \in Nat : m = Len(frames) - 1 /\ m + 1 = Len(frames)
  BY <1>1, Predecessor
<1>3. Len(frames') = m + 1 /\ \A n \in 1 .. m : frames'[n] = frames[n]
  <2>1. DOMAIN frames = 1 .. m + 1 /\ DOMAIN frames' = 1 .. m + 1
    BY <1>1, <1>2, LenProperties
  <2>2. \A n \in 1 .. m : n \in 1 .. m + 1 /\ n # m + 1
    BY <1>2
  <2>3. frames[m + 1] \in Activations
    BY <1>1, <1>2, ElementOfSeq
  <2>4. frames' \in Seq(Activations) /\ Len(frames') = m + 1
    BY <1>1, <1>2, <2>3, AppendedType, ExceptSeq
  <2> QED BY <1>2, <2>1, <2>2, <2>4
<1>4. \A n \in 1 .. m : OpenedBy(n)' = OpenedBy(n)
  BY <1>3 DEF OpenedBy, Decls
<1>5. Chain[m]' = Chain[m]
  BY <1>4, SameChain
<1>6. m = Len(frames') - 1 /\ entities' = Chain[m]'
  BY <1>1, <1>2, <1>3, <1>5
<1> QED BY <1>6 DEF TraceInv, Traced, TracesAreImportChains, Parsing

LEMMA UseNewTraces ==
  ASSUME LoaderInv, Traced, ChainUnfolds, ChainUnfolds', NEW p \in Path, UseNew(p)
  PROVE  TraceInv'
<1>1. Parsing /\ UseOf(p)
  BY DEF UseNew, UseOf
<1>2. CASE InSequence(nptr + 1, file_stack)
  BY <1>1, <1>2, EveryCrashTraces DEF UseNew
<1>3. CASE ~ InSequence(nptr + 1, file_stack)
  <2>1. /\ frames' = Append(frames, Activation(p, nptr + 1))
        /\ entities' = entities \o Opened(Current, Top.path)
        /\ UNCHANGED <<source, status>>
    BY <1>3 DEF UseNew
  <2>2. /\ Len(frames) \in Nat \ {0} /\ frames # <<>> /\ frames \in Seq(Activations)
        /\ entities = Chain[Len(frames) - 1] /\ nptr \in Nat
    BY <1>1, TopType, EmptySeq DEF Traced, LoaderInv, TypeOK
  <2>3. PICK m \in Nat : m = Len(frames) - 1 /\ m + 1 = Len(frames)
    BY <2>2, Predecessor
  <2>4. Len(frames') = m + 2 /\ \A n \in 1 .. m + 1 : frames'[n] = frames[n]
    <3>1. Activation(p, nptr + 1) \in Activations
      BY <2>2 DEF Activation, Activations
    <3> QED BY <2>1, <2>2, <2>3, <3>1, AppendProperties
  <2>5. \A n \in 1 .. m + 1 : OpenedBy(n)' = OpenedBy(n)
    BY <2>1, <2>4 DEF OpenedBy, Decls
  <2>6. Chain[m]' = Chain[m]
    BY <2>5, SameChain
  <2>7. PICK k \in Nat : k = m + 1 /\ k \in 1 .. m + 1
    BY <2>3
  <2>8. Chain[k]' = Chain[m] \o OpenedBy(k)
    BY <2>5, <2>6, <2>7 DEF ChainUnfolds
  <2>9. OpenedBy(k) = Opened(Current, Top.path)
    BY <2>3, <2>7 DEF OpenedBy, Current, Top
  <2>10. k = Len(frames') - 1 /\ entities' = Chain[k]'
    <3>1. k = Len(frames') - 1
      BY <2>4, <2>7
    <3>2. entities = Chain[m]
      BY <2>2, <2>3
    <3> QED BY <2>1, <2>8, <2>9, <3>1, <3>2
  <2>11. Parsing'
    BY <1>1, <2>1 DEF Parsing
  <2> QED BY <2>10, <2>11 DEF TraceInv, Traced, TracesAreImportChains
<1> QED BY <1>2, <1>3

\* The caller's declaration is over, and its entities are popped.
LEMMA FinishTraces ==
  ASSUME LoaderInv, Traced, ChainUnfolds, ChainUnfolds', FinishModule
  PROVE  TraceInv'
<1>1. Parsing /\ source' = source
  BY DEF FinishModule
<1>2. /\ Len(frames) \in Nat \ {0} /\ frames # <<>> /\ frames \in Seq(Activations)
      /\ entities = Chain[Len(frames) - 1]
  BY <1>1, TopType, EmptySeq DEF Traced, LoaderInv, TypeOK
<1>3. CASE Len(frames) = 1
  BY <1>3 DEF FinishModule, TraceInv, Traced, TracesAreImportChains, Parsing
<1>4. CASE Len(frames) # 1
  <2>1. PICK n \in Nat, m \in Nat : n = Len(frames) - 1 /\ m = n - 1 /\ n = m + 1
    <3>1. Len(frames) \in Nat \ {0, 1}
      BY <1>2, <1>4
    <3>2. PICK n \in Nat \ {0} : n = Len(frames) - 1
      BY <3>1, PositivePredecessor
    <3> QED BY <3>2, Predecessor
  <2>2. /\ frames' = [i \in 1..n |-> IF i = n THEN Appended(frames[i]) ELSE frames[i]]
        /\ entities' = Popped(entities, OpenedBy(n))
        /\ status' = status
    BY <1>4, <2>1 DEF FinishModule, OpenedBy
  <2>3. Len(frames') = n /\ \A i \in 1 .. m : frames'[i] = frames[i]
    <3>1. \A i \in 1 .. n : frames[i] \in Activations
      BY <1>2, <2>1, ElementOfSeq
    <3>2. frames' \in Seq(Activations)
      BY <2>2, <3>1, AppendedType
    <3>3. DOMAIN frames' = 1 .. n
      BY <2>2
    <3>4. Len(frames') = n
      BY <2>1, <3>2, <3>3, LenProperties
    <3>5. \A i \in 1 .. m : i \in 1 .. n /\ i # n
      BY <2>1
    <3> QED BY <2>2, <3>4, <3>5
  <2>4. \A i \in 1 .. m : OpenedBy(i)' = OpenedBy(i)
    BY <1>1, <2>3 DEF OpenedBy, Decls
  <2>5. Chain[m]' = Chain[m]
    BY <2>4, SameChain
  <2>6. \A i \in 1 .. n : frames[i].path \in Path
    <3>1. \A i \in 1 .. n : frames[i] \in Activations
      BY <1>2, <2>1, ElementOfSeq
    <3> QED BY <3>1 DEF Activations
  <2>7. Chain[m] \in Seq(Entity) /\ OpenedBy(n) \in Seq(Entity)
    <3>1. n \in 1 .. n /\ \A i \in 1 .. m : i \in 1 .. n
      BY <2>1
    <3>2. Chain[m] \in Seq(Entity)
      BY <2>6, <3>1, ChainType
    <3> QED BY <2>6, <3>1, <3>2, EntityType DEF OpenedBy
  <2>8. entities = Chain[m] \o OpenedBy(n)
    BY <1>2, <2>1 DEF ChainUnfolds
  <2>9. ASSUME NEW s \in Seq(Entity), NEW t \in Seq(Entity) PROVE Popped(s \o t, t) = s
    <3>1. Len(s) \in Nat /\ Len(t) \in Nat /\ Len(s \o t) = Len(s) + Len(t) /\ s \o t \in Seq(Entity)
      BY ConcatProperties, LenProperties
    <3>2. Len(s \o t) - Len(t) = Len(s)
      BY <3>1
    <3>3. SubSeq(s \o t, 1, Len(s)) = s
      <4>1. CASE Len(s) = 0
        <5>1. s = <<>> /\ SubSeq(s \o t, 1, 0) = <<>>
          BY <4>1, EmptySeq, SubSeqEmpty
        <5> QED BY <4>1, <5>1
      <4>2. CASE Len(s) # 0
        <5>1. 1 \in 1 .. Len(s) /\ Len(s) \in 1 .. Len(s)
          BY <3>1, <4>2
        <5>2. SubSeq(s \o t, 1, Len(s)) = SubSeq(s, 1, Len(s))
          BY <5>1, SubSeqOfConcat1
        <5> QED BY <5>2, SubSeqFull
      <4> QED BY <4>1, <4>2
    <3> QED BY <3>2, <3>3 DEF Popped
  <2>10. m = Len(frames') - 1 /\ entities' = Chain[m]'
    BY <2>1, <2>2, <2>3, <2>5, <2>7, <2>8, <2>9
  <2>11. Parsing'
    BY <1>1, <2>2 DEF Parsing
  <2> QED BY <2>10, <2>11 DEF TraceInv, Traced, TracesAreImportChains
<1> QED BY <1>3, <1>4

(***************************************************************************)
(* For every file system and every depth of imports the error stack names  *)
(* the declarations under way and no others, the error last: each entity   *)
(* that use_declaration and top_level_declaration push is popped once.     *)
(***************************************************************************)
THEOREM TracesImportChains == Spec => []TracesAreImportChains
<1>1. ASSUME ChainUnfolds, Init PROVE TraceInv
  <2>1. CASE Root \in DOMAIN source
    <3>1. Len(frames) = 1 /\ entities = <<>> /\ Parsing
      BY <1>1, <2>1 DEF Init, Parsing
    <3> QED BY <1>1, <3>1 DEF ChainUnfolds, TraceInv, Traced, TracesAreImportChains
  <2>2. CASE Root \notin DOMAIN source
    BY <1>1, <2>2 DEF Init, TraceInv, Traced, TracesAreImportChains, Parsing
  <2> QED BY <2>1, <2>2
<1>2. ASSUME LoaderInv, ChainUnfolds, ChainUnfolds', TraceInv, Next PROVE TraceInv'
  <2>1. Traced
    BY <1>2 DEF TraceInv
  <2>2. Parsing
    BY <1>2 DEF Next, ScanError, ParseOther, SyntaxError, ExportOfExport, UseMissing, UseNew,
                StackOverflow, UseParsed, UseOf, EmptyFile, FinishModule
  <2>3. CASE \/ ScanError \/ SyntaxError \/ ExportOfExport \/ EmptyFile
             \/ \E p \in Path : UseMissing(p) \/ StackOverflow(p)
    BY <1>2, <2>1, <2>2, <2>3, EveryCrashTraces
  <2>4. CASE ParseOther
    BY <1>2, <2>1, <2>2, <2>4, MovingOnTraces DEF ParseOther
  <2>5. ASSUME NEW p \in Path, UseParsed(p) PROVE TraceInv'
    BY <1>2, <2>1, <2>2, <2>5, MovingOnTraces, EveryCrashTraces DEF UseParsed
  <2>6. ASSUME NEW p \in Path, UseNew(p) PROVE TraceInv'
    BY <1>2, <2>1, <2>6, UseNewTraces
  <2>7. CASE FinishModule
    BY <1>2, <2>1, <2>7, FinishTraces
  <2> QED BY <1>2, <2>3, <2>4, <2>5, <2>6, <2>7 DEF Next
<1>3. ASSUME LoaderInv, TraceInv, ChainUnfolds, ChainUnfolds', UNCHANGED vars PROVE TraceInv'
  <2>0. /\ frames' = frames /\ source' = source /\ entities' = entities /\ status' = status
    BY <1>3 DEF vars
  <2>1. CASE frames = <<>>
    BY <2>0, <2>1 DEF TraceInv, Traced, TracesAreImportChains
  <2>2. CASE frames # <<>>
    <3>1. Len(frames) \in Nat \ {0}
      BY <1>3, <2>2, EmptySeq, LenProperties DEF LoaderInv, TypeOK
    <3>2. PICK m \in Nat : m = Len(frames) - 1 /\ m = Len(frames') - 1
      BY <2>0, <3>1, Predecessor
    <3>3. Chain[m]' = Chain[m]
      BY <1>3, <2>0, SameChain DEF OpenedBy, Decls
    <3>4. (UnderWay' = UnderWay) /\ (AtDecl' <=> AtDecl)
      BY <2>0 DEF UnderWay, Current, Top, Decls, AtDecl
    <3>5. Traced /\ TracesAreImportChains
      BY <1>3 DEF TraceInv
    <3> QED BY <2>0, <3>2, <3>3, <3>4, <3>5 DEF TraceInv, Traced, TracesAreImportChains, Parsing
  <2> QED BY <2>1, <2>2
<1>4. TraceInv => TracesAreImportChains
  BY DEF TraceInv
<1>5. LoaderInv /\ ChainUnfolds /\ ChainUnfolds' /\ TraceInv /\ [Next]_vars => TraceInv'
  BY <1>2, <1>3
<1> QED BY <1>1, <1>4, <1>5, ChainEquations, LoaderInvariant, PTL DEF Spec
=============================================================================

----------------------- MODULE RegisterAllocatorProofs ----------------------
(***************************************************************************)
(* Proofs about RegisterAllocator: the allocator's invariant, for any      *)
(* number of holders, and that the allocator implements RegisterPool.      *)
(***************************************************************************)
EXTENDS RegisterAllocator, SequenceTheorems, TLAPS

Inv == TypeOK /\ OneHolder /\ FreeOrInUse /\ ProtectedAreVariables

\* The registers of a free list.
Listed(s) == {s[i] : i \in DOMAIN s}

NoDuplicates(s) == \A i, j \in DOMAIN s : s[i] = s[j] => i = j

-----------------------------------------------------------------------------
\* Facts about the free list.

\* Taking the last entry of a list without duplicates removes one register.
LEMMA ListedFront ==
  ASSUME NEW s \in Seq(Nat), s # <<>>, NoDuplicates(s)
  PROVE  /\ s[Len(s)] \in Listed(s)
         /\ s[Len(s)] \in Nat
         /\ SubSeq(s, 1, Len(s) - 1) \in Seq(Nat)
         /\ NoDuplicates(SubSeq(s, 1, Len(s) - 1))
         /\ Listed(SubSeq(s, 1, Len(s) - 1)) = Listed(s) \ {s[Len(s)]}
<1>n. Len(s) \in Nat \ {0} /\ DOMAIN s = 1 .. Len(s)
  BY EmptySeq, LenProperties
<1> DEFINE n == Len(s)
           t == SubSeq(s, 1, n - 1)
<1>1. n \in DOMAIN s /\ s[n] \in Nat
  BY <1>n, ElementOfSeq
<1>2. /\ t \in Seq(Nat) /\ Len(t) = n - 1
      /\ \A i \in 1 .. n - 1 : t[i] = s[i]
  BY <1>n, ElementOfSeq, SubSeqProperties
<1>3. DOMAIN t = 1 .. n - 1
  BY <1>2, LenProperties
<1>4. NoDuplicates(t)
  BY <1>n, <1>2, <1>3 DEF NoDuplicates
<1>5. Listed(t) = Listed(s) \ {s[n]}
  <2>1. ASSUME NEW r \in Listed(t) PROVE r \in Listed(s) \ {s[n]}
    <3>1. PICK i \in 1 .. n - 1 : r = s[i]
      BY <1>2, <1>3 DEF Listed
    <3>2. n \in Nat /\ i \in Nat /\ 1 <= i /\ i <= n - 1
      BY <1>n
    <3>a. i \in 1 .. n /\ i # n
      BY <3>2
    <3>b. i \in DOMAIN s
      BY <1>n, <3>a
    <3>3. s[i] # s[n]
      BY <1>1, <3>a, <3>b DEF NoDuplicates
    <3> QED BY <3>1, <3>a, <3>b, <3>3 DEF Listed
  <2>2. ASSUME NEW r \in Listed(s) \ {s[n]} PROVE r \in Listed(t)
    <3>1. PICK i \in DOMAIN s : r = s[i]
      BY DEF Listed
    <3>2. i \in 1 .. n - 1
      BY <1>n, <3>1
    <3> QED BY <1>2, <1>3, <3>1, <3>2 DEF Listed
  <2> QED BY <2>1, <2>2
<1> QED BY <1>1, <1>2, <1>4, <1>5 DEF Listed

\* Appending a register that is not listed.
LEMMA ListedAppend ==
  ASSUME NEW s \in Seq(Nat), NEW r \in Nat, NoDuplicates(s), r \notin Listed(s)
  PROVE  /\ Append(s, r) \in Seq(Nat)
         /\ NoDuplicates(Append(s, r))
         /\ Listed(Append(s, r)) = Listed(s) \cup {r}
<1>n. Len(s) \in Nat /\ DOMAIN s = 1 .. Len(s)
  BY LenProperties
<1> DEFINE n == Len(s)
           t == Append(s, r)
<1>1. /\ t \in Seq(Nat) /\ Len(t) = n + 1
      /\ t[n + 1] = r /\ \A i \in 1 .. n : t[i] = s[i]
  BY <1>n, AppendProperties
<1>2. DOMAIN t = 1 .. n + 1
  BY <1>1, LenProperties
<1>3. \A i \in 1 .. n : s[i] # r
  BY <1>n DEF Listed
<1>4. NoDuplicates(t)
  BY <1>n, <1>1, <1>2, <1>3 DEF NoDuplicates
<1>5. Listed(t) = Listed(s) \cup {r}
  <2>1. ASSUME NEW x \in Listed(t) PROVE x \in Listed(s) \cup {r}
    BY <1>n, <1>1, <1>2 DEF Listed
  <2>2. ASSUME NEW x \in Listed(s) \cup {r} PROVE x \in Listed(t)
    <3>1. CASE x = r
      BY <1>n, <1>1, <1>2, <3>1 DEF Listed
    <3>2. CASE x \in Listed(s)
      <4>1. PICK i \in 1 .. n : x = s[i]
        BY <1>n, <3>2 DEF Listed
      <4>2. i \in 1 .. n + 1
        BY <1>n
      <4> QED BY <1>1, <1>2, <4>1, <4>2 DEF Listed
    <3> QED BY <2>2, <3>1, <3>2
  <2> QED BY <2>1, <2>2
<1> QED BY <1>1, <1>4, <1>5

-----------------------------------------------------------------------------
\* The two methods of FrameInfo, under the invariant.

\* get_register gives a register nobody holds; the frame grows only when all
\* its registers are in use.
LEMMA GetGivesUnused ==
  ASSUME Inv, NEW protect \in BOOLEAN
  PROVE  LET r == NextRegister(info)
             next == GetRegister(info, protect)
         IN  /\ r \in Nat /\ r \notin InUse
             /\ next.current_register \in Nat
             /\ next.free_registers \in Seq(Nat)
             /\ NoDuplicates(next.free_registers)
             /\ r \notin Listed(next.free_registers)
             /\ Listed(next.free_registers) \cap InUse = {}
             /\ Listed(next.free_registers) \cup InUse \cup {r}
                  = 0 .. next.current_register - 1
             /\ next.protected_registers
                  = Protect(info, r, protect)
             /\ next.current_register =
                  IF 0 .. info.current_register - 1 \subseteq InUse
                    THEN info.current_register + 1
                    ELSE info.current_register
<1> DEFINE s == info.free_registers
           c == info.current_register
           r == NextRegister(info)
           next == GetRegister(info, protect)
<1>1. /\ s \in Seq(Nat) /\ c \in Nat /\ NoDuplicates(s)
      /\ Listed(s) \cap InUse = {} /\ Listed(s) \cup InUse = 0 .. c - 1
  BY DEF Inv, TypeOK, FreeOrInUse, NoDuplicates, Listed
<1>2. next.protected_registers = Protect(info, r, protect)
  BY DEF GetRegister
<1>3. CASE s = <<>>
  <2>1. /\ r = c /\ next.current_register = c + 1
        /\ next.free_registers = <<>>
    BY <1>3 DEF NextRegister, GetRegister
  <2>2. Listed(<<>>) = {} /\ NoDuplicates(<<>>) /\ <<>> \in Seq(Nat)
    BY EmptySeq DEF Listed, NoDuplicates
  <2>3. InUse = 0 .. c - 1
    BY <1>1, <1>3, <2>2
  <2>4. c \notin InUse /\ InUse \cup {c} = 0 .. (c + 1) - 1
    BY <1>1, <2>3
  <2> QED BY <1>1, <1>2, <2>1, <2>2, <2>3, <2>4
<1>4. CASE s # <<>>
  <2>1. /\ r = s[Len(s)] /\ next.current_register = c
        /\ next.free_registers = SubSeq(s, 1, Len(s) - 1)
    BY <1>4 DEF NextRegister, GetRegister
  <2>2. /\ r \in Listed(s) /\ r \in Nat
        /\ next.free_registers \in Seq(Nat)
        /\ NoDuplicates(next.free_registers)
        /\ Listed(next.free_registers) = Listed(s) \ {r}
    BY <1>1, <1>4, <2>1, ListedFront
  <2>3. r \notin InUse /\ r \in 0 .. c - 1
    BY <1>1, <2>2
  <2>4. ~ (0 .. c - 1 \subseteq InUse)
    BY <2>3
  <2> QED BY <1>1, <1>2, <2>1, <2>2, <2>3, <2>4
<1> QED BY <1>3, <1>4

\* free_register of a register in use moves it to the free list, unless it is
\* protected and not forced.
LEMMA FreeMovesRegister ==
  ASSUME Inv, NEW r \in InUse, NEW force \in BOOLEAN,
         Frees(info, r, force)
  PROVE  LET next == FreeRegister(info, r, force)
         IN  /\ next.current_register = info.current_register
             /\ next.free_registers \in Seq(Nat)
             /\ NoDuplicates(next.free_registers)
             /\ Listed(next.free_registers)
                  = Listed(info.free_registers) \cup {r}
             /\ next.protected_registers = info.protected_registers \ {r}
<1> DEFINE s == info.free_registers
<1>1. /\ s \in Seq(Nat) /\ NoDuplicates(s) /\ Listed(s) \cap InUse = {}
  BY DEF Inv, TypeOK, FreeOrInUse, NoDuplicates, Listed
<1>2. r \in Nat
  BY DEF Inv, TypeOK, InUse
<1>3. r \notin Listed(s)
  BY <1>1
<1>4. ~ IsFree(info, r)
  BY <1>3 DEF IsFree, Listed
<1>5. FreeRegister(info, r, force)
        = [current_register    |-> info.current_register,
           free_registers      |-> Append(s, r),
           protected_registers |-> info.protected_registers \ {r}]
  BY <1>4 DEF FreeRegister
<1> QED BY <1>1, <1>2, <1>3, <1>5, ListedAppend

\* The holders left when one of them gives its register back.
LEMMA WithoutHolder ==
  ASSUME Inv, NEW h \in DOMAIN held
  PROVE  /\ DOMAIN Without(h) = DOMAIN held \ {h}
         /\ Without(h) \in [DOMAIN held \ {h} -> Nat]
         /\ {Without(h)[k] : k \in DOMAIN Without(h)} = InUse \ {held[h]}
         /\ \A k, l \in DOMAIN Without(h) :
               Without(h)[k] = Without(h)[l] => k = l
<1>1. /\ DOMAIN Without(h) = DOMAIN held \ {h}
      /\ \A k \in DOMAIN held \ {h} : Without(h)[k] = held[k]
  BY DEF Without
<1>2. Without(h) \in [DOMAIN held \ {h} -> Nat]
  BY DEF Without, Inv, TypeOK
<1>3. \A k \in DOMAIN held \ {h} : held[k] # held[h]
  BY DEF Inv, OneHolder
<1>4. {Without(h)[k] : k \in DOMAIN Without(h)} = InUse \ {held[h]}
  BY <1>1, <1>3 DEF InUse
<1>5. \A k, l \in DOMAIN Without(h) : Without(h)[k] = Without(h)[l] => k = l
  BY <1>1 DEF Inv, OneHolder
<1> QED BY <1>1, <1>2, <1>4, <1>5
-----------------------------------------------------------------------------
\* The invariant.

\* An empty frame satisfies the invariant.
LEMMA InitInv == Init => Inv
<1> SUFFICES ASSUME Init PROVE Inv
  OBVIOUS
<1>1. info = NewFrameInfo /\ DOMAIN held = {} /\ variables = {}
  BY DEF Init
<1>2. TypeOK
  BY <1>1, EmptySeq DEF TypeOK, NewFrameInfo
<1>3. FreeOrInUse
  BY <1>1, EmptySeq DEF FreeOrInUse, NewFrameInfo, InUse
<1>4. OneHolder /\ ProtectedAreVariables
  BY <1>1 DEF OneHolder, ProtectedAreVariables, NewFrameInfo
<1> QED BY <1>2, <1>3, <1>4 DEF Inv

\* get_register preserves the invariant.
LEMMA GetInv ==
  ASSUME Inv, NEW h \in Holder, NEW protect \in BOOLEAN, Get(h, protect)
  PROVE  Inv'
<1> DEFINE r == NextRegister(info)
           c == info.current_register
<1>1. /\ r \in Nat /\ r \notin InUse
      /\ info'.current_register \in Nat
      /\ info'.free_registers \in Seq(Nat)
      /\ NoDuplicates(info'.free_registers)
      /\ r \notin Listed(info'.free_registers)
      /\ Listed(info'.free_registers) \cap InUse = {}
      /\ Listed(info'.free_registers) \cup InUse \cup {r}
           = 0 .. info'.current_register - 1
      /\ info'.protected_registers = Protect(info, r, protect)
  BY GetGivesUnused DEF Get
<1>2. /\ h \notin DOMAIN held
      /\ DOMAIN held' = DOMAIN held \cup {h}
      /\ held'[h] = r /\ \A k \in DOMAIN held : held'[k] = held[k]
      /\ held' \in [DOMAIN held' -> Nat]
  BY <1>1 DEF Get, Inv, TypeOK
<1>3. variables' = IF protect THEN variables \cup {h} ELSE variables
  BY DEF Get
<1>4. InUse' = InUse \cup {r}
  BY <1>2 DEF InUse
<1>5. TypeOK'
  <2>1. info'.protected_registers \subseteq Nat
    BY <1>1 DEF Protect, Inv, TypeOK
  <2>2. info' = [current_register    |-> info'.current_register,
                 free_registers      |-> info'.free_registers,
                 protected_registers |-> info'.protected_registers]
    BY DEF Get, GetRegister
  <2>3. info' \in [current_register : Nat, free_registers : Seq(Nat),
                   protected_registers : SUBSET Nat]
    BY <1>1, <2>1, <2>2
  <2> QED BY <1>1, <1>2, <1>3, <2>3 DEF Inv, TypeOK
<1>6. OneHolder'
  <2>1. \A k \in DOMAIN held : held[k] # r
    BY <1>1 DEF InUse
  <2> QED BY <1>2, <2>1 DEF Inv, OneHolder
<1>7. FreeOrInUse'
  BY <1>1, <1>4 DEF FreeOrInUse, NoDuplicates, Listed
<1>8. ProtectedAreVariables'
  <2>1. info.protected_registers = {held[k] : k \in variables}
        /\ variables \subseteq DOMAIN held
    BY DEF Inv, ProtectedAreVariables, TypeOK
  <2>2. {held'[k] : k \in variables'}
          = IF protect THEN {held[k] : k \in variables} \cup {r}
                       ELSE {held[k] : k \in variables}
    BY <1>2, <1>3, <2>1
  <2> QED BY <1>1, <2>1, <2>2 DEF ProtectedAreVariables, Protect
<1> QED BY <1>5, <1>6, <1>7, <1>8 DEF Inv

\* A register given back by its holder, forced or not, leaves the holders.
LEMMA GiveBackInv ==
  ASSUME Inv, NEW h \in DOMAIN held, NEW force \in BOOLEAN,
         Frees(info, held[h], force),
         info' = FreeRegister(info, held[h], force),
         held' = Without(h), variables' = variables \ {h}
  PROVE  Inv'
<1> DEFINE r == held[h]
<1>1. r \in InUse /\ r \in Nat
  BY DEF InUse, Inv, TypeOK
<1>2. /\ info'.current_register = info.current_register
      /\ info'.free_registers \in Seq(Nat)
      /\ NoDuplicates(info'.free_registers)
      /\ Listed(info'.free_registers) = Listed(info.free_registers) \cup {r}
      /\ info'.protected_registers = info.protected_registers \ {r}
  BY <1>1, FreeMovesRegister
<1> DEFINE w == Without(h)
<1>w. /\ DOMAIN w = DOMAIN held \ {h}
      /\ w \in [DOMAIN w -> Nat]
      /\ {w[k] : k \in DOMAIN w} = InUse \ {r}
      /\ \A k, l \in DOMAIN w : w[k] = w[l] => k = l
  BY WithoutHolder
<1>v. held' = w
  OBVIOUS
<1>3. /\ DOMAIN held' = DOMAIN held \ {h}
      /\ held' \in [DOMAIN held' -> Nat]
      /\ InUse' = InUse \ {r}
      /\ OneHolder'
  <2> HIDE DEF w
  <2> QED BY <1>w, <1>v DEF InUse, OneHolder
<1>4. TypeOK'
  <2>1. info' = [current_register    |-> info'.current_register,
                 free_registers      |-> info'.free_registers,
                 protected_registers |-> info'.protected_registers]
    BY DEF FreeRegister, Inv, TypeOK
  <2>2. info' \in [current_register : Nat, free_registers : Seq(Nat),
                   protected_registers : SUBSET Nat]
    BY <1>2, <2>1 DEF Inv, TypeOK
  <2> QED BY <1>3, <2>2 DEF Inv, TypeOK
<1>5. FreeOrInUse'
  <2>1. /\ Listed(info.free_registers) \cap InUse = {}
        /\ Listed(info.free_registers) \cup InUse
             = 0 .. info.current_register - 1
    BY DEF Inv, FreeOrInUse, Listed
  <2>2. /\ Listed(info'.free_registers) \cap InUse' = {}
        /\ Listed(info'.free_registers) \cup InUse'
             = 0 .. info'.current_register - 1
    BY <1>1, <1>2, <1>3, <2>1
  <2> QED BY <1>2, <2>2 DEF FreeOrInUse, NoDuplicates, Listed
<1>6. ProtectedAreVariables'
  <2>1. info.protected_registers = {held[k] : k \in variables}
    BY DEF Inv, ProtectedAreVariables
  <2>2. \A k \in variables \ {h} : held'[k] = held[k] /\ held[k] # r
    BY DEF Inv, TypeOK, OneHolder, Without
  <2>3. {held'[k] : k \in variables \ {h}}
          = {held[k] : k \in variables} \ {r}
    BY <2>2
  <2> QED BY <1>2, <2>1, <2>3 DEF ProtectedAreVariables
<1> QED BY <1>3, <1>4, <1>5, <1>6 DEF Inv

\* Only the registers of variables resist a release without force.
LEMMA TemporariesAreFreed ==
  ASSUME Inv, NEW h \in DOMAIN held
  PROVE  Frees(info, held[h], FALSE) <=> h \notin variables
BY DEF Inv, TypeOK, ProtectedAreVariables, OneHolder, Frees

\* A step that changes nothing keeps the invariant.
LEMMA StutterInv ==
  ASSUME Inv, UNCHANGED vars
  PROVE  Inv'
<1>1. info' = info /\ held' = held /\ variables' = variables
  BY DEF vars
<1>2. TypeOK'
  BY <1>1 DEF Inv, TypeOK
<1>3. OneHolder' /\ ProtectedAreVariables'
  BY <1>1 DEF Inv, OneHolder, ProtectedAreVariables
<1>4. FreeOrInUse'
  BY <1>1 DEF Inv, FreeOrInUse, InUse
<1> QED BY <1>2, <1>3, <1>4 DEF Inv

\* A release without force gives a temporary back and spares a variable.
LEMMA ReleaseInv ==
  ASSUME Inv, NEW h \in Holder, Release(h)
  PROVE  Inv'
<1>h. h \in DOMAIN held
  BY DEF Release
<1>1. CASE h \in variables
  <2>1. UNCHANGED vars
    BY <1>h, <1>1, TemporariesAreFreed DEF Release, FreeRegister, vars
  <2> QED BY <2>1, StutterInv
<1>2. CASE h \notin variables
  <2>1. /\ Frees(info, held[h], FALSE)
        /\ info' = FreeRegister(info, held[h], FALSE)
        /\ held' = Without(h) /\ variables' = variables \ {h}
    BY <1>h, <1>2, TemporariesAreFreed DEF Release
  <2> QED BY <1>h, <2>1, GiveBackInv
<1> QED BY <1>1, <1>2

\* A forced release gives the register of a variable back.
LEMMA DropInv ==
  ASSUME Inv, NEW h \in Holder, Drop(h)
  PROVE  Inv'
<1>1. h \in DOMAIN held
  BY DEF Drop, Inv, TypeOK
<1>2. Frees(info, held[h], TRUE)
  BY DEF Frees
<1> QED BY <1>1, <1>2, GiveBackInv DEF Drop

\* free_register(0) changes nothing where the client may call it.
LEMMA ReleaseZeroChangesNothing ==
  ASSUME Inv, ReleaseZero
  PROVE  UNCHANGED vars
<1>1. 0 \in 0 .. info.current_register - 1
  BY DEF ReleaseZero, Inv, TypeOK
<1>2. CASE 0 \in InUse
  <2>1. PICK h \in DOMAIN held : held[h] = 0
    BY <1>2 DEF InUse
  <2>2. h \in variables
    BY <2>1 DEF ReleaseZero
  <2>3. ~ Frees(info, 0, FALSE)
    BY <2>1, <2>2, TemporariesAreFreed
  <2> QED BY <2>3 DEF ReleaseZero, FreeRegister, vars
<1>3. CASE 0 \notin InUse
  <2>1. IsFree(info, 0)
    BY <1>1, <1>3 DEF Inv, FreeOrInUse, IsFree
  <2>2. 0 \notin info.protected_registers
    BY <1>3 DEF Inv, ProtectedAreVariables, TypeOK, InUse
  <2>3. info.protected_registers \ {0} = info.protected_registers
    BY <2>2
  <2>4. info' = [current_register    |-> info.current_register,
                 free_registers      |-> info.free_registers,
                 protected_registers |-> info.protected_registers]
    BY <2>1, <2>2, <2>3 DEF ReleaseZero, FreeRegister, Frees
  <2>5. info' = info
    BY <2>4 DEF Inv, TypeOK
  <2> QED BY <2>5 DEF ReleaseZero, vars
<1> QED BY <1>2, <1>3

\* FrameInfo::reset starts an empty frame.
LEMMA ResetInv ==
  ASSUME Reset
  PROVE  Inv'
<1>1. info' = NewFrameInfo /\ DOMAIN held' = {} /\ variables' = {}
  BY DEF Reset
<1>2. TypeOK'
  <2>1. held' \in [DOMAIN held' -> Nat]
    BY DEF Reset
  <2> QED BY <1>1, <2>1, EmptySeq DEF TypeOK, NewFrameInfo
<1>3. FreeOrInUse'
  BY <1>1, EmptySeq DEF FreeOrInUse, NewFrameInfo, InUse
<1>4. OneHolder' /\ ProtectedAreVariables'
  BY <1>1 DEF OneHolder, ProtectedAreVariables, NewFrameInfo
<1> QED BY <1>2, <1>3, <1>4 DEF Inv

\* Every call of the client keeps the invariant.
LEMMA NextInv == Inv /\ [Next]_vars => Inv'
<1> SUFFICES ASSUME Inv, [Next]_vars PROVE Inv'
  OBVIOUS
<1>1. ASSUME NEW h \in Holder, NEW protect \in BOOLEAN, Get(h, protect)
      PROVE  Inv'
  BY <1>1, GetInv
<1>2. ASSUME NEW h \in Holder, Release(h) PROVE Inv'
  BY <1>2, ReleaseInv
<1>3. ASSUME NEW h \in Holder, Drop(h) PROVE Inv'
  BY <1>3, DropInv
<1>4. CASE ReleaseZero
  BY <1>4, ReleaseZeroChangesNothing, StutterInv
<1>5. CASE Reset
  BY <1>5, ResetInv
<1>6. CASE UNCHANGED vars
  BY <1>6, StutterInv
<1> QED BY <1>1, <1>2, <1>3, <1>4, <1>5, <1>6 DEF Next

(***************************************************************************)
(* The allocator keeps its invariant, whatever its client asks for.        *)
(***************************************************************************)
THEOREM AllocatorInvariant == Spec => []Inv
<1>1. Init => Inv
  BY InitInv
<1>2. Inv /\ [Next]_vars => Inv'
  BY NextInv
<1> QED BY <1>1, <1>2, PTL DEF Spec

(***************************************************************************)
(* Types, for any set of holders.                                          *)
(***************************************************************************)
THEOREM AllocatorTypeOK == Spec => []TypeOK
<1>1. Inv => TypeOK
  BY DEF Inv
<1> QED BY <1>1, AllocatorInvariant, PTL

(***************************************************************************)
(* No register ever has two holders (get_register and free_register,       *)
(* program.cpp 240-276), for any set of holders.                           *)
(***************************************************************************)
THEOREM RegistersHaveOneHolder == Spec => []OneHolder
<1>1. Inv => OneHolder
  BY DEF Inv
<1> QED BY <1>1, AllocatorInvariant, PTL

(***************************************************************************)
(* The free list and the registers in use divide the frame: no register is *)
(* lost and none is listed while it is in use.                             *)
(***************************************************************************)
THEOREM NoRegisterIsLost == Spec => []FreeOrInUse
<1>1. Inv => FreeOrInUse
  BY DEF Inv
<1> QED BY <1>1, AllocatorInvariant, PTL

(***************************************************************************)
(* What is protected from being given back is the register of a variable:  *)
(* a temporary can always be given back (protected_registers).             *)
(***************************************************************************)
THEOREM OnlyVariablesAreProtected == Spec => []ProtectedAreVariables
<1>1. Inv => ProtectedAreVariables
  BY DEF Inv
<1> QED BY <1>1, AllocatorInvariant, PTL

-----------------------------------------------------------------------------
\* Refinement of RegisterPool.

\* An empty frame is an empty pool.
LEMMA PoolInitRefined == Init => Pool!PoolInit
BY DEF Init, NewFrameInfo, Pool!PoolInit

\* get_register takes from the pool a register that is not in use.
LEMMA GetTakes ==
  ASSUME Inv, NEW h \in Holder, NEW protect \in BOOLEAN, Get(h, protect)
  PROVE  Pool!Take(h)
<1> DEFINE r == NextRegister(info)
<1>1. /\ r \in Nat /\ r \notin InUse
      /\ r \in 0 .. info'.current_register - 1
      /\ info'.current_register =
           IF 0 .. info.current_register - 1 \subseteq InUse
             THEN info.current_register + 1
             ELSE info.current_register
  BY GetGivesUnused DEF Get
<1>2. InUse = Pool!InUse
  BY DEF InUse, Pool!InUse
<1>3. /\ h \notin DOMAIN held
      /\ held' = [k \in DOMAIN held \cup {h} |->
                    IF k = h THEN r ELSE held[k]]
  BY DEF Get
<1> QED BY <1>1, <1>2, <1>3 DEF Pool!Take

\* free_register does not change the size of the frame.
LEMMA FreeKeepsSize ==
  ASSUME NEW r, NEW force \in BOOLEAN
  PROVE  FreeRegister(info, r, force).current_register
           = info.current_register
BY DEF FreeRegister

\* Every call of the client is a step of the pool, or none.
LEMMA NextRefined ==
  Inv /\ [Next]_vars => [Pool!PoolNext]_<<held, info.current_register>>
<1> SUFFICES ASSUME Inv, [Next]_vars
             PROVE  [Pool!PoolNext]_<<held, info.current_register>>
  OBVIOUS
<1>1. ASSUME NEW h \in Holder, NEW protect \in BOOLEAN, Get(h, protect)
      PROVE  Pool!PoolNext
  BY <1>1, GetTakes DEF Pool!PoolNext
<1>2. ASSUME NEW h \in Holder, Release(h)
      PROVE  Pool!PoolNext \/ UNCHANGED <<held, info.current_register>>
  <2>1. /\ h \in DOMAIN held
        /\ info' = FreeRegister(info, held[h], FALSE)
        /\ held' = IF h \in variables THEN held ELSE Without(h)
    BY <1>2 DEF Release
  <2>2. info'.current_register = info.current_register
    BY <2>1, FreeKeepsSize
  <2>3. CASE h \in variables
    BY <2>1, <2>2, <2>3
  <2>4. CASE h \notin variables
    BY <2>1, <2>2, <2>4 DEF Pool!PoolNext, Pool!Give, Without
  <2> QED BY <2>3, <2>4
<1>3. ASSUME NEW h \in Holder, Drop(h)
      PROVE  Pool!PoolNext
  <2>1. /\ h \in DOMAIN held
        /\ info' = FreeRegister(info, held[h], TRUE)
        /\ held' = Without(h)
    BY <1>3 DEF Drop, Inv, TypeOK
  <2>2. info'.current_register = info.current_register
    BY <2>1, FreeKeepsSize
  <2> QED BY <2>1, <2>2 DEF Pool!PoolNext, Pool!Give, Without
<1>4. CASE ReleaseZero
  BY <1>4, ReleaseZeroChangesNothing DEF vars
<1>5. CASE Reset
  BY <1>5 DEF Reset, NewFrameInfo, Pool!PoolNext, Pool!NewFrame
<1>6. CASE UNCHANGED vars
  BY <1>6 DEF vars
<1> QED BY <1>1, <1>2, <1>3, <1>4, <1>5, <1>6 DEF Next

(***************************************************************************)
(* The allocator implements the register pool: the frame size the compiler *)
(* reads from current_register is the most registers ever held together.   *)
(***************************************************************************)
THEOREM AllocatorImplementsPool == Spec => ImplementsPool
<1>1. Init => Pool!PoolInit
  BY PoolInitRefined
<1>2. Inv /\ [Next]_vars => [Pool!PoolNext]_<<held, info.current_register>>
  BY NextRefined
<1> QED BY <1>1, <1>2, AllocatorInvariant, PTL
        DEF Spec, ImplementsPool, Pool!PoolSpec
=============================================================================

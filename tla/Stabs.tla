------------------------------- MODULE Stabs -------------------------------
(***************************************************************************)
(* debuginfo_eip of kern/kdebug.c: what the kernel says of an instruction  *)
(* address, found with two binary searches in the symbol table the linker  *)
(* left, for the source file and within it for the function, and a walk    *)
(* back to the name of the file.  A step is a turn of the search's loop.   *)
(*                                                                         *)
(* The table is one a linker makes: a header; for each file an entry at    *)
(* its beginning, its functions in order of address with other entries     *)
(* among them, and an entry at its end.  Addresses are counted in bytes.   *)
(***************************************************************************)
EXTENDS Integers, Sequences

CONSTANTS
  Bodies,      \* what is between the beginning and the end of a file
  Sizes,       \* bytes of code in a file
  Gaps         \* bytes between two files

ASSUME StabsAssumption ==
  /\ Sizes \subseteq Nat \ {0} /\ Gaps \subseteq Nat
  /\ \A b \in Bodies : \A i \in DOMAIN b : /\ b[i].type \in {"FUN", "SOL", "SLINE"}
                                           /\ b[i].value \in Nat

Entry(t, v) == [type |-> t, value |-> v]

(* The contents of a file of n bytes, and the file with its code at a.     *)
Files == {f \in Bodies \X Sizes : \A i \in DOMAIN f[1] : f[1][i].value < f[2]}
File(a, f) ==
  <<Entry("SO", a)>> \o [i \in DOMAIN f[1] |-> Entry(f[1][i].type, a + f[1][i].value)]
    \o <<Entry("SO", a + f[2])>>

VARIABLES
  stabs,       \* the table
  eip,         \* the address asked for
  phase,       \* "file", "function", "name", "done"
  search,      \* the variables of stab_binsearch
  lfile, rfile,
  info         \* what is found: the index of the function and of the name

vars == <<stabs, eip, phase, search, lfile, rfile, info>>

Unknown == -1
Last == Len(stabs) - 1
Type(i)  == stabs[i + 1].type      \* the table counts from 0
Value(i) == stabs[i + 1].value

Search(left, right, addr) ==
  [l |-> left, r |-> right, left |-> left, right |-> right, addr |-> addr, any |-> FALSE]

(* Both files may be asked about, at any instruction.                      *)
Init ==
  /\ \E f, h \in Files, g \in Gaps :
       LET second == 1 + f[2] + g IN
       /\ stabs = <<Entry("HDR", 0)>> \o File(1, f) \o File(second, h)
       /\ eip \in (1 .. f[2]) \union (second .. second + h[2] - 1)
  /\ phase = "file"
  /\ search = Search(0, Last, eip)
  /\ lfile = 0 /\ rfile = Last
  /\ info = [function |-> Unknown, file |-> Unknown]
-----------------------------------------------------------------------------
Searching == phase \in {"file", "function"}
Wanted == IF phase = "file" THEN "SO" ELSE "FUN"

(* The entry of the type that is nearest below the middle of the range.    *)
TrueM == (search.l + search.r) \div 2
Matches == {i \in search.l .. TrueM : Type(i) = Wanted}
M == CHOOSE i \in Matches : \A j \in Matches : j <= i

Turn == Searching /\ search.l <= search.r

ProbeNoMatch ==
  /\ Turn
  /\ Matches = {}
  /\ search' = [search EXCEPT !.l = TrueM + 1]
  /\ UNCHANGED <<stabs, eip, phase, lfile, rfile, info>>

ProbeBelow ==
  /\ Turn
  /\ Matches # {} /\ Value(M) < search.addr
  /\ search' = [search EXCEPT !.any = TRUE, !.left = M, !.l = TrueM + 1]
  /\ UNCHANGED <<stabs, eip, phase, lfile, rfile, info>>

ProbeAbove ==
  /\ Turn
  /\ Matches # {} /\ Value(M) > search.addr
  /\ search' = [search EXCEPT !.any = TRUE, !.right = M - 1, !.r = M - 1]
  /\ UNCHANGED <<stabs, eip, phase, lfile, rfile, info>>

(* Fault: addr is a pointer to something of 8 bytes.                       *)
FaultyProbeExact ==
  /\ Turn
  /\ Matches # {} /\ Value(M) = search.addr
  /\ search' = [search EXCEPT !.any = TRUE, !.left = M, !.l = M, !.addr = @ + 8]
  /\ UNCHANGED <<stabs, eip, phase, lfile, rfile, info>>

(* addr is a pointer to a word: to increment it adds 4.                    *)
ProbeExact ==
  /\ Turn
  /\ Matches # {} /\ Value(M) = search.addr
  /\ search' = [search EXCEPT !.any = TRUE, !.left = M, !.l = M, !.addr = @ + 4]
  /\ UNCHANGED <<stabs, eip, phase, lfile, rfile, info>>

(* What stab_binsearch leaves in its two arguments.                        *)
Region ==
  LET s == search
      hits == {i \in s.left + 1 .. s.right : Type(i) = Wanted}
  IN  IF ~s.any THEN [left |-> s.left, right |-> s.left - 1]
      ELSE [left  |-> IF hits = {} THEN IF s.right < s.left THEN s.right ELSE s.left
                      ELSE CHOOSE i \in hits : \A j \in hits : j <= i,
            right |-> s.right]

FileFound ==
  /\ phase = "file" /\ search.l > search.r
  /\ lfile' = Region.left /\ rfile' = Region.right
  /\ phase' = IF Region.left = 0 THEN "done" ELSE "function"
  /\ search' = Search(Region.left, Region.right, eip)
  /\ UNCHANGED <<stabs, eip, info>>

(* Without a function the name is searched from the file's entry.          *)
FunctionFound ==
  /\ phase = "function" /\ search.l > search.r
  /\ phase' = "name"
  /\ info' = IF Region.left <= Region.right
               THEN [function |-> Region.left, file |-> Region.left]
               ELSE [function |-> Unknown, file |-> lfile]
  /\ UNCHANGED <<stabs, eip, search, lfile, rfile>>

(* The walk back from the function; the exercise to find the line before   *)
(* it is not done in this tree.                                            *)
NameFound ==
  /\ phase = "name"
  /\ LET names == {i \in lfile .. info.file : Type(i) \in {"SO", "SOL"}}
     IN  info' = [info EXCEPT !.file = IF names = {} THEN Unknown
                                       ELSE CHOOSE i \in names : \A j \in names : j <= i]
  /\ phase' = "done"
  /\ UNCHANGED <<stabs, eip, search, lfile, rfile>>

Done == phase = "done" /\ UNCHANGED vars

Next ==
  \/ ProbeNoMatch \/ ProbeBelow \/ ProbeAbove \/ ProbeExact
  \/ FileFound \/ FunctionFound \/ NameFound
  \/ Done

(* A loop of a kernel with interrupts off goes on.                         *)
Spec == Init /\ [][Next]_vars /\ WF_vars(Next)
-----------------------------------------------------------------------------
(* By definition: the last entry of a type, in a range, at or before the   *)
(* address.                                                                *)
LastAtOrBefore(t, lo, hi) ==
  LET S == {i \in lo .. hi : Type(i) = t /\ Value(i) <= eip}
  IN  IF S = {} THEN Unknown ELSE CHOOSE i \in S : \A j \in S : j <= i

(* After an exact hit the search goes on with an address 4 bytes higher,   *)
(* and once more if an entry has that address: it may then find an entry   *)
(* beyond the instruction, in a chain of entries at most 4 bytes apart.    *)
Overshot(t, lo, hi) ==
  LET at(v) == \E i \in lo .. hi : Type(i) = t /\ Value(i) = v
  IN  {i \in lo .. hi :
         /\ Type(i) = t /\ Value(i) > eip
         /\ \E k \in 1 .. Len(stabs) : /\ \A j \in 0 .. k - 1 : at(eip + 4 * j)
                                       /\ Value(i) <= eip + 4 * k}

Found(t, lo, hi) == {LastAtOrBefore(t, lo, hi)} \union Overshot(t, lo, hi)

(* The functions of the file that begins at entry i end at its next SO.    *)
EndOf(i) ==
  LET S == {j \in i + 1 .. Last : Type(j) = "SO"}
  IN  IF S = {} THEN Last ELSE CHOOSE j \in S : \A k \in S : j <= k

(* Before the first function of its file an instruction is said to be in a *)
(* function that has the file's entry and name, against kdebug.c:40-43.    *)
FunctionsFound ==
  LET end == EndOf(lfile) IN
  IF LastAtOrBefore("FUN", lfile, end) # Unknown THEN Found("FUN", lfile, end)
  ELSE IF \E i \in lfile .. end : Type(i) = "FUN" THEN {lfile} ELSE {Unknown}

TheName ==
  LET from == IF info.function = Unknown THEN lfile ELSE info.function
  IN  CHOOSE i \in lfile .. from :
        /\ Type(i) \in {"SO", "SOL"}
        /\ \A j \in i + 1 .. from : Type(j) \notin {"SO", "SOL"}

(* Every search ends, with the last file that begins at or before the      *)
(* instruction, the last function in it that does, and the name of the     *)
(* file this function is from.  It is wrong in two cases only, both        *)
(* against kdebug.c:40-43: at the first byte of a file or function that    *)
(* has another within 4 bytes, the search may overshoot to that one        *)
(* (kdebug.c:89); and before the first function of its file an instruction *)
(* is given to the file's own entry.                                       *)
InfoIsFound ==
  <>[](/\ phase = "done"
       /\ lfile \in Found("SO", 0, Last)
       /\ info.function \in FunctionsFound
       /\ info.file = TheName)
=============================================================================

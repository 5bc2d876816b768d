------------------------- MODULE WorkingSetProofs -------------------------
(***************************************************************************)
(* Proofs about the paging of trap.c and memory_manager.c, for any number  *)
(* of environments and pages, working sets, frames and page file of any    *)
(* size: what the working sets list and hold, and that programs see        *)
(* AbsMemory.                                                              *)
(***************************************************************************)
EXTENDS WorkingSet, FiniteSetTheorems, WellFoundedInduction, TLAPS

USE PagesAssumption, SizesAssumption, ContentsAssumption

Contents == Data \cup {Image, Zero, Junk}
Tables   == Range(TableOf)

(* The type of an environment.                                             *)
Process(e) ==
  [slots    : [Slots(e) -> Pages \cup {NoPage}],
   last     : 0 .. WSMax[e],
   memory   : [Pages -> Contents \cup {Absent}],
   used     : SUBSET Pages,
   modified : SUBSET Pages,
   file     : [Pages -> Contents \cup {Absent}],
   tables   : SUBSET Tables]

TypeOK ==
  /\ proc = [e \in Env |-> proc[e]]
  /\ \A e \in Env : proc[e] \in Process(e)
  /\ freeFrames \in Nat
  /\ lastClockIndex \in Nat
  /\ algorithm \in Algorithms

(* No page is listed twice, and only pages in memory are.                  *)
Listed(q) ==
  /\ \A s, t \in FullSlots(q) : q.slots[s] = q.slots[t] => s = t
  /\ WorkingSet(q) \subseteq Resident(q)

(* The slots fill up from the front.                                       *)
FilledFromFront(q) ==
  ~Full(q) => q.last \in DOMAIN q.slots /\ FullSlots(q) = 0 .. q.last-1

Inv ==
  /\ TypeOK
  /\ \A e \in Env : Listed(proc[e])
  /\ Running => \A e \in Env : proc[e].last < WSMax[e] /\ FilledFromFront(proc[e])
  /\ FramesAccountedFor

(* What is in memory is listed, and can be taken out of it.                *)
Backed(q) ==
  /\ Resident(q) \subseteq WorkingSet(q)
  /\ \A p \in Resident(q) :
       /\ p \in InFile(q)
       /\ TableOf[p] \in q.tables
       /\ q.memory[p] # q.file[p] => p \in q.modified

AllBacked == Running => \A e \in Env : Backed(proc[e])

-----------------------------------------------------------------------------
(* Counting.                                                               *)

(* There are finitely many of the pairs that FramesAccountedFor counts.    *)
LEMMA Finite ==
  /\ IsFiniteSet(Tables)
  /\ IsFiniteSet(Env \X Pages) /\ IsFiniteSet(Env \X Tables)
<1>1. TableOf \in Surjection(Pages, Tables)
  BY DEF Tables, Surjection, Range
<1>2. IsFiniteSet(Tables)
  BY <1>1, FS_Surjection
<1> QED BY <1>2, FS_Product

(* A subset of a finite set has a number of elements.                      *)
LEMMA SubsetCounted ==
  ASSUME NEW S, NEW X \in SUBSET S, IsFiniteSet(S)
  PROVE  IsFiniteSet(X) /\ Cardinality(X) \in Nat
BY FS_Subset, FS_CardinalityType

(* A set of pairs, and one more pair with e for every d in D.              *)
LEMMA PairsAdded ==
  ASSUME NEW A, NEW e, NEW D, IsFiniteSet(A), IsFiniteSet(D),
         \A d \in D : <<e, d>> \notin A
  PROVE  Cardinality(A \cup ({e} \X D)) = Cardinality(A) + Cardinality(D)
<1>1. IsFiniteSet({e}) /\ Cardinality({e}) = 1
  BY FS_Singleton
<1>2. /\ IsFiniteSet({e} \X D)
      /\ Cardinality({e} \X D) = Cardinality({e}) * Cardinality(D)
  BY <1>1, FS_Product
<1>3. A \cap ({e} \X D) = {}
  OBVIOUS
<1>4. Cardinality(A) \in Nat /\ Cardinality(D) \in Nat
  BY FS_CardinalityType
<1>5. Cardinality({}) = 0
  BY FS_EmptySet
<1>6. Cardinality(A \cup ({e} \X D)) = Cardinality(A) + Cardinality({e} \X D) - Cardinality(A \cap ({e} \X D))
  BY <1>2, FS_Union
<1>7. Cardinality({e} \X D) = Cardinality(D)
  BY <1>1, <1>2, <1>4
<1>8. Cardinality(A \cap ({e} \X D)) = 0
  BY <1>3, <1>5
<1> QED BY <1>4, <1>6, <1>7, <1>8

(* The frames an environment holds.                                        *)
Held(q) == Cardinality(Resident(q)) + Cardinality(q.tables)

(* What an environment holds is a finite set of pages and of tables.       *)
LEMMA HeldIs ==
  ASSUME NEW e \in Env, NEW q \in Process(e)
  PROVE  /\ Resident(q) \in SUBSET Pages /\ IsFiniteSet(Resident(q))
         /\ q.tables \in SUBSET Tables /\ IsFiniteSet(q.tables)
         /\ Cardinality(Resident(q)) \in Nat /\ Cardinality(q.tables) \in Nat
<1>1. Resident(q) \in SUBSET Pages /\ q.tables \in SUBSET Tables
  BY DEF Resident, Process
<1> QED BY <1>1, Finite, SubsetCounted

(* How the counts of FramesAccountedFor change with one environment.       *)
LEMMA CountsChange ==
  ASSUME TypeOK, NEW e \in Env, NEW r \in Process(e), proc' = [proc EXCEPT ![e] = r]
  PROVE  /\ Cardinality(AllResident) \in Nat /\ Cardinality(AllResident') \in Nat
         /\ Cardinality(AllTables) \in Nat /\ Cardinality(AllTables') \in Nat
         /\ Cardinality(AllResident') + Cardinality(Resident(proc[e]))
              = Cardinality(AllResident) + Cardinality(Resident(r))
         /\ Cardinality(AllTables') + Cardinality(proc[e].tables)
              = Cardinality(AllTables) + Cardinality(r.tables)
<1> DEFINE OthersResident == {x \in AllResident : x[1] # e}
           OthersTables   == {x \in AllTables : x[1] # e}
<1>1. /\ proc'[e] = r /\ proc[e] \in Process(e)
      /\ \A c \in Env : c # e => proc'[c] = proc[c]
  BY DEF TypeOK
<1>2. /\ \A x \in Env \X Pages : x[1] \in Env /\ x[2] \in Pages /\ x = <<x[1], x[2]>>
      /\ \A x \in Env \X Tables : x[1] \in Env /\ x[2] \in Tables /\ x = <<x[1], x[2]>>
  OBVIOUS
<1>3. /\ AllResident \in SUBSET (Env \X Pages) /\ AllResident' \in SUBSET (Env \X Pages)
      /\ AllTables \in SUBSET (Env \X Tables) /\ AllTables' \in SUBSET (Env \X Tables)
  BY DEF AllResident, AllTables, Tables
<1>4. \A x \in Env \X Pages : /\ x \in AllResident <=> x[2] \in Resident(proc[x[1]])
                              /\ x \in AllResident' <=> x[2] \in Resident(proc'[x[1]])
  BY DEF AllResident, Resident
<1>5. \A x \in Env \X Tables : /\ x \in AllTables <=> x[2] \in proc[x[1]].tables
                               /\ x \in AllTables' <=> x[2] \in proc'[x[1]].tables
  BY DEF AllTables, Tables
<1>6. /\ Resident(r) \in SUBSET Pages /\ Resident(proc[e]) \in SUBSET Pages
      /\ IsFiniteSet(Resident(r)) /\ IsFiniteSet(Resident(proc[e]))
      /\ r.tables \in SUBSET Tables /\ proc[e].tables \in SUBSET Tables
      /\ IsFiniteSet(r.tables) /\ IsFiniteSet(proc[e].tables)
      /\ Cardinality(Resident(r)) \in Nat /\ Cardinality(Resident(proc[e])) \in Nat
      /\ Cardinality(r.tables) \in Nat /\ Cardinality(proc[e].tables) \in Nat
  BY <1>1, HeldIs
<1>7. /\ OthersResident \in SUBSET (Env \X Pages) /\ OthersTables \in SUBSET (Env \X Tables)
      /\ \A d : <<e, d>> \notin OthersResident /\ <<e, d>> \notin OthersTables
  BY <1>3
<1>8. /\ AllResident = OthersResident \cup ({e} \X Resident(proc[e]))
      /\ AllResident' = OthersResident \cup ({e} \X Resident(r))
  BY <1>1, <1>2, <1>3, <1>4, <1>6
<1>9. /\ AllTables = OthersTables \cup ({e} \X proc[e].tables)
      /\ AllTables' = OthersTables \cup ({e} \X r.tables)
  BY <1>1, <1>2, <1>3, <1>5, <1>6
<1> HIDE DEF OthersResident, OthersTables
<1>10. /\ IsFiniteSet(OthersResident) /\ Cardinality(OthersResident) \in Nat
       /\ IsFiniteSet(OthersTables) /\ Cardinality(OthersTables) \in Nat
  BY <1>7, Finite, SubsetCounted
<1>11. /\ Cardinality(AllResident) = Cardinality(OthersResident) + Cardinality(Resident(proc[e]))
       /\ Cardinality(AllResident') = Cardinality(OthersResident) + Cardinality(Resident(r))
  BY <1>6, <1>7, <1>8, <1>10, PairsAdded
<1>12. /\ Cardinality(AllTables) = Cardinality(OthersTables) + Cardinality(proc[e].tables)
       /\ Cardinality(AllTables') = Cardinality(OthersTables) + Cardinality(r.tables)
  BY <1>6, <1>7, <1>9, <1>10, PairsAdded
<1> QED BY <1>6, <1>10, <1>11, <1>12

(* No frame gets lost if what an environment gains is taken from the free  *)
(* ones.                                                                   *)
LEMMA FramesBalance ==
  ASSUME TypeOK, FramesAccountedFor, NEW e \in Env, NEW r \in Process(e),
         proc' = [proc EXCEPT ![e] = r], freeFrames' \in Nat,
         freeFrames' + Held(r) = freeFrames + Held(proc[e])
  PROVE  FramesAccountedFor'
<1>1. proc[e] \in Process(e)
  BY DEF TypeOK
<1>2. /\ Cardinality(Resident(r)) \in Nat /\ Cardinality(Resident(proc[e])) \in Nat
      /\ Cardinality(r.tables) \in Nat /\ Cardinality(proc[e].tables) \in Nat
  BY <1>1, HeldIs
<1>3. /\ Cardinality(AllResident) \in Nat /\ Cardinality(AllResident') \in Nat
      /\ Cardinality(AllTables) \in Nat /\ Cardinality(AllTables') \in Nat
      /\ Cardinality(AllResident') + Cardinality(Resident(proc[e]))
           = Cardinality(AllResident) + Cardinality(Resident(r))
      /\ Cardinality(AllTables') + Cardinality(proc[e].tables)
           = Cardinality(AllTables) + Cardinality(r.tables)
  BY CountsChange
<1> QED BY <1>2, <1>3 DEF FramesAccountedFor, Held, TypeOK

(* Ranks number the elements of a set of naturals from 0 on.               *)
LEMMA RanksCount ==
  ASSUME NEW S \in SUBSET Nat, IsFiniteSet(S)
  PROVE  /\ Cardinality(S) \in Nat
         /\ \A s \in S : Rank(S, s) \in 0 .. Cardinality(S)-1
         /\ \A s, t \in S : Rank(S, s) = Rank(S, t) => s = t
         /\ \A k \in 0 .. Cardinality(S)-1 : \E s \in S : Rank(S, s) = k
<1> DEFINE Below(s) == {j \in S : j < s}
           n == Cardinality(S)
<1>1. \A s \in S : Below(s) \in SUBSET S /\ IsFiniteSet(Below(s)) /\ Cardinality(Below(s)) \in Nat
  BY SubsetCounted
<1>2. n \in Nat
  BY FS_CardinalityType
<1>3. ASSUME NEW s \in S, NEW X \in SUBSET S, Below(s) \cup {s} \subseteq X
      PROVE  Cardinality(Below(s)) < Cardinality(X)
  <2>1. s \notin Below(s) /\ IsFiniteSet(Below(s)) /\ Cardinality(Below(s)) \in Nat
    BY <1>1
  <2>2. Cardinality(Below(s) \cup {s}) = Cardinality(Below(s)) + 1
    BY <2>1, FS_AddElement
  <2>3. IsFiniteSet(X) /\ Cardinality(X) \in Nat
    BY SubsetCounted
  <2>4. Cardinality(Below(s) \cup {s}) <= Cardinality(X)
    BY <1>3, <2>3, FS_Subset
  <2> QED BY <2>1, <2>2, <2>3, <2>4
<1>4. \A s \in S : Rank(S, s) = Cardinality(Below(s))
  BY DEF Rank
<1>5. \A s \in S : Rank(S, s) \in 0 .. n-1
  <2> SUFFICES ASSUME NEW s \in S PROVE Rank(S, s) \in 0 .. n-1
    OBVIOUS
  <2>1. S \in SUBSET S /\ Below(s) \cup {s} \subseteq S
    OBVIOUS
  <2>2. Cardinality(Below(s)) < n
    BY <1>3, <2>1
  <2> HIDE DEF Below, n
  <2> QED BY <1>1, <1>2, <1>4, <2>2
<1>6. \A s, t \in S : s < t => Rank(S, s) < Rank(S, t)
  <2> SUFFICES ASSUME NEW s \in S, NEW t \in S, s < t PROVE Rank(S, s) < Rank(S, t)
    OBVIOUS
  <2>1. Below(t) \in SUBSET S /\ s \in Below(t)
    OBVIOUS
  <2>2. \A j \in S : j < s => j < t
    OBVIOUS
  <2>3. Below(s) \cup {s} \subseteq Below(t)
    BY <2>1, <2>2
  <2>4. Cardinality(Below(s)) < Cardinality(Below(t))
    BY <1>3, <2>1, <2>3
  <2> QED BY <1>4, <2>4
<1>7. \A s, t \in S : Rank(S, s) = Rank(S, t) => s = t
  <2> SUFFICES ASSUME NEW s \in S, NEW t \in S, Rank(S, s) = Rank(S, t) PROVE s = t
    OBVIOUS
  <2>1. Rank(S, s) \in Int /\ Rank(S, t) \in Int /\ s \in Int /\ t \in Int
    BY <1>2, <1>5
  <2>2. ~(s < t) /\ ~(t < s)
    BY <1>6, <2>1
  <2> QED BY <2>1, <2>2
<1> DEFINE f == [s \in S |-> Rank(S, s)]
<1>8. f \in Injection(S, 0 .. n-1)
  BY <1>5, <1>7 DEF Injection, IsInjective
<1>9. IsFiniteSet(0 .. n-1) /\ Cardinality(0 .. n-1) = n
  <2>1. 0 \in Int /\ n-1 \in Int
    BY <1>2
  <2>2. /\ IsFiniteSet(0 .. n-1)
        /\ Cardinality(0 .. n-1) = IF 0 > n-1 THEN 0 ELSE n-1-0+1
    BY <2>1, FS_Interval
  <2> HIDE DEF n
  <2> QED BY <1>2, <2>2
<1>10. f \in Surjection(S, 0 .. n-1)
  BY <1>8, <1>9, FS_Injection
<1>11. \A k \in 0 .. n-1 : \E s \in S : f[s] = k
  BY <1>10 DEF Surjection
<1> QED BY <1>2, <1>5, <1>7, <1>11

-----------------------------------------------------------------------------
(* What the operations do to an environment.                               *)

(* What a program finds in its pages.                                      *)
Value(q) == [p \in Pages |-> IF p \in Resident(q) THEN q.memory[p] ELSE q.file[p]]

(* The slots of a working set are 0 .. WSMax[e]-1, and hold pages.         *)
LEMMA SlotsAre ==
  ASSUME NEW e \in Env, NEW q \in Process(e)
  PROVE  /\ WSMax[e] \in Nat \ {0}
         /\ DOMAIN q.slots = 0 .. WSMax[e]-1
         /\ Size(q) = WSMax[e]
         /\ FullSlots(q) \subseteq 0 .. WSMax[e]-1
         /\ \A s \in FullSlots(q) : q.slots[s] \in Pages
         /\ WorkingSet(q) \subseteq Pages
<1>1. WSMax[e] \in Nat \ {0}
  OBVIOUS
<1>2. q.slots \in [0 .. WSMax[e]-1 -> Pages \cup {NoPage}]
  BY DEF Process, Slots
<1>3. Cardinality(0 .. WSMax[e]-1) = WSMax[e]
  <2>1. 0 \in Int /\ WSMax[e]-1 \in Int
    BY <1>1
  <2>2. Cardinality(0 .. WSMax[e]-1) =
          IF 0 > WSMax[e]-1 THEN 0 ELSE WSMax[e]-1-0+1
    BY <2>1, FS_Interval
  <2> QED BY <1>1, <2>2
<1> QED BY <1>1, <1>2, <1>3 DEF Size, FullSlots, WorkingSet

(* unmap_frame takes the pages R out of memory and nothing else.           *)
LEMMA UnmapIs ==
  ASSUME NEW e \in Env, NEW q \in Process(e), NEW R \in SUBSET Pages
  PROVE  LET r == Unmap(q, R) IN
         /\ r \in Process(e)
         /\ r.slots = q.slots /\ r.last = q.last
         /\ r.file = q.file /\ r.tables = q.tables
         /\ \A p \in Pages : r.memory[p] = IF p \in R THEN Absent ELSE q.memory[p]
         /\ r.modified = q.modified \ R
         /\ Resident(r) = Resident(q) \ R
<1> DEFINE r == Unmap(q, R)
<1>1. /\ r \in Process(e)
      /\ r.slots = q.slots /\ r.last = q.last
      /\ r.file = q.file /\ r.tables = q.tables
      /\ r.memory = [p \in Pages |-> IF p \in R THEN Absent ELSE q.memory[p]]
      /\ r.modified = q.modified \ R
  BY DEF Unmap, Process
<1> HIDE DEF r
<1>2. Resident(r) = Resident(q) \ R
  BY <1>1 DEF Resident
<1> QED BY <1>1, <1>2 DEF r

(* pageReplacement takes the page of slot v out of memory; the program     *)
(* does not see it.                                                        *)
LEMMA ReplacementIs ==
  ASSUME NEW e \in Env, NEW q \in Process(e), Listed(q), NEW v \in FullSlots(q)
  PROVE  LET r == pageReplacement(q, v) IN
         /\ r \in Process(e)
         /\ r.slots = [q.slots EXCEPT ![v] = NoPage]
         /\ r.last \in 0 .. WSMax[e]-1
         /\ r.tables = q.tables
         /\ q.slots[v] \in Resident(q)
         /\ Resident(r) = Resident(q) \ {q.slots[v]}
         /\ FullSlots(r) = FullSlots(q) \ {v}
         /\ Listed(r)
         /\ Backed(q) => Backed(r) /\ Value(r) = Value(q)
<1> DEFINE va == q.slots[v]
           w  == IF va \in q.modified THEN [q EXCEPT !.file[va] = q.memory[va]] ELSE q
           u  == Unmap(w, {va})
           r  == pageReplacement(q, v)
<1>1. va \in Pages /\ va \in Resident(q) /\ v \in DOMAIN q.slots
  BY SlotsAre DEF Listed, WorkingSet, FullSlots
<1>2. /\ w \in Process(e)
      /\ w.slots = q.slots /\ w.last = q.last /\ w.memory = q.memory /\ w.tables = q.tables
      /\ w.modified = q.modified
      /\ \A p \in Pages : w.file[p] = IF p = va /\ va \in q.modified THEN q.memory[va]
                                      ELSE q.file[p]
  BY <1>1 DEF Process
<1>3. Resident(w) = Resident(q)
  BY <1>2 DEF Resident
<1> HIDE DEF w, va
<1>4. /\ u \in Process(e)
      /\ u.slots = q.slots /\ u.last = q.last /\ u.file = w.file /\ u.tables = q.tables
      /\ \A p \in Pages : u.memory[p] = IF p = va THEN Absent ELSE q.memory[p]
      /\ u.modified = q.modified \ {va}
      /\ Resident(u) = Resident(q) \ {va}
  BY <1>1, <1>2, <1>3, UnmapIs
<1>5. r = [u EXCEPT !.slots[v] = NoPage, !.last = (@ + 1) % Size(q)]
  BY DEF pageReplacement, u, w, va
<1> HIDE DEF u, r
<1>6. (q.last + 1) % Size(q) \in 0 .. WSMax[e]-1
  BY SlotsAre DEF Process
<1>7. /\ r \in Process(e)
      /\ r.slots = [q.slots EXCEPT ![v] = NoPage] /\ r.last = (q.last + 1) % Size(q)
      /\ r.file = w.file /\ r.tables = q.tables /\ r.memory = u.memory
      /\ r.modified = u.modified
  <2>1. 0 .. WSMax[e]-1 \subseteq 0 .. WSMax[e]
    BY SlotsAre
  <2> QED BY <1>4, <1>5, <1>6, <2>1 DEF Process
<1>8. Resident(r) = Resident(q) \ {va}
  BY <1>4, <1>7 DEF Resident
<1>9. /\ DOMAIN r.slots = DOMAIN q.slots
      /\ r.slots[v] = NoPage
      /\ \A s \in DOMAIN q.slots : s # v => r.slots[s] = q.slots[s]
  BY <1>1, <1>7
<1>10. FullSlots(r) = FullSlots(q) \ {v}
  BY <1>9 DEF FullSlots
<1>11. WorkingSet(r) = WorkingSet(q) \ {va}
  <2>1. \A s \in FullSlots(q) \ {v} : q.slots[s] # va
    BY DEF Listed, va
  <2> QED BY <1>9, <1>10, <2>1 DEF WorkingSet, FullSlots, va
<1>12. Listed(r)
  <2>1. \A s, t \in FullSlots(r) : r.slots[s] = r.slots[t] => s = t
    BY <1>9, <1>10 DEF Listed, FullSlots
  <2> QED BY <1>8, <1>11, <2>1 DEF Listed
<1>13. ASSUME Backed(q) PROVE Backed(r) /\ Value(r) = Value(q)
  <2>1. Resident(r) \subseteq WorkingSet(r)
    BY <1>8, <1>11, <1>13 DEF Backed
  <2>2. ASSUME NEW p \in Resident(r)
        PROVE  /\ p \in InFile(r) /\ TableOf[p] \in r.tables
               /\ r.memory[p] # r.file[p] => p \in r.modified
    <3>1. p \in Pages /\ p # va /\ p \in Resident(q)
      BY <1>8 DEF Resident
    <3>2. r.memory[p] = q.memory[p] /\ r.file[p] = q.file[p]
      BY <1>2, <1>4, <1>7, <3>1
    <3> QED BY <1>4, <1>7, <1>13, <3>1, <3>2 DEF Backed, InFile
  <2>3. ASSUME NEW p \in Pages PROVE Value(r)[p] = Value(q)[p]
    <3>1. p # va => r.memory[p] = q.memory[p] /\ r.file[p] = q.file[p]
      BY <1>2, <1>4, <1>7
    <3>2. r.file[va] = q.memory[va]
      BY <1>1, <1>2, <1>7, <1>13 DEF Backed
    <3> QED BY <1>1, <1>8, <3>1, <3>2 DEF Value
  <2>4. Value(r) = Value(q)
    BY <2>3 DEF Value
  <2> QED BY <2>1, <2>2, <2>4 DEF Backed
<1> QED BY <1>1, <1>6, <1>7, <1>8, <1>10, <1>12, <1>13 DEF r, va

(* The content of the page faulted for.                                    *)
Loaded(q, p) == IF q.file[p] # Absent THEN q.file[p] ELSE Junk

(* The program finds what was there, or the first content of a stack page. *)
ValueLoaded(q, p) ==
  IF q.file[p] # Absent THEN Value(q) ELSE [Value(q) EXCEPT ![p] = Junk]

(* The page faulted for, read into memory.                                 *)
LEMMA LoadIs ==
  ASSUME NEW e \in Env, NEW q \in Process(e), Listed(q), NEW p \in Pages, p \notin Resident(q)
  PROVE  LET r == Load(q, p) IN
         /\ r \in Process(e)
         /\ r.slots = q.slots /\ r.last = q.last /\ r.tables = q.tables
         /\ r.file = q.file /\ r.modified = q.modified
         /\ r.memory = [q.memory EXCEPT ![p] = Loaded(q, p)]
         /\ Resident(r) = Resident(q) \cup {p}
         /\ Listed(r)
         /\ Value(r) = ValueLoaded(q, p)
<1> DEFINE r == Load(q, p)
           c == Loaded(q, p)
<1>1. c \in Contents /\ c # Absent
  BY DEF Process, Contents, Loaded
<1>2. r = [q EXCEPT !.memory[p] = c]
  BY DEF Load, Loaded
<1> HIDE DEF c, r
<1>3. /\ r \in Process(e)
      /\ r.slots = q.slots /\ r.last = q.last /\ r.tables = q.tables
      /\ r.file = q.file /\ r.modified = q.modified
      /\ r.memory = [q.memory EXCEPT ![p] = c]
  BY <1>1, <1>2 DEF Process
<1>4. \A x \in Pages : r.memory[x] = IF x = p THEN c ELSE q.memory[x]
  BY <1>3 DEF Process
<1>5. Resident(r) = Resident(q) \cup {p}
  BY <1>1, <1>4 DEF Resident
<1>6. Listed(r)
  BY <1>3, <1>5 DEF Listed, FullSlots, WorkingSet
<1>7. Value(q)[p] = q.file[p] /\ Value(q) \in [Pages -> Contents \cup {Absent}]
  BY DEF Value, Process
<1>8. \A x \in Pages : Value(r)[x] = IF x = p THEN c ELSE Value(q)[x]
  BY <1>3, <1>4, <1>5 DEF Value
<1>9. Value(r) = ValueLoaded(q, p)
  BY <1>7, <1>8 DEF Value, ValueLoaded, Loaded, c
<1> QED BY <1>3, <1>5, <1>6, <1>9 DEF r, c

(* The page faulted for, read in and in the page file.                     *)
LEMMA AddedIs ==
  ASSUME NEW e \in Env, NEW q \in Process(e), Listed(q), NEW p \in Pages, p \notin Resident(q)
  PROVE  LET r == AddToFile(Load(q, p), p) IN
         /\ r \in Process(e)
         /\ r.slots = q.slots /\ r.last = q.last /\ r.tables = q.tables
         /\ r.modified = q.modified
         /\ r.memory = [q.memory EXCEPT ![p] = Loaded(q, p)]
         /\ r.file = [q.file EXCEPT ![p] = Loaded(q, p)]
         /\ Loaded(q, p) # Absent
         /\ Resident(r) = Resident(q) \cup {p}
         /\ Listed(r)
         /\ Value(r) = ValueLoaded(q, p)
<1> DEFINE m == Load(q, p)
           r == AddToFile(m, p)
           c == Loaded(q, p)
<1>1. c \in Contents /\ c # Absent
  BY DEF Process, Contents, Loaded
<1>2. /\ m \in Process(e)
      /\ m.slots = q.slots /\ m.last = q.last /\ m.tables = q.tables
      /\ m.file = q.file /\ m.modified = q.modified
      /\ m.memory = [q.memory EXCEPT ![p] = c]
      /\ Resident(m) = Resident(q) \cup {p}
      /\ Listed(m)
      /\ Value(m) = ValueLoaded(q, p)
  BY LoadIs
<1> HIDE DEF m
<1>3. /\ r \in Process(e)
      /\ r.slots = q.slots /\ r.last = q.last /\ r.tables = q.tables
      /\ r.memory = m.memory /\ r.modified = q.modified
      /\ r.file = [q.file EXCEPT ![p] = c]
  BY <1>1, <1>2 DEF Process, Contents, AddToFile, Loaded
<1> HIDE DEF r
<1>4. Resident(r) = Resident(m)
  BY <1>3 DEF Resident
<1>5. Listed(r)
  BY <1>2, <1>3, <1>4 DEF Listed, FullSlots, WorkingSet
<1>6. \A x \in Pages : x \notin Resident(m) => x # p /\ r.file[x] = m.file[x]
  BY <1>2, <1>3 DEF Process
<1>7. Value(r) = Value(m)
  BY <1>3, <1>4, <1>6 DEF Value
<1> QED BY <1>1, <1>2, <1>3, <1>4, <1>5, <1>7 DEF r, m, c

(* The page entered in slot v.                                             *)
LEMMA PlacedIs ==
  ASSUME NEW e \in Env, NEW q \in Process(e), Listed(q), NEW p \in Pages, p \notin Resident(q),
         NEW v \in DOMAIN q.slots
  PROVE  LET r == SetEntry(AddToFile(Load(q, p), p), v, p) IN
         /\ r \in Process(e)
         /\ r.slots = [q.slots EXCEPT ![v] = p]
         /\ r.last = (v + 1) % WSMax[e]
         /\ r.tables = q.tables
         /\ Resident(r) = Resident(q) \cup {p}
         /\ FullSlots(r) = FullSlots(q) \cup {v}
         /\ Listed(r)
         /\ Value(r) = ValueLoaded(q, p)
         /\ Backed(q) /\ v \notin FullSlots(q) /\ TableOf[p] \in q.tables => Backed(r)
<1> DEFINE m == AddToFile(Load(q, p), p)
           r == SetEntry(m, v, p)
<1>1. /\ m \in Process(e)
      /\ m.slots = q.slots /\ m.last = q.last /\ m.tables = q.tables
      /\ m.modified = q.modified
      /\ m.memory = [q.memory EXCEPT ![p] = Loaded(q, p)]
      /\ m.file = [q.file EXCEPT ![p] = Loaded(q, p)]
      /\ Loaded(q, p) # Absent
      /\ Resident(m) = Resident(q) \cup {p}
      /\ Listed(m)
      /\ Value(m) = ValueLoaded(q, p)
  BY AddedIs
<1> HIDE DEF m
<1>2. Size(m) = WSMax[e] /\ v \in 0 .. WSMax[e]-1 /\ (v + 1) % WSMax[e] \in 0 .. WSMax[e]
  BY <1>1, SlotsAre
<1>3. /\ r \in Process(e)
      /\ r.slots = [q.slots EXCEPT ![v] = p] /\ r.last = (v + 1) % WSMax[e]
      /\ r.tables = q.tables /\ r.memory = m.memory /\ r.file = m.file
      /\ r.modified = m.modified
  BY <1>1, <1>2 DEF SetEntry, Process, Slots
<1> HIDE DEF r
<1>4. Resident(r) = Resident(q) \cup {p} /\ Value(r) = Value(m)
  BY <1>1, <1>3 DEF Resident, Value
<1>5. /\ DOMAIN r.slots = DOMAIN q.slots /\ r.slots[v] = p /\ p # NoPage
      /\ \A s \in DOMAIN q.slots : s # v => r.slots[s] = q.slots[s]
  BY <1>3
<1>6. FullSlots(r) = FullSlots(q) \cup {v}
  BY <1>5 DEF FullSlots
<1>7. \A s \in FullSlots(q) : q.slots[s] # p
  BY DEF Listed, WorkingSet
<1>8. Listed(r)
  <2>1. \A s, t \in FullSlots(r) : r.slots[s] = r.slots[t] => s = t
    BY <1>5, <1>6, <1>7 DEF Listed, FullSlots
  <2>2. WorkingSet(r) \subseteq Resident(r)
    <3> SUFFICES ASSUME NEW s \in FullSlots(r) PROVE r.slots[s] \in Resident(r)
      BY DEF WorkingSet
    <3>1. s # v => q.slots[s] \in WorkingSet(q) /\ r.slots[s] = q.slots[s]
      BY <1>5, <1>6 DEF WorkingSet, FullSlots
    <3> QED BY <1>4, <1>5, <3>1 DEF Listed
  <2> QED BY <2>1, <2>2 DEF Listed
<1>9. ASSUME Backed(q), v \notin FullSlots(q), TableOf[p] \in q.tables
      PROVE  Backed(r)
  <2>1. WorkingSet(q) \cup {p} \subseteq WorkingSet(r)
    <3>1. \A s \in FullSlots(q) : s \in FullSlots(r) /\ r.slots[s] = q.slots[s]
      BY <1>5, <1>6, <1>9 DEF FullSlots
    <3>2. v \in FullSlots(r) /\ r.slots[v] = p
      BY <1>5, <1>6
    <3> QED BY <3>1, <3>2 DEF WorkingSet
  <2>2. ASSUME NEW x \in Resident(r)
        PROVE  /\ x \in InFile(r) /\ TableOf[x] \in r.tables
               /\ r.memory[x] # r.file[x] => x \in r.modified
    <3>1. x \in Pages /\ (x = p \/ x \in Resident(q))
      BY <1>4 DEF Resident
    <3>2. /\ r.memory[x] = IF x = p THEN Loaded(q, p) ELSE q.memory[x]
          /\ r.file[x] = IF x = p THEN Loaded(q, p) ELSE q.file[x]
      BY <1>1, <1>3, <3>1 DEF Process
    <3>3. CASE x = p
      BY <1>1, <1>3, <1>9, <3>2, <3>3 DEF InFile
    <3>4. CASE x # p
      BY <1>1, <1>3, <1>9, <3>1, <3>2, <3>4 DEF Backed, InFile
    <3> QED BY <3>3, <3>4
  <2>3. Resident(r) \subseteq WorkingSet(r)
    BY <1>4, <1>9, <2>1 DEF Backed
  <2> QED BY <2>2, <2>3 DEF Backed
<1> QED BY <1>1, <1>3, <1>4, <1>6, <1>8, <1>9 DEF r, m

(* The entries of the slots S, moved to the front.                         *)
LEMMA CompactIs ==
  ASSUME NEW e \in Env, NEW q \in Process(e), Listed(q), NEW S \in SUBSET FullSlots(q)
  PROVE  LET c == Compact(q.slots, S)
             n == Cardinality(S)
         IN
         /\ n \in 0 .. WSMax[e]
         /\ c \in [Slots(e) -> Pages \cup {NoPage}]
         /\ \A k \in Slots(e) : c[k] # NoPage <=> k < n
         /\ \A k \in 0 .. n-1 : \E s \in S : c[k] = q.slots[s]
         /\ \A s \in S : \E k \in 0 .. n-1 : c[k] = q.slots[s]
         /\ \A j, k \in 0 .. n-1 : c[j] = c[k] => j = k
<1>1. /\ WSMax[e] \in Nat \ {0} /\ S \in SUBSET (0 .. WSMax[e]-1)
      /\ DOMAIN q.slots = Slots(e) /\ \A s \in S : q.slots[s] \in Pages
  BY SlotsAre DEF Slots
<1>2. S \in SUBSET Nat /\ IsFiniteSet(S) /\ Cardinality(S) \in 0 .. WSMax[e]
  <2>1. 0 \in Int /\ WSMax[e]-1 \in Int
    BY <1>1
  <2>2. /\ IsFiniteSet(0 .. WSMax[e]-1)
        /\ Cardinality(0 .. WSMax[e]-1) = IF 0 > WSMax[e]-1 THEN 0 ELSE WSMax[e]-1-0+1
    BY <2>1, FS_Interval
  <2>3. IsFiniteSet(S) /\ Cardinality(S) \in Nat /\ Cardinality(S) <= Cardinality(0 .. WSMax[e]-1)
    BY <1>1, <2>2, FS_Subset, FS_CardinalityType
  <2> QED BY <1>1, <2>2, <2>3
<1>3. /\ Cardinality(S) \in Nat
      /\ \A s \in S : Rank(S, s) \in 0 .. Cardinality(S)-1
      /\ \A s, t \in S : Rank(S, s) = Rank(S, t) => s = t
      /\ \A k \in 0 .. Cardinality(S)-1 : \E s \in S : Rank(S, s) = k
  BY ONLY <1>2, RanksCount
<1> DEFINE c == Compact(q.slots, S)
           n == Cardinality(S)
           at(k) == CHOOSE s \in S : Rank(S, s) = k
<1>4. /\ n \in 0 .. WSMax[e] /\ n \in Nat
      /\ \A s \in S : Rank(S, s) \in 0 .. n-1
      /\ \A s, t \in S : Rank(S, s) = Rank(S, t) => s = t
      /\ \A k \in 0 .. n-1 : \E s \in S : Rank(S, s) = k
  BY <1>2, <1>3
<1>5. c = [k \in Slots(e) |-> IF \E s \in S : Rank(S, s) = k THEN q.slots[at(k)] ELSE NoPage]
  BY <1>1 DEF Compact
<1> HIDE DEF c, n
<1>6. 0 .. n-1 \subseteq Slots(e)
  BY <1>1, <1>4 DEF Slots
<1>7. \A k \in 0 .. n-1 : at(k) \in S /\ Rank(S, at(k)) = k
  BY <1>4
<1>8. \A k \in Slots(e) : (\E s \in S : Rank(S, s) = k) <=> k < n
  BY <1>1, <1>4 DEF Slots
<1> HIDE DEF at
<1>9. ASSUME NEW k \in 0 .. n-1 PROVE c[k] = q.slots[at(k)]
  <2>1. k \in Slots(e) /\ \E s \in S : Rank(S, s) = k
    BY <1>6, <1>4
  <2> QED BY <1>5, <2>1
<1>10. \A k \in Slots(e) : ~(k < n) => c[k] = NoPage
  BY <1>5, <1>8
<1>11. \A k \in Slots(e) : k < n => k \in 0 .. n-1
  BY <1>1, <1>4 DEF Slots
<1>12. c \in [Slots(e) -> Pages \cup {NoPage}]
  BY <1>1, <1>4, <1>5, <1>7, <1>8, <1>11
<1>13. ASSUME NEW k \in Slots(e) PROVE c[k] # NoPage <=> k < n
  <2>1. ASSUME k < n PROVE c[k] # NoPage
    <3>1. k \in 0 .. n-1
      BY <1>11, <2>1
    <3>2. c[k] = q.slots[at(k)] /\ at(k) \in S
      BY <1>7, <1>9, <3>1
    <3> QED BY <1>1, <3>2
  <2> QED BY <1>10, <2>1
<1>14. \A k \in 0 .. n-1 : \E s \in S : c[k] = q.slots[s]
  BY <1>7, <1>9
<1>15. \A s \in S : \E k \in 0 .. n-1 : c[k] = q.slots[s]
  <2> SUFFICES ASSUME NEW s \in S PROVE \E k \in 0 .. n-1 : c[k] = q.slots[s]
    OBVIOUS
  <2>1. Rank(S, s) \in 0 .. n-1 /\ at(Rank(S, s)) = s
    BY <1>4, <1>7
  <2> QED BY <1>9, <2>1
<1>16. \A j, k \in 0 .. n-1 : c[j] = c[k] => j = k
  <2> SUFFICES ASSUME NEW j \in 0 .. n-1, NEW k \in 0 .. n-1, c[j] = c[k] PROVE j = k
    OBVIOUS
  <2>1. q.slots[at(j)] = q.slots[at(k)] /\ at(j) \in FullSlots(q) /\ at(k) \in FullSlots(q)
    BY <1>7, <1>9
  <2>2. at(j) = at(k)
    BY <2>1 DEF Listed
  <2> QED BY <1>7, <2>2
<1> QED BY <1>4, <1>12, <1>13, <1>14, <1>15, <1>16 DEF c, n

(* The pages R freed: out of the page file and out of memory, the slots    *)
(* compacted and the tables that became empty given back.                  *)
Unfiled(q, R) == [q EXCEPT !.file = [p \in Pages |-> IF p \in R THEN Absent ELSE @[p]]]
Freed(q, R) == freeResidentPagesInTheWorkingSet(Unfiled(q, R), R)
WithoutTables(q, R) == [Freed(q, R) EXCEPT !.tables = @ \ EmptyTables(Freed(q, R), R)]

(* freeMem before it gives tables back: the pages R are gone from the page *)
(* file, from memory and from the working set, which is filled from the    *)
(* front again.                                                            *)
LEMMA FreedIs ==
  ASSUME NEW e \in Env, NEW q \in Process(e), Listed(q), NEW R \in SUBSET Pages
  PROVE  LET r == Freed(q, R) IN
         /\ r \in Process(e)
         /\ r.last < WSMax[e] /\ FilledFromFront(r)
         /\ r.tables = q.tables /\ r.modified = q.modified \ (R \cap WorkingSet(q))
         /\ \A p \in Pages : /\ r.file[p] = IF p \in R THEN Absent ELSE q.file[p]
                             /\ r.memory[p] = IF p \in R \cap WorkingSet(q) THEN Absent
                                              ELSE q.memory[p]
         /\ R \cap WorkingSet(q) \subseteq Resident(q)
         /\ Resident(r) = Resident(q) \ (R \cap WorkingSet(q))
         /\ WorkingSet(r) = WorkingSet(q) \ R
         /\ Listed(r)
<1>6. {s \in FullSlots(q) : q.slots[s] \notin R} \in SUBSET FullSlots(q)
  OBVIOUS
<1> DEFINE f == Unfiled(q, R)
           W == R \cap WorkingSet(q)
           u == Unmap(f, W)
           keep == {s \in FullSlots(q) : q.slots[s] \notin R}
           n == Cardinality(keep)
           c == Compact(q.slots, keep)
           r == Freed(q, R)
<1>1. /\ f \in Process(e)
      /\ f.slots = q.slots /\ f.last = q.last /\ f.memory = q.memory /\ f.tables = q.tables
      /\ f.modified = q.modified
      /\ \A p \in Pages : f.file[p] = IF p \in R THEN Absent ELSE q.file[p]
  BY DEF Process, Unfiled
<1>2. /\ Resident(f) = Resident(q) /\ FullSlots(f) = FullSlots(q)
      /\ WorkingSet(f) = WorkingSet(q)
  BY <1>1 DEF Resident, FullSlots, WorkingSet
<1> HIDE DEF f
<1>3. W \in SUBSET Pages /\ W \subseteq Resident(q)
  BY DEF Listed
<1> HIDE DEF W
<1>4. /\ u \in Process(e)
      /\ u.slots = q.slots /\ u.last = q.last /\ u.tables = q.tables
      /\ u.file = f.file /\ u.modified = q.modified \ W
      /\ \A p \in Pages : u.memory[p] = IF p \in W THEN Absent ELSE q.memory[p]
      /\ Resident(u) = Resident(q) \ W
  BY <1>1, <1>2, <1>3, UnmapIs
<1> HIDE DEF u
<1>5. r = [u EXCEPT !.slots = c, !.last = n % Size(f)]
  <2>1. keep = {s \in FullSlots(f) : f.slots[s] \notin R}
    BY <1>1, <1>2
  <2>2. W = R \cap WorkingSet(f)
    BY <1>2 DEF W
  <2> QED BY <1>1, <2>1, <2>2 DEF Freed, freeResidentPagesInTheWorkingSet, f, u
<1> HIDE DEF r
<1>7. /\ n \in 0 .. WSMax[e]
      /\ c \in [Slots(e) -> Pages \cup {NoPage}]
      /\ \A k \in Slots(e) : c[k] # NoPage <=> k < n
      /\ \A k \in 0 .. n-1 : \E s \in keep : c[k] = q.slots[s]
      /\ \A s \in keep : \E k \in 0 .. n-1 : c[k] = q.slots[s]
      /\ \A j, k \in 0 .. n-1 : c[j] = c[k] => j = k
  <2>1. keep \in SUBSET FullSlots(q)
    BY <1>6
  <2> HIDE DEF keep
  <2> QED BY <2>1, CompactIs
<1>8. {q.slots[s] : s \in keep} = WorkingSet(q) \ R
  BY DEF WorkingSet
<1> HIDE DEF keep, n, c
<1>9. Size(f) = WSMax[e] /\ WSMax[e] \in Nat \ {0}
  BY <1>1, SlotsAre
<1>10. n % WSMax[e] \in 0 .. WSMax[e]-1 /\ (n < WSMax[e] => n % WSMax[e] = n)
  <2>1. n \in Nat
    BY <1>7, <1>9
  <2> QED BY <1>9, <2>1
<1>11. /\ r \in Process(e)
       /\ r.slots = c /\ r.last = n % WSMax[e] /\ r.tables = q.tables
       /\ r.file = f.file /\ r.memory = u.memory /\ r.modified = u.modified
  <2>1. n % WSMax[e] \in 0 .. WSMax[e]
    BY <1>9, <1>10
  <2>2. r = [u EXCEPT !.slots = c, !.last = n % WSMax[e]]
    BY <1>5, <1>9
  <2> QED BY <1>4, <1>7, <2>1, <2>2 DEF Process
<1>12. FullSlots(r) = 0 .. n-1 /\ DOMAIN r.slots = 0 .. WSMax[e]-1
  <2>1. DOMAIN r.slots = Slots(e) /\ Slots(e) = 0 .. WSMax[e]-1
    BY <1>7, <1>11 DEF Slots
  <2>2. FullSlots(r) = {k \in Slots(e) : k < n}
    BY <1>7, <1>11, <2>1 DEF FullSlots
  <2> QED BY <1>7, <1>9, <2>1, <2>2
<1>13. r.last < WSMax[e] /\ FilledFromFront(r)
  <2>1. ~Full(r) => n < WSMax[e]
    BY <1>7, <1>9, <1>12 DEF Full
  <2>2. r.last < WSMax[e] /\ (n < WSMax[e] => r.last = n)
    BY <1>7, <1>9, <1>10, <1>11
  <2> QED BY <1>7, <1>9, <1>12, <2>1, <2>2 DEF FilledFromFront
<1>14. Resident(r) = Resident(q) \ W
  BY <1>4, <1>11 DEF Resident
<1>15. WorkingSet(r) = WorkingSet(q) \ R
  <2>1. WorkingSet(r) = {c[k] : k \in 0 .. n-1}
    BY <1>11, <1>12 DEF WorkingSet
  <2>2. {c[k] : k \in 0 .. n-1} = {q.slots[s] : s \in keep}
    BY <1>7
  <2> QED BY <1>8, <2>1, <2>2
<1>16. Listed(r)
  <2>1. \A s, t \in FullSlots(r) : r.slots[s] = r.slots[t] => s = t
    BY <1>7, <1>11, <1>12
  <2> QED BY <1>14, <1>15, <2>1 DEF Listed, W
<1> QED BY <1>1, <1>3, <1>4, <1>11, <1>13, <1>14, <1>15, <1>16 DEF r, W

(* All of freeMem: only tables without pages are given back.               *)
LEMMA FreedWithTablesIs ==
  ASSUME NEW e \in Env, NEW q \in Process(e), Listed(q), NEW R \in SUBSET Pages
  PROVE  LET r == WithoutTables(q, R)
             W == R \cap WorkingSet(q)
             E == EmptyTables(Freed(q, R), R)
         IN
         /\ r \in Process(e)
         /\ r.last < WSMax[e] /\ FilledFromFront(r)
         /\ E \subseteq q.tables /\ r.tables = q.tables \ E
         /\ W \subseteq Resident(q) /\ Resident(r) = Resident(q) \ W
         /\ Listed(r)
         /\ Backed(q) => /\ Backed(r)
                         /\ Value(r) = [p \in Pages |-> IF p \in R THEN Absent ELSE Value(q)[p]]
<1> DEFINE f == Freed(q, R)
           r == WithoutTables(q, R)
           W == R \cap WorkingSet(q)
           E == EmptyTables(f, R)
<1>1. /\ f \in Process(e)
      /\ f.last < WSMax[e] /\ FilledFromFront(f)
      /\ f.tables = q.tables /\ f.modified = q.modified \ W
      /\ \A p \in Pages : /\ f.file[p] = IF p \in R THEN Absent ELSE q.file[p]
                          /\ f.memory[p] = IF p \in W THEN Absent ELSE q.memory[p]
      /\ W \subseteq Resident(q)
      /\ Resident(f) = Resident(q) \ W
      /\ WorkingSet(f) = WorkingSet(q) \ R
      /\ Listed(f)
  BY FreedIs
<1>2. r = [f EXCEPT !.tables = @ \ E]
  BY DEF WithoutTables
<1> HIDE DEF f, r
<1>3. E \subseteq q.tables /\ \A t \in E : \A p \in Resident(f) : TableOf[p] # t
  BY <1>1 DEF EmptyTables
<1> HIDE DEF E
<1>4. /\ r \in Process(e)
      /\ r.slots = f.slots /\ r.last = f.last /\ r.memory = f.memory /\ r.file = f.file
      /\ r.modified = f.modified
      /\ r.tables = q.tables \ E
  BY <1>1, <1>2 DEF Process
<1>5. /\ Resident(r) = Resident(f) /\ WorkingSet(r) = WorkingSet(f)
      /\ FullSlots(r) = FullSlots(f) /\ Listed(r) /\ FilledFromFront(r)
  BY <1>1, <1>4 DEF Resident, WorkingSet, FullSlots, Listed, FilledFromFront, Full
<1>6. ASSUME Backed(q) PROVE Backed(r)
  <2>1. ASSUME NEW p \in Resident(r)
        PROVE  /\ p \in WorkingSet(r) /\ p \in InFile(r) /\ TableOf[p] \in r.tables
               /\ r.memory[p] # r.file[p] => p \in r.modified
    <3>1. p \in Pages /\ p \in Resident(q) /\ p \in WorkingSet(q) /\ p \notin R
      BY <1>1, <1>5, <1>6 DEF Backed, Resident
    <3>2. r.memory[p] = q.memory[p] /\ r.file[p] = q.file[p] /\ (p \in q.modified => p \in r.modified)
      BY <1>1, <1>4, <3>1
    <3> QED BY <1>1, <1>3, <1>4, <1>5, <1>6, <3>1, <3>2 DEF Backed, InFile
  <2> QED BY <2>1 DEF Backed
<1>7. ASSUME Backed(q)
      PROVE  Value(r) = [p \in Pages |-> IF p \in R THEN Absent ELSE Value(q)[p]]
  <2>1. Resident(r) = Resident(q) \ R
    BY <1>1, <1>5, <1>7 DEF Backed
  <2>2. ASSUME NEW p \in Pages
        PROVE  Value(r)[p] = IF p \in R THEN Absent ELSE Value(q)[p]
    BY <1>1, <1>4, <2>1 DEF Value
  <2> QED BY <2>2 DEF Value
<1> QED BY <1>1, <1>3, <1>4, <1>5, <1>6, <1>7 DEF r, E, f

-----------------------------------------------------------------------------
(* The clock.                                                              *)

(* A nonempty set of naturals has a least element.                         *)
LEMMA LeastNatural ==
  ASSUME NEW S \in SUBSET Nat, S # {}
  PROVE  \E m \in S : \A n \in S : m <= n
<1>1. PICK R : R = OpToRel(<, Nat)
  OBVIOUS
<1>2. IsWellFoundedOn(R, Nat)
  BY <1>1, NatLessThanWellFounded
<1>3. PICK m \in S : \A n \in S : ~(<<n, m>> \in R)
  BY <1>2, WFMin
<1>4. \A a, b \in Nat : a < b => <<a, b>> \in R
  BY <1>1 DEF OpToRel
<1>5. ASSUME NEW n \in S PROVE m <= n
  <2>1. m \in Nat /\ n \in Nat /\ ~(n < m)
    BY <1>3, <1>4
  <2> QED BY <2>1
<1> QED BY <1>5

(* The victim is a slot of the working set.                                *)
LEMMA VictimIsASlot ==
  ASSUME NEW max \in Nat \ {0}, NEW hand \in 0 .. max,
         NEW U \in SUBSET SlotsOf(max), NEW M \in SUBSET SlotsOf(max)
  PROVE  Victim(max, hand, U, M) \in SlotsOf(max)
<1> DEFINE f(x) == Distance(max, hand, x)
<1>1. ASSUME NEW S \in SUBSET SlotsOf(max), S # {}
      PROVE  FirstFrom(max, hand, S) \in S
  <2>1. \A x \in S : f(x) \in Nat
    BY DEF SlotsOf, Distance
  <2> DEFINE T == {f(x) : x \in S}
  <2> HIDE DEF f
  <2>2. T \in SUBSET Nat /\ T # {}
    BY <1>1, <2>1
  <2> HIDE DEF T
  <2>3. \E m \in T : \A n \in T : m <= n
    BY <2>2, LeastNatural
  <2>4. \E x \in S : \A y \in S : f(x) <= f(y)
    BY <2>3 DEF T
  <2> QED BY <2>4 DEF FirstFrom, f
<1>2. SlotsOf(max) # {} /\ Clean(max, U, M) \subseteq SlotsOf(max) /\ Dirty(U, M) \subseteq SlotsOf(max)
  BY DEF SlotsOf, Clean, Dirty
<1> QED BY <1>1, <1>2 DEF Victim

(* Only the used bits change.                                              *)
LEMMA BitsAre ==
  ASSUME NEW e \in Env, NEW q \in Process(e), NEW U \in SUBSET Pages
  PROVE  LET r == [q EXCEPT !.used = U] IN
         /\ r \in Process(e)
         /\ r.slots = q.slots /\ r.last = q.last /\ r.tables = q.tables
         /\ Resident(r) = Resident(q) /\ FullSlots(r) = FullSlots(q)
         /\ Held(r) = Held(q) /\ Value(r) = Value(q)
         /\ Listed(r) <=> Listed(q)
         /\ FilledFromFront(r) <=> FilledFromFront(q)
         /\ Backed(r) <=> Backed(q)
<1> DEFINE r == [q EXCEPT !.used = U]
<1>1. /\ r \in Process(e)
      /\ r.slots = q.slots /\ r.last = q.last /\ r.tables = q.tables
      /\ r.memory = q.memory /\ r.file = q.file /\ r.modified = q.modified
  BY DEF Process
<1> HIDE DEF r
<1>2. /\ Resident(r) = Resident(q) /\ FullSlots(r) = FullSlots(q) /\ InFile(r) = InFile(q)
      /\ (Full(r) <=> Full(q)) /\ WorkingSet(r) = WorkingSet(q)
  BY <1>1 DEF Resident, FullSlots, InFile, Full, WorkingSet
<1>3. Held(r) = Held(q) /\ Value(r) = Value(q)
  BY <1>1, <1>2 DEF Held, Value
<1>4. Listed(r) <=> Listed(q)
  BY <1>1, <1>2 DEF Listed
<1>5. FilledFromFront(r) <=> FilledFromFront(q)
  BY <1>1, <1>2 DEF FilledFromFront
<1>6. Backed(r) <=> Backed(q)
  BY <1>1, <1>2 DEF Backed
<1> QED BY ONLY <1>1, <1>2, <1>3, <1>4, <1>5, <1>6 DEF r

(* modifiedClock chooses a full slot and changes only used bits.           *)
LEMMA ClockIs ==
  ASSUME NEW e \in Env, NEW q \in Process(e), Full(q), NEW hand \in 0 .. WSMax[e]
  PROVE  /\ Victim(Size(q), hand, SlotsWith(q, q.used), SlotsWith(q, q.modified)) \in FullSlots(q)
         /\ \E U \in SUBSET Pages : AfterClock(q, hand) = [q EXCEPT !.used = U]
<1> DEFINE used     == SlotsWith(q, q.used)
           modified == SlotsWith(q, q.modified)
           after    == UsedAfter(Size(q), hand, used, modified)
<1>1. /\ WSMax[e] \in Nat \ {0} /\ Size(q) = WSMax[e] /\ DOMAIN q.slots = 0 .. WSMax[e]-1
  BY SlotsAre
<1>2. used \in SUBSET SlotsOf(Size(q)) /\ modified \in SUBSET SlotsOf(Size(q))
  BY <1>1 DEF SlotsWith, SlotsOf
<1>3. \A s \in used : q.slots[s] \in Pages
  BY DEF SlotsWith, Process
<1> HIDE DEF used, modified
<1>4. Victim(Size(q), hand, used, modified) \in SlotsOf(Size(q))
  BY <1>1, <1>2, VictimIsASlot
<1>5. SlotsOf(Size(q)) = FullSlots(q)
  BY <1>1 DEF Full, SlotsOf
<1>6. after \subseteq used
  BY DEF UsedAfter
<1>7. AfterClock(q, hand) =
        [q EXCEPT !.used = (q.used \ WorkingSet(q)) \cup {q.slots[s] : s \in after}]
  BY DEF AfterClock, used, modified
<1> HIDE DEF after
<1>8. (q.used \ WorkingSet(q)) \cup {q.slots[s] : s \in after} \in SUBSET Pages
  BY <1>3, <1>6 DEF Process
<1>9. \E U \in SUBSET Pages : AfterClock(q, hand) = [q EXCEPT !.used = U]
  BY <1>7, <1>8
<1> QED BY <1>4, <1>5, <1>9 DEF used, modified

-----------------------------------------------------------------------------
(* One environment changes, and the frames with it.                        *)
Changes(e, r) ==
  /\ r \in Process(e)
  /\ proc' = [proc EXCEPT ![e] = r]
  /\ Listed(r)
  /\ freeFrames' \in Nat
  /\ freeFrames' + Held(r) = freeFrames + Held(proc[e])
  /\ lastClockIndex' \in Nat
  /\ algorithm' \in Algorithms
  /\ Running' => Running /\ r.last < WSMax[e] /\ FilledFromFront(r)

(* A change of one environment that balances keeps the invariant.          *)
LEMMA ChangesKeepInv ==
  ASSUME Inv, NEW e \in Env, NEW r, Changes(e, r)
  PROVE  Inv'
<1>1. /\ proc'[e] = r /\ r \in Process(e)
      /\ \A c \in Env : c # e => proc'[c] = proc[c]
      /\ proc' = [c \in Env |-> proc'[c]]
  BY DEF Changes, Inv, TypeOK
<1>2. TypeOK'
  BY <1>1 DEF Changes, Inv, TypeOK
<1>3. \A c \in Env : Listed(proc'[c])
  BY <1>1 DEF Changes, Inv
<1>4. Running' => \A c \in Env : proc'[c].last < WSMax[c] /\ FilledFromFront(proc'[c])
  BY <1>1 DEF Changes, Inv
<1>5. FramesAccountedFor'
  BY FramesBalance DEF Changes, Inv
<1> QED BY <1>2, <1>3, <1>4, <1>5 DEF Inv

(* The same of what is in memory.                                          *)
LEMMA ChangesKeepBacked ==
  ASSUME Inv, AllBacked, NEW e \in Env, NEW r, Changes(e, r), Running' => Backed(r)
  PROVE  AllBacked'
<1>1. /\ proc'[e] = r
      /\ \A c \in Env : c # e => proc'[c] = proc[c]
  BY DEF Changes, Inv, TypeOK
<1> QED BY <1>1 DEF Changes, AllBacked

(* What a program finds is as before, or a stack page was touched first.   *)
SameOrGrown(q, r, p) ==
  \/ Value(r) = Value(q)
  \/ /\ p \in Stack
     /\ Value(q)[p] = Absent
     /\ Value(r) = [Value(q) EXCEPT ![p] = Junk]

(* The page faulted for is brought in, or the machine stops.               *)
LEMMA PlacementChanges ==
  ASSUME Inv, Running, NEW e \in Env, NEW q \in Process(e), Listed(q),
         NEW p \in Pages, p \notin Resident(q),
         NEW frames \in Nat, frames + Held(q) = freeFrames + Held(proc[e]),
         NEW hand \in Nat, NEW v \in 0 .. WSMax[e],
         v \in DOMAIN q.slots =>
           FullSlots(q) = 0 .. v-1 \/ FullSlots(q) \cup {v} = DOMAIN q.slots,
         pagePlacement(e, q, frames, hand, p, v), algorithm' = algorithm
  PROVE  \E r : /\ Changes(e, r)
                /\ SameOrGrown(q, r, p)
                /\ Backed(q) /\ v \notin FullSlots(q) /\ TableOf[p] \in q.tables
                     => (Running' => Backed(r))
<1> DEFINE Becomes(r, f, h) == /\ proc' = [proc EXCEPT ![e] = r]
                               /\ freeFrames' = f
                               /\ lastClockIndex' = h
           loaded == Load(q, p)
           added  == AddToFile(loaded, p)
           placed == SetEntry(added, v, p)
<1>1. \/ /\ frames = 0
         /\ machine' = "noMemory"
         /\ Becomes(q, frames, hand)
      \/ /\ frames > 0
         /\ p \in InFile(q) \/ (p \in Stack /\ FileRoom > 0)
         /\ v \in DOMAIN q.slots
         /\ Becomes(placed, frames - 1, placed.last)
         /\ UNCHANGED machine
      \/ /\ frames > 0
         /\ p \in InFile(q) \/ (p \in Stack /\ FileRoom > 0)
         /\ machine' = "assertion"
         /\ Becomes([added EXCEPT !.last = v], frames - 1, hand)
      \/ /\ frames > 0
         /\ p \in Stack \ InFile(q)
         /\ machine' = "noPageFile"
         /\ Becomes(loaded, frames - 1, hand)
      \/ /\ frames > 0
         /\ machine' = "invalidAccess"
         /\ Becomes(q, frames, hand)
  BY DEF pagePlacement
<1>2. algorithm' \in Algorithms
  BY DEF Inv, TypeOK
<1>3. /\ Cardinality(Resident(q)) \in Nat /\ Cardinality(q.tables) \in Nat
      /\ Cardinality(Resident(q) \cup {p}) = Cardinality(Resident(q)) + 1
  <2>1. /\ IsFiniteSet(Resident(q))
        /\ Cardinality(Resident(q)) \in Nat /\ Cardinality(q.tables) \in Nat
    BY ONLY e \in Env, q \in Process(e), HeldIs
  <2>2. Cardinality(Resident(q) \cup {p}) = Cardinality(Resident(q)) + 1
    BY ONLY <2>1, p \notin Resident(q), FS_AddElement
  <2> QED BY <2>1, <2>2
<1>4. proc[e] \in Process(e) /\ freeFrames \in Nat /\ Held(proc[e]) \in Nat
  <2>1. proc[e] \in Process(e) /\ freeFrames \in Nat
    BY DEF Inv, TypeOK
  <2>2. Cardinality(Resident(proc[e])) \in Nat /\ Cardinality(proc[e].tables) \in Nat
    BY ONLY e \in Env, <2>1, HeldIs
  <2> QED BY ONLY <2>1, <2>2 DEF Held
<1>5. ASSUME NEW r \in Process(e), Resident(r) = Resident(q) \cup {p}, r.tables = q.tables,
             frames > 0
      PROVE  frames - 1 \in Nat /\ frames - 1 + Held(r) = freeFrames + Held(proc[e])
  <2>1. Held(r) = Held(q) + 1 /\ Held(q) \in Nat
    <3>1. Resident(r) = Resident(q) \cup {p} /\ r.tables = q.tables
      BY <1>5
    <3> QED BY ONLY <1>3, <3>1 DEF Held
  <2>2. frames \in Nat /\ frames + Held(q) = freeFrames + Held(proc[e])
    OBVIOUS
  <2> QED BY ONLY <1>4, <1>5, <2>1, <2>2
<1>6. p \in InFile(q) <=> q.file[p] # Absent
  BY DEF InFile
<1>7. Value(q)[p] = q.file[p]
  BY DEF Value
<1>8. p \in InFile(q) => ValueLoaded(q, p) = Value(q)
  BY <1>6 DEF ValueLoaded
<1>9. p \notin InFile(q) => /\ Value(q)[p] = Absent
                            /\ ValueLoaded(q, p) = [Value(q) EXCEPT ![p] = Junk]
  BY <1>6, <1>7 DEF ValueLoaded
<1> HIDE DEF loaded, added, placed
<1>10. CASE Becomes(q, frames, hand) /\ machine' \in {"noMemory", "invalidAccess"}
  <2>1. Changes(e, q) /\ ~Running'
    BY <1>2, <1>10 DEF Changes, Running
  <2> QED BY <2>1 DEF SameOrGrown
<1>11. CASE /\ frames > 0
            /\ p \in Stack \ InFile(q)
            /\ machine' = "noPageFile"
            /\ Becomes(loaded, frames - 1, hand)
  <2>1. /\ loaded \in Process(e) /\ loaded.tables = q.tables
        /\ Resident(loaded) = Resident(q) \cup {p}
        /\ Listed(loaded)
        /\ Value(loaded) = ValueLoaded(q, p)
    BY ONLY e \in Env, q \in Process(e), Listed(q), p \in Pages, p \notin Resident(q), LoadIs
       DEF loaded
  <2>2. frames - 1 \in Nat /\ frames - 1 + Held(loaded) = freeFrames + Held(proc[e])
    BY <1>5, <1>11, <2>1
  <2>3. Changes(e, loaded) /\ ~Running'
    BY <1>2, <1>11, <2>1, <2>2 DEF Changes, Running
  <2>4. SameOrGrown(q, loaded, p)
    BY <1>9, <1>11, <2>1 DEF SameOrGrown
  <2> QED BY <2>3, <2>4
<1>12. CASE /\ frames > 0
            /\ p \in InFile(q) \/ (p \in Stack /\ FileRoom > 0)
            /\ machine' = "assertion"
            /\ Becomes([added EXCEPT !.last = v], frames - 1, hand)
  <2> DEFINE r == [added EXCEPT !.last = v]
  <2>1. /\ added \in Process(e) /\ added.tables = q.tables
        /\ Resident(added) = Resident(q) \cup {p}
        /\ Listed(added)
        /\ Value(added) = ValueLoaded(q, p)
    BY ONLY e \in Env, q \in Process(e), Listed(q), p \in Pages, p \notin Resident(q), AddedIs
       DEF added, loaded
  <2>2. /\ r \in Process(e) /\ r.tables = added.tables /\ r.slots = added.slots
        /\ r.memory = added.memory /\ r.file = added.file
    BY <2>1 DEF Process
  <2> HIDE DEF r
  <2>3. /\ Resident(r) = Resident(q) \cup {p}
        /\ Listed(r)
        /\ Value(r) = ValueLoaded(q, p)
    BY <2>1, <2>2 DEF Resident, Listed, FullSlots, WorkingSet, Value
  <2>4. frames - 1 \in Nat /\ frames - 1 + Held(r) = freeFrames + Held(proc[e])
    BY <1>5, <1>12, <2>1, <2>2, <2>3
  <2>5. Changes(e, r) /\ ~Running'
    BY <1>2, <1>12, <2>2, <2>3, <2>4 DEF Changes, Running, r
  <2>6. SameOrGrown(q, r, p)
    BY <1>8, <1>9, <1>12, <2>3 DEF SameOrGrown
  <2> QED BY <2>5, <2>6
<1>13. CASE /\ frames > 0
            /\ p \in InFile(q) \/ (p \in Stack /\ FileRoom > 0)
            /\ v \in DOMAIN q.slots
            /\ Becomes(placed, frames - 1, placed.last)
            /\ UNCHANGED machine
  <2>1. /\ placed \in Process(e) /\ placed.tables = q.tables
        /\ placed.slots = [q.slots EXCEPT ![v] = p]
        /\ placed.last = (v + 1) % WSMax[e]
        /\ Resident(placed) = Resident(q) \cup {p}
        /\ FullSlots(placed) = FullSlots(q) \cup {v}
        /\ Listed(placed)
        /\ Value(placed) = ValueLoaded(q, p)
        /\ Backed(q) /\ v \notin FullSlots(q) /\ TableOf[p] \in q.tables => Backed(placed)
    BY <1>13, PlacedIs DEF placed, added, loaded
  <2>2. frames - 1 \in Nat /\ frames - 1 + Held(placed) = freeFrames + Held(proc[e])
    BY <1>5, <1>13, <2>1
  <2>3. /\ WSMax[e] \in Nat \ {0} /\ DOMAIN q.slots = 0 .. WSMax[e]-1
        /\ DOMAIN placed.slots = DOMAIN q.slots
    BY <2>1, SlotsAre
  <2>4. placed.last \in 0 .. WSMax[e]-1 /\ (v + 1 < WSMax[e] => placed.last = v + 1)
    <3>1. \A a \in Nat, b \in Nat \ {0} : a % b \in 0 .. b-1 /\ (a < b => a % b = a)
      BY ONLY TRUE
    <3>2. v + 1 \in Nat
      OBVIOUS
    <3>3. /\ (v + 1) % WSMax[e] \in 0 .. WSMax[e]-1
          /\ v + 1 < WSMax[e] => (v + 1) % WSMax[e] = v + 1
      BY ONLY WSMax[e] \in Nat \ {0}, <2>3, <3>1, <3>2
    <3> QED BY <2>1, <3>3
  <2>5. FilledFromFront(placed)
    <3>1. CASE FullSlots(q) \cup {v} = DOMAIN q.slots
      BY <2>1, <2>3, <3>1 DEF FilledFromFront, Full
    <3>2. CASE FullSlots(q) = 0 .. v-1 /\ v + 1 = WSMax[e]
      <4>1. FullSlots(placed) = 0 .. v
        BY <2>1, <3>2
      <4> QED BY <2>1, <2>3, <3>2, <4>1 DEF FilledFromFront, Full
    <3>3. CASE FullSlots(q) = 0 .. v-1 /\ v + 1 < WSMax[e]
      <4>1. FullSlots(placed) = 0 .. placed.last-1
        BY <2>1, <2>4, <3>3
      <4> QED BY <2>1, <2>3, <2>4, <3>3, <4>1 DEF FilledFromFront
    <3> QED BY <1>13, <2>3, <3>1, <3>2, <3>3
  <2>6. Changes(e, placed) /\ Running'
    BY <1>2, <1>13, <2>1, <2>2, <2>3, <2>4, <2>5 DEF Changes, Running
  <2>7. SameOrGrown(q, placed, p)
    BY <1>8, <1>9, <1>13, <2>1 DEF SameOrGrown
  <2> QED BY <2>1, <2>6, <2>7
<1> QED BY <1>1, <1>10, <1>11, <1>12, <1>13

(* A page fault: with the modified clock the program sees at most a stack  *)
(* page appear.                                                            *)
LEMMA PageFaultChanges ==
  ASSUME Inv, NEW e \in Env, NEW p \in Pages, page_fault_handler(e, p)
  PROVE  \E r : /\ Changes(e, r)
                /\ Backed(proc[e]) /\ algorithm = "MODIFIEDCLOCK"
                     => SameOrGrown(proc[e], r, p) /\ (Running' => Backed(r))
<1> DEFINE q == proc[e]
<1>1. /\ q \in Process(e) /\ Listed(q) /\ freeFrames \in Nat /\ lastClockIndex \in Nat
      /\ Running => q.last < WSMax[e] /\ FilledFromFront(q)
      /\ proc = [proc EXCEPT ![e] = q]
  BY DEF Inv, TypeOK
<1>2. Running /\ p \notin Resident(q) /\ TableOf[p] \in q.tables
  BY DEF page_fault_handler, PlaceInFreeSlot, ReplaceVictim, SearchForever, UseUnsetVictim, PageFault
<1>3. /\ WSMax[e] \in Nat \ {0} /\ Size(q) = WSMax[e] /\ DOMAIN q.slots = 0 .. WSMax[e]-1
  BY <1>1, SlotsAre
<1>4. CASE PlaceInFreeSlot(e, p)
  <2>1. /\ q.last \in 0 .. WSMax[e] /\ q.last \notin FullSlots(q)
        /\ FullSlots(q) = 0 .. q.last-1
    BY <1>1, <1>2, <1>3, <1>4 DEF PlaceInFreeSlot, FilledFromFront
  <2>2. pagePlacement(e, q, freeFrames, lastClockIndex, p, q.last) /\ algorithm' = algorithm
    BY <1>4 DEF PlaceInFreeSlot
  <2>3. freeFrames + Held(q) = freeFrames + Held(proc[e])
    OBVIOUS
  <2> HIDE DEF q
  <2>4. \E r : /\ Changes(e, r)
               /\ SameOrGrown(q, r, p)
               /\ Backed(q) /\ q.last \notin FullSlots(q) /\ TableOf[p] \in q.tables
                    => (Running' => Backed(r))
    BY <1>1, <1>2, <2>1, <2>2, <2>3, PlacementChanges
  <2> QED BY <1>2, <2>1, <2>4 DEF q
<1>5. CASE ReplaceVictim(e, p)
  <2> DEFINE v == Victim(Size(q), lastClockIndex, SlotsWith(q, q.used), SlotsWith(q, q.modified))
             a == AfterClock(q, lastClockIndex)
             r == pageReplacement(a, v)
  <2>1. /\ Full(q) /\ lastClockIndex \in 0 .. WSMax[e] /\ algorithm' = algorithm
        /\ pagePlacement(e, r, freeFrames + 1, r.last, p, v)
    BY <1>1, <1>3, <1>5 DEF ReplaceVictim
  <2> HIDE DEF q
  <2>2. v \in FullSlots(q) /\ \E U \in SUBSET Pages : a = [q EXCEPT !.used = U]
    BY <1>1, <2>1, ClockIs
  <2> HIDE DEF v, a
  <2>3. /\ a \in Process(e) /\ a.slots = q.slots /\ a.tables = q.tables
        /\ Resident(a) = Resident(q) /\ FullSlots(a) = FullSlots(q)
        /\ Held(a) = Held(q) /\ Value(a) = Value(q) /\ Listed(a)
        /\ Backed(a) <=> Backed(q)
    <3>1. PICK U \in SUBSET Pages : a = [q EXCEPT !.used = U]
      BY <2>2
    <3> QED BY <1>1, <3>1, BitsAre
  <2>4. /\ r \in Process(e)
        /\ r.slots = [a.slots EXCEPT ![v] = NoPage]
        /\ r.last \in 0 .. WSMax[e]-1
        /\ r.tables = a.tables
        /\ a.slots[v] \in Resident(a)
        /\ Resident(r) = Resident(a) \ {a.slots[v]}
        /\ FullSlots(r) = FullSlots(a) \ {v}
        /\ Listed(r)
        /\ Backed(a) => Backed(r) /\ Value(r) = Value(a)
    BY <2>2, <2>3, ReplacementIs
  <2> HIDE DEF r
  <2>5. /\ v \in DOMAIN q.slots /\ DOMAIN r.slots = DOMAIN q.slots
        /\ FullSlots(r) \cup {v} = DOMAIN r.slots
        /\ v \in 0 .. WSMax[e] /\ r.last \in Nat
    BY <1>1, <1>3, <2>1, <2>2, <2>3, <2>4, SlotsAre DEF Full, q
  <2>6. freeFrames + 1 \in Nat /\ freeFrames + 1 + Held(r) = freeFrames + Held(q)
    <3> DEFINE S == Resident(a)
               va == a.slots[v]
    <3>1. /\ IsFiniteSet(S) /\ Cardinality(S) \in Nat /\ Cardinality(a.tables) \in Nat
      BY <2>3, HeldIs
    <3>2. va \in S /\ Resident(r) = S \ {va}
      BY <2>4
    <3> HIDE DEF S, va
    <3>3. Cardinality(S \ {va}) = Cardinality(S) - 1
      BY <3>1, <3>2, FS_RemoveElement
    <3>4. /\ Cardinality(Resident(a)) \in Nat /\ Cardinality(a.tables) \in Nat
          /\ Cardinality(Resident(r)) = Cardinality(Resident(a)) - 1
      BY <3>1, <3>2, <3>3 DEF S
    <3>5. Held(r) = Held(a) - 1 /\ Held(a) \in Nat
      BY <2>4, <3>4 DEF Held
    <3> QED BY <1>1, <2>3, <3>5
  <2>7. p \notin Resident(r) /\ TableOf[p] \in r.tables /\ v \notin FullSlots(r)
    BY <1>2, <2>3, <2>4
  <2>8. \E s : /\ Changes(e, s)
               /\ SameOrGrown(r, s, p)
               /\ Backed(r) /\ v \notin FullSlots(r) /\ TableOf[p] \in r.tables
                    => (Running' => Backed(s))
    BY <1>2, <2>1, <2>4, <2>5, <2>6, <2>7, PlacementChanges DEF q
  <2>9. Backed(q) => Backed(r) /\ Value(r) = Value(q)
    BY <2>3, <2>4
  <2> QED BY <2>7, <2>8, <2>9 DEF SameOrGrown, q
<1>6. CASE SearchForever(e, p)
  <2>1. Changes(e, q) /\ ~Running'
    BY <1>1, <1>6 DEF SearchForever, Changes, Running, Inv, TypeOK
  <2> QED BY <2>1 DEF SameOrGrown
<1>7. CASE UseUnsetVictim(e, p)
  <2>1. PICK v \in 0 .. WSMax[e] : pagePlacement(e, q, freeFrames, lastClockIndex, p, v)
    BY <1>7 DEF UseUnsetVictim
  <2>2. /\ algorithm # "MODIFIEDCLOCK" /\ algorithm' = algorithm
        /\ v \in DOMAIN q.slots => FullSlots(q) \cup {v} = DOMAIN q.slots
    BY <1>7 DEF UseUnsetVictim, Full
  <2>3. freeFrames + Held(q) = freeFrames + Held(proc[e])
    OBVIOUS
  <2> HIDE DEF q
  <2>4. \E r : Changes(e, r)
    BY <1>1, <1>2, <2>1, <2>2, <2>3, PlacementChanges
  <2> QED BY <2>2, <2>4
<1> QED BY <1>4, <1>5, <1>6, <1>7 DEF page_fault_handler

(* An access sets the used bit and nothing else.                           *)
LEMMA ReadChanges ==
  ASSUME Inv, NEW e \in Env, NEW p \in Pages, Read(e, p)
  PROVE  \E r : /\ Changes(e, r)
                /\ Value(r) = Value(proc[e])
                /\ Backed(proc[e]) => Backed(r)
<1> DEFINE q == proc[e]
           r == [q EXCEPT !.used = q.used \cup {p}]
<1>1. q \in Process(e) /\ Running /\ UNCHANGED <<freeFrames, lastClockIndex, algorithm, machine>>
  BY DEF Read, Inv, TypeOK
<1>2. proc' = [proc EXCEPT ![e] = r]
  BY DEF Read, Inv, TypeOK
<1>3. q.used \cup {p} \in SUBSET Pages
  BY <1>1 DEF Process
<1> HIDE DEF q
<1>4. /\ r \in Process(e)
      /\ r.slots = q.slots /\ r.last = q.last /\ r.tables = q.tables
      /\ Held(r) = Held(q) /\ Value(r) = Value(q)
      /\ Listed(r) <=> Listed(q)
      /\ FilledFromFront(r) <=> FilledFromFront(q)
      /\ Backed(r) <=> Backed(q)
  BY <1>1, <1>3, BitsAre
<1> HIDE DEF r
<1>5. Changes(e, r)
  BY <1>1, <1>2, <1>4 DEF Changes, Inv, TypeOK, Running, q
<1> QED BY <1>4, <1>5 DEF q

(* A clock interrupt under LRU clears used bits and nothing else.          *)
LEMMA TimeStampsChange ==
  ASSUME Inv, NEW e \in Env, update_WS_time_stamps(e)
  PROVE  \E r : /\ Changes(e, r)
                /\ Value(r) = Value(proc[e])
                /\ Backed(proc[e]) => Backed(r)
<1> DEFINE q == proc[e]
           r == [q EXCEPT !.used = q.used \ WorkingSet(q)]
<1>1. q \in Process(e) /\ Running /\ UNCHANGED <<freeFrames, lastClockIndex, algorithm, machine>>
  BY DEF update_WS_time_stamps, Inv, TypeOK
<1>2. proc' = [proc EXCEPT ![e] = r]
  BY DEF update_WS_time_stamps, Inv, TypeOK
<1>3. q.used \ WorkingSet(q) \in SUBSET Pages
  BY <1>1 DEF Process
<1> HIDE DEF q
<1>4. /\ r \in Process(e)
      /\ r.slots = q.slots /\ r.last = q.last /\ r.tables = q.tables
      /\ Held(r) = Held(q) /\ Value(r) = Value(q)
      /\ Listed(r) <=> Listed(q)
      /\ FilledFromFront(r) <=> FilledFromFront(q)
      /\ Backed(r) <=> Backed(q)
  BY <1>1, <1>3, BitsAre
<1> HIDE DEF r
<1>5. Changes(e, r)
  BY <1>1, <1>2, <1>4 DEF Changes, Inv, TypeOK, Running, q
<1> QED BY <1>4, <1>5 DEF q

(* A program changes the page it writes, and its modified bit is set.      *)
LEMMA WriteChanges ==
  ASSUME Inv, NEW e \in Env, NEW p \in Pages, NEW d \in Data, Write(e, p, d)
  PROVE  \E r : /\ Changes(e, r)
                /\ Value(proc[e])[p] # Absent
                /\ Value(r) = [Value(proc[e]) EXCEPT ![p] = d]
                /\ Backed(proc[e]) => Backed(r)
<1> DEFINE q == proc[e]
           r == [q EXCEPT !.used = q.used \cup {p}, !.modified = q.modified \cup {p},
                          !.memory[p] = d]
<1>1. /\ q \in Process(e) /\ Running /\ p \in Resident(q) /\ Listed(q)
      /\ q.last < WSMax[e] /\ FilledFromFront(q) /\ freeFrames \in Nat
      /\ UNCHANGED <<freeFrames, lastClockIndex, algorithm, machine>>
  BY DEF Write, Inv, TypeOK
<1>2. proc' = [proc EXCEPT ![e] = r]
  <2>1. proc = [c \in Env |-> proc[c]]
    BY DEF Inv, TypeOK
  <2> QED BY ONLY <2>1, e \in Env, Write(e, p, d) DEF Write
<1> HIDE DEF q
<1>3. d \in Contents /\ d # Absent
  BY DEF Contents
<1>4. /\ r \in Process(e)
      /\ r.slots = q.slots /\ r.last = q.last /\ r.tables = q.tables
      /\ r.file = q.file /\ r.modified = q.modified \cup {p}
      /\ r.memory = [q.memory EXCEPT ![p] = d]
  BY <1>1, <1>3 DEF Process
<1> HIDE DEF r
<1>5. \A x \in Pages : r.memory[x] = IF x = p THEN d ELSE q.memory[x]
  BY <1>1, <1>4 DEF Process
<1>6. /\ Resident(r) = Resident(q) /\ FullSlots(r) = FullSlots(q)
      /\ WorkingSet(r) = WorkingSet(q) /\ (Full(r) <=> Full(q)) /\ InFile(r) = InFile(q)
  BY <1>1, <1>3, <1>4, <1>5 DEF Resident, FullSlots, WorkingSet, Full, InFile
<1>7. Held(r) = Held(q) /\ Listed(r) /\ FilledFromFront(r)
  BY <1>1, <1>4, <1>6 DEF Held, Listed, FilledFromFront
<1>8. Backed(q) => Backed(r)
  BY <1>4, <1>5, <1>6 DEF Backed, Resident
<1>9. Value(q)[p] # Absent /\ Value(q) \in [Pages -> Contents \cup {Absent}]
  BY <1>1 DEF Value, Resident, Process
<1>10. \A x \in Pages : Value(r)[x] = IF x = p THEN d ELSE Value(q)[x]
  BY <1>1, <1>4, <1>5, <1>6 DEF Value
<1>11. Value(r) = [Value(q) EXCEPT ![p] = d]
  BY <1>9, <1>10 DEF Value
<1>12. Changes(e, r)
  BY <1>1, <1>2, <1>4, <1>7 DEF Changes, Inv, TypeOK, Running, q
<1> QED BY <1>8, <1>9, <1>11, <1>12 DEF q

(* A table takes a frame and changes no page.                              *)
LEMMA TableFaultChanges ==
  ASSUME Inv, NEW e \in Env, NEW p \in Pages, table_fault_handler(e, p)
  PROVE  \E r : /\ Changes(e, r)
                /\ Value(r) = Value(proc[e])
                /\ Backed(proc[e]) => Backed(r)
<1> DEFINE q == proc[e]
           t == TableOf[p]
           r == [q EXCEPT !.tables = q.tables \cup {t}]
<1>1. /\ q \in Process(e) /\ Running /\ Listed(q) /\ t \in Tables /\ t \notin q.tables
      /\ q.last < WSMax[e] /\ FilledFromFront(q) /\ freeFrames \in Nat
      /\ UNCHANGED <<lastClockIndex, algorithm>>
      /\ proc = [proc EXCEPT ![e] = q]
  BY DEF table_fault_handler, Inv, TypeOK, Tables
<1>2. CASE freeFrames > 0
  <2>1. /\ proc' = [proc EXCEPT ![e] = r] /\ freeFrames' = freeFrames - 1
        /\ UNCHANGED machine
    BY <1>2 DEF table_fault_handler, Inv, TypeOK
  <2> HIDE DEF q, t
  <2>2. /\ r \in Process(e)
        /\ r.slots = q.slots /\ r.last = q.last /\ r.memory = q.memory
        /\ r.file = q.file /\ r.modified = q.modified
        /\ r.tables = q.tables \cup {t}
    BY <1>1 DEF Process
  <2> HIDE DEF r
  <2>3. /\ Resident(r) = Resident(q) /\ FullSlots(r) = FullSlots(q)
        /\ WorkingSet(r) = WorkingSet(q) /\ (Full(r) <=> Full(q)) /\ InFile(r) = InFile(q)
    BY <2>2 DEF Resident, FullSlots, WorkingSet, Full, InFile
  <2>4. Listed(r) /\ FilledFromFront(r) /\ Value(r) = Value(q)
    BY <1>1, <2>2, <2>3 DEF Listed, FilledFromFront, Value
  <2>5. /\ Cardinality(Resident(q)) \in Nat /\ Cardinality(q.tables) \in Nat
        /\ Cardinality(r.tables) = Cardinality(q.tables) + 1
    BY <1>1, <2>2, HeldIs, FS_AddElement
  <2>6. freeFrames' \in Nat /\ freeFrames' + Held(r) = freeFrames + Held(q)
    BY <1>1, <1>2, <2>1, <2>3, <2>5 DEF Held
  <2>7. Backed(q) => Backed(r)
    BY <2>2, <2>3 DEF Backed
  <2>8. Changes(e, r)
    BY <1>1, <2>1, <2>2, <2>4, <2>6 DEF Changes, Inv, TypeOK, Running, q
  <2> QED BY <2>4, <2>7, <2>8 DEF q
<1>3. CASE ~(freeFrames > 0)
  <2>1. Changes(e, q)
    BY <1>1, <1>3 DEF table_fault_handler, Changes, Running, Inv, TypeOK
  <2> QED BY <2>1
<1> QED BY <1>2, <1>3

(* The pages R of the contents c, and nothing else changed.                *)
SetTo(q, r, R, c) == Value(r) = [p \in Pages |-> IF p \in R THEN c ELSE Value(q)[p]]

(* Pages that were absent are cleared, all of R or the first that fit.     *)
LEMMA AllocateChanges ==
  ASSUME Inv, NEW e \in Env, NEW R \in SUBSET Pages, allocateMem(e, R)
  PROVE  \E r : /\ Changes(e, r)
                /\ Backed(proc[e]) =>
                     /\ Backed(r)
                     /\ \E A \in SUBSET R : /\ SetTo(proc[e], r, A, Zero)
                                            /\ \A p \in A : Value(proc[e])[p] = Absent
<1> DEFINE q == proc[e]
           A == {p \in R : Cardinality({x \in R : x < p}) < FileRoom}
           F == [p \in Pages |-> IF p \in A THEN Zero ELSE q.file[p]]
           r == [q EXCEPT !.file = F]
<1>1. /\ q \in Process(e) /\ Running /\ Listed(q) /\ R \cap InFile(q) = {}
      /\ q.last < WSMax[e] /\ FilledFromFront(q) /\ freeFrames \in Nat
      /\ UNCHANGED <<freeFrames, lastClockIndex, algorithm>>
  BY DEF allocateMem, Inv, TypeOK
<1>2. proc' = [proc EXCEPT ![e] = r]
  BY DEF allocateMem, Inv, TypeOK
<1>3. A \in SUBSET R
  OBVIOUS
<1> HIDE DEF q, A
<1>4. F \in [Pages -> Contents \cup {Absent}]
  BY <1>1 DEF Process, Contents
<1>5. \A p \in Pages : F[p] = IF p \in A THEN Zero ELSE q.file[p]
  OBVIOUS
<1> HIDE DEF F
<1>6. /\ r \in Process(e)
      /\ r.slots = q.slots /\ r.last = q.last /\ r.memory = q.memory
      /\ r.file = F /\ r.modified = q.modified /\ r.tables = q.tables
  BY <1>1, <1>4 DEF Process
<1> HIDE DEF r
<1>7. /\ Resident(r) = Resident(q) /\ FullSlots(r) = FullSlots(q)
      /\ WorkingSet(r) = WorkingSet(q) /\ (Full(r) <=> Full(q))
  BY <1>6 DEF Resident, FullSlots, WorkingSet, Full
<1>8. Held(r) = Held(q) /\ Listed(r) /\ FilledFromFront(r)
  BY <1>1, <1>6, <1>7 DEF Held, Listed, FilledFromFront
<1>9. machine' \in {machine, "noPageFile"}
  BY DEF allocateMem
<1>10. Changes(e, r)
  BY <1>1, <1>2, <1>6, <1>8, <1>9 DEF Changes, Inv, TypeOK, Running, q
<1>11. ASSUME Backed(q)
       PROVE  /\ Backed(r) /\ SetTo(q, r, A, Zero)
              /\ \A p \in A : Value(q)[p] = Absent
  <2>1. \A p \in Resident(q) : p \notin A /\ F[p] = q.file[p]
    BY <1>1, <1>3, <1>5, <1>11 DEF Backed, Resident
  <2>2. \A p \in Pages : p \in InFile(q) => p \in InFile(r)
    BY <1>5, <1>6 DEF InFile
  <2>3. Backed(r)
    BY <1>6, <1>7, <1>11, <2>1, <2>2 DEF Backed, Resident
  <2>4. ASSUME NEW p \in A PROVE Value(q)[p] = Absent
    BY <1>1, <1>3, <2>1 DEF Value, InFile
  <2>5. ASSUME NEW p \in Pages
        PROVE  Value(r)[p] = IF p \in A THEN Zero ELSE Value(q)[p]
    BY <1>5, <1>6, <1>7, <2>1 DEF Value
  <2>6. Value(r) = [p \in Pages |-> IF p \in A THEN Zero ELSE Value(q)[p]]
    BY <2>5 DEF Value
  <2> QED BY <2>3, <2>4, <2>6 DEF SetTo
<1> QED BY <1>3, <1>10, <1>11 DEF q

(* The pages R become absent, and their frames and empty tables free.      *)
LEMMA FreeChanges ==
  ASSUME Inv, NEW e \in Env, NEW R \in SUBSET Pages, freeMem(e, R)
  PROVE  \E r : /\ Changes(e, r)
                /\ Backed(proc[e]) => Backed(r) /\ SetTo(proc[e], r, R, Absent)
<1> DEFINE q == proc[e]
           r == WithoutTables(q, R)
           W == R \cap WorkingSet(q)
           E == EmptyTables(Freed(q, R), R)
<1>1. /\ q \in Process(e) /\ Running /\ Listed(q) /\ freeFrames \in Nat
      /\ UNCHANGED <<lastClockIndex, algorithm, machine>>
  BY DEF freeMem, Inv, TypeOK
<1>2. /\ proc' = [proc EXCEPT ![e] = r]
      /\ freeFrames' = freeFrames + Cardinality(W) + Cardinality(E)
  BY DEF freeMem, WithoutTables, Freed, Unfiled
<1> HIDE DEF q
<1>3. /\ r \in Process(e)
      /\ r.last < WSMax[e] /\ FilledFromFront(r)
      /\ E \subseteq q.tables /\ r.tables = q.tables \ E
      /\ W \subseteq Resident(q) /\ Resident(r) = Resident(q) \ W
      /\ Listed(r)
      /\ Backed(q) => /\ Backed(r)
                      /\ Value(r) = [p \in Pages |-> IF p \in R THEN Absent ELSE Value(q)[p]]
  BY ONLY <1>1, e \in Env, R \in SUBSET Pages, FreedWithTablesIs
<1> HIDE DEF r, W, E
<1>4. /\ IsFiniteSet(Resident(q)) /\ Cardinality(Resident(q)) \in Nat
      /\ IsFiniteSet(q.tables) /\ Cardinality(q.tables) \in Nat
  BY <1>1, HeldIs
<1>5. ASSUME NEW S, NEW X \in SUBSET S, IsFiniteSet(S), Cardinality(S) \in Nat
      PROVE  Cardinality(X) \in Nat /\ Cardinality(S \ X) = Cardinality(S) - Cardinality(X)
  <2>1. S \cap X = X
    OBVIOUS
  <2> QED BY <1>5, <2>1, SubsetCounted, FS_Difference
<1>6. /\ Cardinality(W) \in Nat /\ Cardinality(E) \in Nat
      /\ Cardinality(Resident(r)) = Cardinality(Resident(q)) - Cardinality(W)
      /\ Cardinality(r.tables) = Cardinality(q.tables) - Cardinality(E)
  BY <1>3, <1>4, <1>5
<1>7. freeFrames' \in Nat /\ freeFrames' + Held(r) = freeFrames + Held(q)
  BY <1>1, <1>2, <1>4, <1>6 DEF Held
<1>8. Changes(e, r)
  BY <1>1, <1>2, <1>3, <1>7 DEF Changes, Inv, TypeOK, Running, q
<1> QED BY <1>3, <1>8 DEF q, SetTo

-----------------------------------------------------------------------------
(* Every step of the system is a change of one environment, or of the      *)
(* algorithm alone.                                                        *)

LEMMA OneChanges ==
  ASSUME Inv, Next
  PROVE  \/ \E e \in Env : \E r : Changes(e, r)
         \/ UNCHANGED <<proc, freeFrames, lastClockIndex, machine>> /\ algorithm' \in Algorithms
<1>1. \A R \in HeapRanges : R \in SUBSET Pages
  BY DEF HeapRanges
<1> QED BY <1>1, ReadChanges, WriteChanges, TableFaultChanges, PageFaultChanges,
           AllocateChanges, FreeChanges, TimeStampsChange
        DEF Next, setPageReplacmentAlgorithm

(* Every step keeps the invariant.                                         *)
LEMMA NextKeepsInv == Inv /\ [Next]_vars => Inv'
<1> SUFFICES ASSUME Inv, [Next]_vars PROVE Inv'
  OBVIOUS
<1>1. CASE \E e \in Env : \E r : Changes(e, r)
  BY <1>1, ChangesKeepInv
<1>2. CASE UNCHANGED <<proc, freeFrames, lastClockIndex, machine>> /\ algorithm' \in Algorithms
  <2>1. AllResident' = AllResident /\ AllTables' = AllTables
    BY <1>2 DEF AllResident, AllTables
  <2> QED BY <1>2, <2>1 DEF Inv, TypeOK, Running, FramesAccountedFor
<1>3. UNCHANGED vars => UNCHANGED <<proc, freeFrames, lastClockIndex, machine>> /\ algorithm' \in Algorithms
  BY DEF vars, Inv, TypeOK
<1> QED BY <1>1, <1>2, <1>3, OneChanges

(* An environment starts with nothing in memory.                           *)
LEMMA NewProcessIs ==
  ASSUME NEW e \in Env
  PROVE  LET q == NewProcess(e) IN
         /\ q \in Process(e) /\ q.last = 0
         /\ Resident(q) = {} /\ FullSlots(q) = {} /\ q.tables = {}
         /\ Listed(q) /\ FilledFromFront(q) /\ Backed(q)
<1> DEFINE q == NewProcess(e)
<1>1. q \in Process(e) /\ q.last = 0 /\ q.tables = {}
  BY DEF NewProcess, Process, Contents
<1>2. Resident(q) = {} /\ FullSlots(q) = {}
  BY DEF NewProcess, Resident, FullSlots
<1>3. DOMAIN q.slots = 0 .. WSMax[e]-1 /\ WSMax[e] \in Nat \ {0}
  BY <1>1, SlotsAre
<1> HIDE DEF q
<1> QED BY <1>1, <1>2, <1>3 DEF Listed, FilledFromFront, Backed, WorkingSet, q

(* The initial states satisfy it.                                          *)
LEMMA InitInv == Init => Inv
<1> SUFFICES ASSUME Init PROVE Inv
  OBVIOUS
<1>1. \A e \in Env : proc[e] = NewProcess(e)
  BY DEF Init
<1>2. TypeOK
  BY <1>1, NewProcessIs DEF Init, TypeOK
<1>3. \A e \in Env : Listed(proc[e]) /\ proc[e].last < WSMax[e] /\ FilledFromFront(proc[e])
  <2> SUFFICES ASSUME NEW e \in Env
               PROVE  Listed(proc[e]) /\ proc[e].last < WSMax[e] /\ FilledFromFront(proc[e])
    OBVIOUS
  <2>1. WSMax[e] \in Nat \ {0}
    OBVIOUS
  <2> QED BY <1>1, <2>1, NewProcessIs
<1>4. AllResident = {} /\ AllTables = {}
  <2>1. \A e \in Env : Resident(proc[e]) = {} /\ proc[e].tables = {}
    BY <1>1, NewProcessIs
  <2> QED BY <2>1 DEF AllResident, AllTables
<1>5. FramesAccountedFor
  BY <1>4, FS_EmptySet DEF FramesAccountedFor, Init
<1> QED BY <1>2, <1>3, <1>5 DEF Inv

(* At the start nothing is in memory, so all of it is backed.              *)
LEMMA InitBacked == Init => AllBacked
BY NewProcessIs DEF Init, AllBacked

(* With the modified clock every step keeps what is in memory listed and   *)
(* backed.                                                                 *)
LEMMA NextKeepsBacked ==
  Inv /\ AllBacked /\ algorithm = "MODIFIEDCLOCK" /\ [Next]_vars => AllBacked'
<1> SUFFICES ASSUME Inv, AllBacked, algorithm = "MODIFIEDCLOCK", [Next]_vars PROVE AllBacked'
  OBVIOUS
<1>1. ASSUME NEW e \in Env, NEW r, Changes(e, r),
             Running => (Backed(proc[e]) => (Running' => Backed(r)))
      PROVE  AllBacked'
  <2>1. Running' => Backed(r)
    BY <1>1 DEF AllBacked, Changes
  <2> QED BY <1>1, <2>1, ChangesKeepBacked
<1>2. ASSUME UNCHANGED <<proc, machine>> PROVE AllBacked'
  BY <1>2 DEF AllBacked, Running
<1>3. \A R \in HeapRanges : R \in SUBSET Pages
  BY DEF HeapRanges
<1>4. CASE Next
  BY <1>1, <1>2, <1>3, <1>4, ReadChanges, WriteChanges, TableFaultChanges, PageFaultChanges,
     AllocateChanges, FreeChanges, TimeStampsChange DEF Next, setPageReplacmentAlgorithm
<1> QED BY <1>2, <1>4 DEF vars

-----------------------------------------------------------------------------
(* The inductive invariant: no slot lists a page twice or one that is not  *)
(* in memory, and while the machine runs the slots are filled from the     *)
(* front, whatever algorithms are chosen.                                  *)
THEOREM WorkingSetsInvariant == Spec => []Inv
BY InitInv, NextKeepsInv, PTL DEF Spec

(* No frame is lost or used twice, whatever algorithms are chosen          *)
(* (memory_manager.c:419-462, 678-692, 808-835).                           *)
THEOREM NoFrameLost == Spec => []FramesAccountedFor
<1>1. Inv => FramesAccountedFor
  BY DEF Inv
<1> QED BY <1>1, WorkingSetsInvariant, PTL

(* Nobody chooses another algorithm: with the others page_fault_handler    *)
(* uses a victim that was never assigned, and drops a page from its slot.  *)
OnlyModifiedClock == [](algorithm = "MODIFIEDCLOCK")

(* With the modified clock every page in memory is listed in a slot, has a *)
(* page in the page file that is equal or a modified bit, and its table.   *)
THEOREM PagesInvariant == Spec /\ OnlyModifiedClock => []AllBacked
BY InitBacked, NextKeepsBacked, WorkingSetsInvariant, PTL DEF Spec, OnlyModifiedClock

(* With the modified clock the working set lists the pages in memory, each *)
(* once, and the slot page_last_WS_index names is empty as long as there   *)
(* is room (trap.c:526-591, memory_manager.c:784-807).                     *)
THEOREM WorkingSetsListMemory == Spec /\ OnlyModifiedClock => []WorkingSetIsMemory
<1>1. Inv /\ AllBacked => WorkingSetIsMemory
  <2> SUFFICES ASSUME Inv, AllBacked, Running, NEW e \in Env
               PROVE  /\ WorkingSet(proc[e]) = Resident(proc[e])
                      /\ Cardinality(FullSlots(proc[e])) = Cardinality(WorkingSet(proc[e]))
                      /\ NextSlotIsFree(proc[e])
    BY DEF WorkingSetIsMemory
  <2> DEFINE q == proc[e]
             S == FullSlots(q)
             T == WorkingSet(q)
             f == [s \in S |-> q.slots[s]]
  <2>1. q \in Process(e) /\ Listed(q) /\ FilledFromFront(q) /\ Backed(q)
    BY DEF Inv, TypeOK, AllBacked
  <2>2. T = Resident(q)
    BY <2>1 DEF Listed, Backed
  <2>3. f \in Injection(S, T) /\ f \in Surjection(S, T)
    <3>1. f \in [S -> T] /\ \A s, t \in S : f[s] = f[t] => s = t
      BY <2>1 DEF Listed, WorkingSet
    <3>2. \A y \in T : \E s \in S : f[s] = y
      BY DEF WorkingSet
    <3> QED BY <3>1, <3>2 DEF Injection, Surjection, IsInjective
  <2>4. IsFiniteSet(T)
    BY <2>1, <2>2, HeldIs
  <2>5. Cardinality(S) = Cardinality(T)
    BY <2>3, <2>4, FS_Injection
  <2>6. NextSlotIsFree(q)
    <3>1. /\ WSMax[e] \in Nat \ {0} /\ DOMAIN q.slots = 0 .. WSMax[e]-1
      BY <2>1, SlotsAre
    <3> QED BY <2>1, <3>1 DEF NextSlotIsFree, FilledFromFront, FullSlots
  <2> QED BY <2>2, <2>5, <2>6
<1> QED BY <1>1, WorkingSetsInvariant, PagesInvariant, PTL

(* With the modified clock every page in memory can be written back and    *)
(* found again (trap.c:529-535, memory_manager.c:808-835).                 *)
THEOREM MemoryStaysBacked == Spec /\ OnlyModifiedClock => []MemoryBacked
<1>1. AllBacked => MemoryBacked
  BY DEF AllBacked, Backed, MemoryBacked
<1> QED BY <1>1, PagesInvariant, PTL

-----------------------------------------------------------------------------
(* The abstract memory.                                                    *)

(* A change of one environment changes its part of the abstract memory.    *)
LEMMA ValueChanges ==
  ASSUME Inv, NEW e \in Env, NEW r, Changes(e, r)
  PROVE  /\ value[e] = Value(proc[e])
         /\ value' = [value EXCEPT ![e] = Value(r)]
<1>1. /\ proc'[e] = r
      /\ \A c \in Env : c # e => proc'[c] = proc[c]
  BY DEF Changes, Inv, TypeOK
<1>2. value = [c \in Env |-> Value(proc[c])]
  BY DEF value, Value
<1>3. value' = [c \in Env |-> Value(proc'[c])]
  BY DEF value, Value, Resident
<1> QED BY <1>1, <1>2, <1>3

(* Every step is one of the abstract memory, or does not show.             *)
LEMMA StepImplementsAbs ==
  ASSUME Inv, AllBacked, algorithm = "MODIFIEDCLOCK", [Next]_vars
  PROVE  [Abs!Next]_value
<1>1. ASSUME NEW e \in Env, NEW r, Changes(e, r), Value(r) = Value(proc[e])
      PROVE  value' = value
  <2>1. value[e] = Value(proc[e]) /\ value' = [value EXCEPT ![e] = Value(r)]
    BY <1>1, ValueChanges
  <2> QED BY <1>1, <2>1 DEF value
<1>2. ASSUME NEW e \in Env, NEW p \in Pages, page_fault_handler(e, p)
      PROVE  (Abs!GrowStack(e, p) /\ p \in Stack) \/ value' = value
  <2>1. Backed(proc[e])
    BY <1>2 DEF AllBacked, page_fault_handler, PlaceInFreeSlot, ReplaceVictim, SearchForever,
                UseUnsetVictim, PageFault
  <2>2. PICK r : Changes(e, r) /\ SameOrGrown(proc[e], r, p)
    BY <1>2, <2>1, PageFaultChanges
  <2>3. value[e] = Value(proc[e]) /\ value' = [value EXCEPT ![e] = Value(r)]
    BY <2>2, ValueChanges
  <2> QED BY <1>1, <2>2, <2>3 DEF SameOrGrown, Abs!GrowStack
<1>3. ASSUME NEW e \in Env, NEW p \in Pages, NEW d \in Data, Write(e, p, d)
      PROVE  Abs!Write(e, p, d)
  <2>1. PICK r : /\ Changes(e, r) /\ Value(proc[e])[p] # Absent
                 /\ Value(r) = [Value(proc[e]) EXCEPT ![p] = d]
    BY <1>3, WriteChanges
  <2>2. value[e] = Value(proc[e]) /\ value' = [value EXCEPT ![e] = Value(r)]
    BY <2>1, ValueChanges
  <2> QED BY <2>1, <2>2 DEF Abs!Write
<1>4. ASSUME NEW e \in Env, NEW R \in HeapRanges, allocateMem(e, R)
      PROVE  \E A \in SUBSET Heap : Abs!Allocate(e, A)
  <2>1. R \in SUBSET Heap /\ R \in SUBSET Pages /\ Backed(proc[e])
    BY <1>4 DEF HeapRanges, AllBacked, allocateMem
  <2>2. PICK r : \E A \in SUBSET R : /\ Changes(e, r)
                                    /\ SetTo(proc[e], r, A, Zero)
                                    /\ \A p \in A : Value(proc[e])[p] = Absent
    BY <1>4, <2>1, AllocateChanges
  <2>3. PICK A \in SUBSET R : /\ Changes(e, r)
                              /\ SetTo(proc[e], r, A, Zero)
                              /\ \A p \in A : Value(proc[e])[p] = Absent
    BY <2>2
  <2>4. value[e] = Value(proc[e]) /\ value' = [value EXCEPT ![e] = Value(r)]
    BY <2>3, ValueChanges
  <2>5. A \in SUBSET Heap /\ Abs!Allocate(e, A)
    BY <2>1, <2>3, <2>4 DEF SetTo, Abs!Allocate, Abs!SetAll
  <2> QED BY <2>5
<1>5. ASSUME NEW e \in Env, NEW R \in HeapRanges, freeMem(e, R)
      PROVE  R \in SUBSET Heap /\ Abs!Free(e, R)
  <2>1. R \in SUBSET Heap /\ R \in SUBSET Pages /\ Backed(proc[e])
    BY <1>5 DEF HeapRanges, AllBacked, freeMem
  <2>2. PICK r : Changes(e, r) /\ SetTo(proc[e], r, R, Absent)
    BY <1>5, <2>1, FreeChanges
  <2>3. value[e] = Value(proc[e]) /\ value' = [value EXCEPT ![e] = Value(r)]
    BY <2>2, ValueChanges
  <2> QED BY <2>1, <2>2, <2>3 DEF SetTo, Abs!Free, Abs!SetAll
<1>6. ASSUME NEW e \in Env, NEW p \in Pages, Read(e, p) \/ table_fault_handler(e, p)
      PROVE  value' = value
  BY <1>1, <1>6, ReadChanges, TableFaultChanges
<1>7. ASSUME NEW e \in Env, update_WS_time_stamps(e)
      PROVE  value' = value
  BY <1>1, <1>7, TimeStampsChange
<1>8. ASSUME UNCHANGED proc PROVE value' = value
  BY <1>8 DEF value, Resident
<1> QED BY <1>2, <1>3, <1>4, <1>5, <1>6, <1>7, <1>8
        DEF Next, setPageReplacmentAlgorithm, vars, Abs!Next

(* With the modified clock a program finds in its pages what AbsMemory     *)
(* says: moving them between memory and the page file does not show        *)
(* (trap.c:526-591).                                                       *)
THEOREM MemoryImplementsAbs == Spec /\ OnlyModifiedClock => AbsSpec
<1>1. Init => Abs!Init
  <2> SUFFICES ASSUME Init PROVE Abs!Init
    OBVIOUS
  <2>1. ASSUME NEW e \in Env
        PROVE  value[e] = [p \in Pages |-> IF p \in Heap \cup Stack THEN Absent ELSE Image]
    <3>1. proc[e] = NewProcess(e) /\ Resident(proc[e]) = {}
      BY NewProcessIs DEF Init
    <3>2. proc[e].file = [p \in Pages |-> IF p \in Heap \cup Stack THEN Absent ELSE Image]
      BY <3>1 DEF NewProcess
    <3> QED BY <3>1, <3>2 DEF value
  <2> QED BY <2>1 DEF Abs!Init, value
<1>2. Inv /\ AllBacked /\ algorithm = "MODIFIEDCLOCK" /\ [Next]_vars => [Abs!Next]_value
  BY StepImplementsAbs
<1> QED BY <1>1, <1>2, WorkingSetsInvariant, PagesInvariant, PTL
        DEF Spec, OnlyModifiedClock, AbsSpec, Abs!Spec

=============================================================================

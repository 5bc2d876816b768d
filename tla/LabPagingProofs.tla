-------------------------- MODULE LabPagingProofs --------------------------
(***************************************************************************)
(* Proofs about LabPaging: what the counts of the frames say, for any      *)
(* number of frames and pages and whatever the commands connect, of every  *)
(* frame whose count is not damaged; and what the loop of srp leaves.      *)
(***************************************************************************)
EXTENDS LabPaging, FiniteSetTheorems, WellFoundedInduction, TLAPS

USE FramesAssumption, PagesAssumption, BoundsAssumption

AllTables == UNION {Tables(d) : d \in Dirs}
AllPages == UNION {Pages[d] : d \in Dirs}
AllEntries == {u \in Dirs \X AllPages : u[2] \in Pages[u[1]]}

(* The uses of a frame, of any directories, page tables and counts.        *)
TUses(tab, f) == {u \in Dirs \X AllTables : u[2] \in Tables(u[1]) /\ tab[u[1]][u[2]] = f}
EUses(cnt, ent, f) == {u \in cnt : ent[u[1]][u[2]].frame = f}
First(f) == IF f = Frame0 THEN 1 ELSE 0

LEMMA UsesAre ==
  ASSUME NEW f
  PROVE  /\ Uses(f) = Cardinality(TUses(table, f)) + Cardinality(EUses(counted, entry, f)) + First(f)
         /\ Uses(f)' = Cardinality(TUses(table', f)) + Cardinality(EUses(counted', entry', f)) + First(f)
<1>1. TableUses(f) = TUses(table, f) /\ TableUses(f)' = TUses(table', f)
  BY DEF TableUses, TUses, AllTables
<1>2. EntryUses(f) = EUses(counted, entry, f) /\ EntryUses(f)' = EUses(counted', entry', f)
  BY DEF EntryUses, EUses
<1> QED BY <1>1, <1>2 DEF Uses, First

LEMMA UsesFinite ==
  ASSUME NEW tab, NEW ent, NEW cnt \in SUBSET AllEntries, NEW f
  PROVE  /\ IsFiniteSet(TUses(tab, f)) /\ Cardinality(TUses(tab, f)) \in Nat
         /\ IsFiniteSet(EUses(cnt, ent, f)) /\ Cardinality(EUses(cnt, ent, f)) \in Nat
<1>1. ASSUME NEW d \in Dirs PROVE IsFiniteSet(Tables(d)) /\ IsFiniteSet(Pages[d])
  <2>1. IsFiniteSet(Pages[d])
    BY DEF Dirs
  <2>2. [v \in Pages[d] |-> T(v)] \in Surjection(Pages[d], Tables(d))
    BY DEF Surjection, Tables
  <2> QED BY <2>1, <2>2, FS_Surjection
<1>2. IsFiniteSet(Dirs)
  <2>1. Dirs = {"kernel"} \union {"env"}
    BY DEF Dirs
  <2> QED BY <2>1, FS_Singleton, FS_Union
<1>3. AllTables = Tables("kernel") \union Tables("env")
  BY DEF AllTables, Dirs
<1>4. AllPages = Pages["kernel"] \union Pages["env"]
  BY DEF AllPages, Dirs
<1>5. IsFiniteSet(AllTables) /\ IsFiniteSet(AllPages)
  BY <1>1, <1>3, <1>4, FS_Union DEF Dirs
<1>6. IsFiniteSet(Dirs \X AllTables) /\ IsFiniteSet(Dirs \X AllPages)
  BY <1>2, <1>5, FS_Product
<1>7. TUses(tab, f) \in SUBSET (Dirs \X AllTables) /\ EUses(cnt, ent, f) \in SUBSET (Dirs \X AllPages)
  BY DEF TUses, EUses, AllEntries
<1> QED BY <1>6, <1>7, FS_Subset, FS_CardinalityType

-----------------------------------------------------------------------------
(* How a change of the directories changes the uses.                       *)
Entries == {Zero} \union [frame : Frames, present : BOOLEAN]
TypedTables(tab) == /\ DOMAIN tab = Dirs
                    /\ \A d \in Dirs : tab[d] \in [Tables(d) -> Frames \union {None, BootTable}]
TypedEntries(ent) == /\ DOMAIN ent = Dirs
                     /\ \A d \in Dirs : ent[d] \in [Pages[d] -> Entries]

(* The frames of new page tables, and an entry that is written.            *)
FramesOf(new) == {new[t] : t \in DOMAIN new}
WithEntry(d, v, e) == [entry EXCEPT ![d][v] = e]
One(b) == IF b THEN 1 ELSE 0
SameBut(cnt, d, v) == cnt \ {<<d, v>>} = counted \ {<<d, v>>}
Holds(cnt, d, v, e, g) == One(<<d, v>> \in cnt /\ e.frame = g)

AllMissing(d, ts) == ts \subseteq Tables(d) /\ \A t \in ts : table[d][t] = None

(* New page tables take free frames, one use for each that had none; the   *)
(* page tables that were there stay.                                       *)
LEMMA NewTablesUses ==
  ASSUME TypedTables(table), NEW d \in Dirs,
         NEW ts, AllMissing(d, ts),
         NEW free \in SUBSET Frames, NEW new \in NewTables(d, ts, free)
  PROVE  /\ TypedTables(WithTables(d, new))
         /\ FramesOf(new) \subseteq free
         /\ \A g \in FramesOf(new) : TUses(table, g) = {} => Cardinality(TUses(WithTables(d, new), g)) = 1
         /\ \A g \in Frames \ FramesOf(new) : TUses(WithTables(d, new), g) = TUses(table, g)
         /\ \A c \in Dirs : \A t \in Tables(c) :
              table[c][t] # None => WithTables(d, new)[c][t] = table[c][t]
         /\ \A t \in ts : WithTables(d, new)[d][t] # None
<1> DEFINE tab == WithTables(d, new)
           frames == FramesOf(new)
<1>0. frames = {new[t] : t \in DOMAIN new}
  BY DEF FramesOf
<1> HIDE DEF frames
<1>1. /\ new \in [ts -> free]
      /\ \A s, t \in ts : new[s] = new[t] => s = t
      /\ ts \subseteq Tables(d) /\ \A t \in ts : table[d][t] = None
  BY DEF NewTables, AllMissing
<1>2. tab = [table EXCEPT ![d] = [t \in Tables(d) |-> IF t \in ts THEN new[t] ELSE table[d][t]]]
  BY <1>1 DEF WithTables, TypedTables
<1>3. /\ DOMAIN tab = Dirs
      /\ \A c \in Dirs \ {d} : tab[c] = table[c]
      /\ tab[d] = [t \in Tables(d) |-> IF t \in ts THEN new[t] ELSE table[d][t]]
  BY <1>2 DEF TypedTables
<1> HIDE DEF tab
<1>4. TypedTables(tab)
  BY <1>1, <1>3 DEF TypedTables
<1>5. frames \subseteq free
  BY <1>0, <1>1
<1>6. ASSUME NEW g \in frames, TUses(table, g) = {}
      PROVE  Cardinality(TUses(tab, g)) = 1
  <2>1. PICK t \in ts : new[t] = g
    BY <1>0, <1>1
  <2>2. \A c \in Dirs : \A s : s \in Tables(c) => table[c][s] # g
    <3>1. \A c \in Dirs : \A s : s \in Tables(c) /\ table[c][s] = g => <<c, s>> \in TUses(table, g)
      BY DEF TUses, AllTables
    <3> QED BY <1>6, <3>1
  <2>3. \A s \in Tables(d) : tab[d][s] = g <=> s = t
    BY <1>1, <1>3, <2>1, <2>2
  <2>4. \A c \in Dirs \ {d} : \A s : s \in Tables(c) => tab[c][s] # g
    BY <1>3, <2>2
  <2>5. t \in Tables(d) /\ <<d, t>> \in Dirs \X AllTables
    BY <1>1, <2>1 DEF AllTables
  <2>6. ASSUME NEW u \in Dirs \X AllTables
        PROVE  u[2] \in Tables(u[1]) /\ tab[u[1]][u[2]] = g <=> u = <<d, t>>
    BY <2>3, <2>4, <2>5
  <2>7. TUses(tab, g) = {<<d, t>>}
    BY <2>5, <2>6 DEF TUses
  <2> QED BY <2>7, FS_Singleton
<1>7. ASSUME NEW g \in Frames \ frames
      PROVE  TUses(tab, g) = TUses(table, g)
  <2>1. \A c \in Dirs : \A s : s \in Tables(c) => (tab[c][s] = g <=> table[c][s] = g)
    BY <1>0, <1>1, <1>3
  <2> QED BY <2>1 DEF TUses
<1>8. \A c \in Dirs : \A t \in Tables(c) : table[c][t] # None => tab[c][t] = table[c][t]
  BY <1>1, <1>3
<1>9. \A t \in ts : tab[d][t] # None
  <2>1. \A t \in ts : new[t] # None
    BY <1>1
  <2> QED BY <1>1, <1>3, <2>1
<1> QED BY <1>4, <1>5, <1>6, <1>7, <1>8, <1>9 DEF tab, frames

(* An entry that is written gives up a use, if it was counted, and takes   *)
(* one, if it is.                                                          *)
LEMMA EntryUses1 ==
  ASSUME TypedEntries(entry), NEW d \in Dirs, NEW v \in Pages[d], NEW e \in Entries,
         counted \in SUBSET AllEntries, NEW cnt \in SUBSET AllEntries, SameBut(cnt, d, v)
  PROVE  /\ TypedEntries(WithEntry(d, v, e))
         /\ \A u \in AllEntries : u # <<d, v>> => WithEntry(d, v, e)[u[1]][u[2]] = entry[u[1]][u[2]]
         /\ WithEntry(d, v, e)[d][v] = e
         /\ \A g \in Frames :
              Cardinality(EUses(cnt, WithEntry(d, v, e), g)) =
                Cardinality(EUses(counted, entry, g))
                + Holds(cnt, d, v, e, g) - Holds(counted, d, v, entry[d][v], g)
<1> DEFINE ent == WithEntry(d, v, e)
           here == <<d, v>>
<1>1. /\ DOMAIN ent = Dirs
      /\ \A c \in Dirs \ {d} : ent[c] = entry[c]
      /\ ent[d] = [entry[d] EXCEPT ![v] = e]
      /\ entry[d] \in [Pages[d] -> Entries]
  BY DEF TypedEntries, WithEntry
<1> HIDE DEF ent
<1>2. /\ ent[d] \in [Pages[d] -> Entries] /\ ent[d][v] = e
      /\ \A w \in Pages[d] \ {v} : ent[d][w] = entry[d][w]
  BY <1>1
<1>3. TypedEntries(ent)
  BY <1>1, <1>2 DEF TypedEntries
<1>4. ASSUME NEW u \in AllEntries, u # here
      PROVE  ent[u[1]][u[2]] = entry[u[1]][u[2]]
  BY <1>1, <1>2, <1>4 DEF AllEntries
<1>5. ASSUME NEW g \in Frames
      PROVE  Cardinality(EUses(cnt, ent, g)) =
               Cardinality(EUses(counted, entry, g))
               + One(here \in cnt /\ e.frame = g) - One(here \in counted /\ entry[d][v].frame = g)
  <2>1. here[1] = d /\ here[2] = v
    OBVIOUS
  <2>2. EUses(cnt, ent, g) \ {here} = EUses(counted, entry, g) \ {here}
    <3>1. \A u : u # here => (u \in cnt <=> u \in counted)
      BY DEF SameBut
    <3> HIDE DEF here
    <3> QED BY <1>4, <3>1 DEF EUses
  <2>3. here \in EUses(cnt, ent, g) <=> here \in cnt /\ e.frame = g
    BY <1>2, <2>1 DEF EUses
  <2>4. here \in EUses(counted, entry, g) <=> here \in counted /\ entry[d][v].frame = g
    BY <2>1 DEF EUses
  <2> HIDE DEF here
  <2>5. /\ IsFiniteSet(EUses(cnt, ent, g)) /\ Cardinality(EUses(cnt, ent, g)) \in Nat
        /\ IsFiniteSet(EUses(counted, entry, g)) /\ Cardinality(EUses(counted, entry, g)) \in Nat
    BY UsesFinite
  <2>6. ASSUME NEW S, IsFiniteSet(S), Cardinality(S) \in Nat
        PROVE  Cardinality(S \ {here}) = Cardinality(S) - One(here \in S)
    <3>1. Cardinality(S \ {here}) = IF here \in S THEN Cardinality(S) - 1 ELSE Cardinality(S)
      BY <2>6, FS_RemoveElement
    <3> QED BY <2>6, <3>1 DEF One
  <2>7. Cardinality(EUses(cnt, ent, g)) - One(here \in EUses(cnt, ent, g))
          = Cardinality(EUses(counted, entry, g)) - One(here \in EUses(counted, entry, g))
    BY <2>2, <2>5, <2>6
  <2> DEFINE n == Cardinality(EUses(cnt, ent, g))
             m == Cardinality(EUses(counted, entry, g))
             i == One(here \in cnt /\ e.frame = g)
             j == One(here \in counted /\ entry[d][v].frame = g)
  <2>8. n \in Nat /\ m \in Nat /\ i \in Nat /\ j \in Nat /\ n - i = m - j
    BY <2>3, <2>4, <2>5, <2>7 DEF One
  <2> HIDE DEF n, m, i, j
  <2>9. n = m + i - j
    BY <2>8
  <2> QED BY <2>9 DEF n, m, i, j
<1>6. ASSUME NEW g \in Frames
      PROVE  Cardinality(EUses(cnt, ent, g)) =
               Cardinality(EUses(counted, entry, g))
               + Holds(cnt, d, v, e, g) - Holds(counted, d, v, entry[d][v], g)
  BY <1>5 DEF Holds
<1> QED BY <1>2, <1>3, <1>4, <1>6 DEF ent, here

-----------------------------------------------------------------------------
(* What holds of the counts.                                               *)
Typed == /\ TypedTables(table) /\ TypedEntries(entry)
         /\ references \in [Frames -> 0 .. RefMod - 1]
         /\ freeFrames \subseteq Frames /\ damaged \subseteq Frames
         /\ counted \subseteq AllEntries
         /\ \A u \in counted : entry[u[1]][u[2]].frame \in Frames

(* Of the frames that are not damaged, a free one has no use and no count, *)
(* any other at least the count of its uses; and every page of the         *)
(* environment was counted.                                                *)
FreeUnused == \A f \in freeFrames \ damaged : Uses(f) = 0 /\ references[f] = 0
CountsCover == \A f \in Frames \ damaged : Uses(f) <= references[f]
EnvCounted == \A v \in Pages["env"] :
                entry["env"][v] = Zero \/ (<<"env", v>> \in counted /\ entry["env"][v].present)
Counted == FreeUnused /\ CountsCover /\ EnvCounted

Inv == Typed /\ Counted

LEMMA UsesType ==
  ASSUME Typed, NEW f
  PROVE  /\ Uses(f) \in Nat
         /\ Uses(f) = 0 <=> TUses(table, f) = {} /\ EUses(counted, entry, f) = {} /\ f # Frame0
<1>1. /\ IsFiniteSet(TUses(table, f)) /\ Cardinality(TUses(table, f)) \in Nat
      /\ IsFiniteSet(EUses(counted, entry, f)) /\ Cardinality(EUses(counted, entry, f)) \in Nat
  BY UsesFinite DEF Typed
<1>2. /\ Cardinality(TUses(table, f)) = 0 <=> TUses(table, f) = {}
      /\ Cardinality(EUses(counted, entry, f)) = 0 <=> EUses(counted, entry, f) = {}
  BY <1>1, FS_EmptySet
<1> QED BY <1>1, <1>2, UsesAre DEF First

LEMMA UsesType2 ==
  ASSUME Typed', NEW f
  PROVE  Uses(f)' \in Nat
<1>1. /\ Cardinality(TUses(table', f)) \in Nat
      /\ Cardinality(EUses(counted', entry', f)) \in Nat
  BY UsesFinite DEF Typed
<1> QED BY <1>1, UsesAre DEF First

(* What CountsFollowUses and LostOnlyInFailures say of a step.             *)
More(f) == (references'[f] - Uses(f)') - (references[f] - Uses(f))
CountsFollow == \A f \in Frames \ damaged' : More(f) = 0 \/ (More(f) > 0 /\ Forgets(f))
LostInFailure ==
  \A f \in (Lost' \ Lost) \ damaged' :
    SysAllocatePageInvalid \/ Forgets(f) \/ references[f] > Uses(f)
Good == Inv' /\ CountsFollow /\ LostInFailure

(* It is enough to look at each frame that stays undamaged: its count      *)
(* changes with its uses, it is freed when the count becomes 0, and it is  *)
(* not free unless the count is 0, and not taken without a use.            *)
FrameGood(f) ==
  /\ More(f) = 0 \/ (More(f) > 0 /\ Forgets(f))
  /\ f \in freeFrames' => references'[f] = 0
  /\ references[f] > 0 /\ references'[f] = 0 => f \in freeFrames'
  /\ f \in freeFrames \ freeFrames' => Uses(f)' >= 1 \/ SysAllocatePageInvalid

LEMMA StepGood ==
  ASSUME Inv, Typed', EnvCounted', damaged \subseteq damaged',
         \A f \in Frames \ damaged' : FrameGood(f)
  PROVE  Good
<1>1. ASSUME NEW f \in Frames \ damaged'
      PROVE  /\ Uses(f) \in Nat /\ Uses(f)' \in Nat
             /\ references[f] \in Nat /\ references'[f] \in Nat
             /\ Uses(f) <= references[f] /\ Uses(f)' <= references'[f]
             /\ More(f) >= 0
  <2>1. Uses(f) \in Nat /\ Uses(f)' \in Nat
    BY UsesType, UsesType2 DEF Inv
  <2>2. references[f] \in Nat /\ references'[f] \in Nat
    BY DEF Inv, Typed
  <2>3. Uses(f) <= references[f]
    BY DEF Inv, Counted, CountsCover
  <2>4. (references'[f] - Uses(f)') - (references[f] - Uses(f)) >= 0
    BY <2>1, <2>2 DEF FrameGood, More
  <2> QED BY <2>1, <2>2, <2>3, <2>4 DEF More
<1>2. CountsFollow
  BY DEF CountsFollow, FrameGood
<1>3. FreeUnused'
  <2>1. \A f \in freeFrames' \ damaged' : f \in Frames
    BY DEF Typed
  <2> QED BY <1>1, <2>1 DEF FrameGood, FreeUnused
<1>4. CountsCover'
  BY <1>1 DEF CountsCover
<1>5. LostInFailure
  <2> SUFFICES ASSUME NEW f \in Frames \ damaged', f \notin freeFrames', Uses(f)' = 0,
                      f \in freeFrames \/ Uses(f) # 0, ~SysAllocatePageInvalid, ~Forgets(f)
               PROVE  references[f] > Uses(f)
    BY DEF LostInFailure, Lost
  <2>1. f \notin freeFrames /\ Uses(f) > 0
    BY <1>1 DEF FrameGood
  <2>2. references'[f] # 0
    BY <1>1, <2>1 DEF FrameGood
  <2>3. (references'[f] - Uses(f)') - (references[f] - Uses(f)) = 0
    BY DEF FrameGood, More
  <2> QED BY <1>1, <2>2, <2>3
<1> QED BY <1>2, <1>3, <1>4, <1>5 DEF Good, Inv, Counted

(* Page tables that are created, and counted entries that go.              *)
LEMMA CreateStep ==
  ASSUME Inv, NEW ts, AllMissing("kernel", ts),
         Create(ts), counted' \subseteq counted, damaged' = damaged,
         TypedEntries(entry'), entry'["env"] = entry["env"],
         \A v \in Pages["env"] : <<"env", v>> \in counted => <<"env", v>> \in counted',
         \A u \in counted' : entry'[u[1]][u[2]] = entry[u[1]][u[2]]
  PROVE  Good
<1>1. PICK new \in NewTables("kernel", ts, freeFrames) :
        /\ table' = WithTables("kernel", new)
        /\ freeFrames' = freeFrames \ FramesOf(new)
        /\ references' = [g \in Frames |-> IF g \in FramesOf(new) THEN 1 ELSE references[g]]
  BY DEF Create, FramesOf
<1> DEFINE frames == FramesOf(new)
<1>2. /\ TypedTables(table') /\ frames \subseteq freeFrames
      /\ \A g \in frames : TUses(table, g) = {} => Cardinality(TUses(table', g)) = 1
      /\ \A g \in Frames \ frames : TUses(table', g) = TUses(table, g)
  <2>1. TypedTables(table) /\ "kernel" \in Dirs /\ freeFrames \in SUBSET Frames
    BY DEF Inv, Typed, Dirs
  <2> HIDE DEF frames
  <2>2. /\ TypedTables(WithTables("kernel", new)) /\ frames \subseteq freeFrames
        /\ \A g \in frames : TUses(table, g) = {} => Cardinality(TUses(WithTables("kernel", new), g)) = 1
        /\ \A g \in Frames \ frames : TUses(WithTables("kernel", new), g) = TUses(table, g)
    BY <1>1, <2>1, NewTablesUses DEF frames
  <2> QED BY <1>1, <2>2
<1> HIDE DEF frames
<1>3. Typed'
  <2>1. references' \in [Frames -> 0 .. RefMod - 1]
    BY <1>1 DEF Inv, Typed, frames
  <2> QED BY <1>1, <1>2, <2>1 DEF Inv, Typed, frames
<1>4. EnvCounted'
  BY DEF Inv, Counted, EnvCounted
<1>5. ASSUME NEW f \in Frames \ damaged' PROVE FrameGood(f)
  <2>1. f \in freeFrames => /\ Uses(f) = 0 /\ references[f] = 0
                            /\ TUses(table, f) = {} /\ EUses(counted, entry, f) = {} /\ f # Frame0
    BY UsesType DEF Inv, Counted, FreeUnused
  <2>2. EUses(counted', entry', f) \subseteq EUses(counted, entry, f)
    BY DEF EUses
  <2>3. /\ IsFiniteSet(EUses(counted, entry, f)) /\ Cardinality(EUses(counted, entry, f)) \in Nat
        /\ IsFiniteSet(EUses(counted', entry', f)) /\ Cardinality(EUses(counted', entry', f)) \in Nat
        /\ Cardinality(TUses(table, f)) \in Nat /\ Cardinality(TUses(table', f)) \in Nat
    BY <1>3, UsesFinite DEF Inv, Typed
  <2>4. Cardinality(EUses(counted', entry', f)) <= Cardinality(EUses(counted, entry, f))
    BY <2>2, <2>3, FS_Subset
  <2>5. EUses(counted', entry', f) # EUses(counted, entry, f) => Forgets(f)
    <3> SUFFICES ASSUME NEW u \in EUses(counted, entry, f), u \notin EUses(counted', entry', f)
                 PROVE  Forgets(f)
      BY <2>2
    <3>1. u \in counted /\ entry[u[1]][u[2]].frame = f /\ u \notin counted'
      BY DEF EUses
    <3> QED BY <3>1 DEF Forgets
  <2>6. /\ references'[f] = IF f \in frames THEN 1 ELSE references[f]
        /\ f \in freeFrames' <=> f \in freeFrames /\ f \notin frames
        /\ f \in frames => f \in freeFrames
        /\ references[f] \in Nat
    BY <1>1, <1>2 DEF Inv, Typed, frames
  <2>7. /\ Uses(f) = Cardinality(TUses(table, f)) + Cardinality(EUses(counted, entry, f)) + First(f)
        /\ Uses(f)' = Cardinality(TUses(table', f)) + Cardinality(EUses(counted', entry', f)) + First(f)
        /\ First(f) \in Nat
    BY UsesAre DEF First
  <2>8. CASE f \in frames
    <3>1. /\ Cardinality(TUses(table', f)) = 1 /\ Cardinality(TUses(table, f)) = 0
          /\ Cardinality(EUses(counted', entry', f)) = 0 /\ Cardinality(EUses(counted, entry, f)) = 0
      BY <1>2, <2>1, <2>2, <2>6, <2>8, FS_EmptySet
    <3>2. Uses(f) = First(f) /\ Uses(f)' = 1 + First(f) /\ references'[f] = 1 /\ references[f] = 0
      BY <2>1, <2>6, <2>7, <2>8, <3>1
    <3>3. More(f) = 0
      BY <2>7, <3>2 DEF More
    <3> QED BY <2>6, <2>7, <2>8, <3>2, <3>3 DEF FrameGood
  <2>9. CASE f \notin frames
    <3>1. Cardinality(TUses(table', f)) = Cardinality(TUses(table, f)) /\ references'[f] = references[f]
      BY <1>2, <2>6, <2>9
    <3>2. More(f) = Cardinality(EUses(counted, entry, f)) - Cardinality(EUses(counted', entry', f))
      BY <2>3, <2>6, <2>7, <3>1 DEF More
    <3>3. More(f) = 0 \/ (More(f) > 0 /\ Forgets(f))
      BY <2>3, <2>4, <2>5, <3>2
    <3> QED BY <2>1, <2>6, <2>9, <3>1, <3>3 DEF FrameGood
  <2> QED BY <2>8, <2>9
<1> QED BY <1>3, <1>4, <1>5, StepGood

-----------------------------------------------------------------------------
(* What map_frame does to the counts and uses of a frame that it leaves    *)
(* undamaged: f gets one more of each, the frame it unmaps gives up one of *)
(* each and is freed with the last, and a frame that becomes a page table  *)
(* gets one of each; over a hidden entry the use goes and the count stays. *)
LEMMA MapFrame ==
  ASSUME Inv, NEW d \in Dirs, NEW v \in Pages[d], NEW f \in Frames,
         NEW free \in SUBSET freeFrames, freeFrames \subseteq free \union {f},
         f \in freeFrames \ free => d = "env",
         NEW refs \in [Frames -> 0 .. RefMod - 1],
         \A g \in Frames \ {f} : refs[g] = references[g],
         f \notin damaged => refs[f] = references[f] /\ refs[f] < MaxRefs,
         map_frame(d, f, v, free, refs)
  PROVE  Good
<1> DEFINE old == entry[d][v]
           here == <<d, v>>
<1>1. PICK new \in NewTables(d, Missing(d, {T(v)}), free) :
        LET left   == free \ FramesOf(new)
            done   == Unmap(old, f, [g \in Frames |-> IF g \in FramesOf(new) THEN 1 ELSE refs[g]])
            freed  == IF done.freed THEN {old.frame} ELSE {}
        IN  /\ table' = WithTables(d, new)
            /\ entry' = [entry EXCEPT ![d][v] = Present(f)]
            /\ freeFrames' = left \union freed
            /\ references' = IF old = Present(f) THEN done.references
                             ELSE [done.references EXCEPT ![f] = (@ + 1) % RefMod]
            /\ counted' = IF old = Present(f) THEN counted ELSE counted \union {here}
            /\ damaged' = damaged \union (left \intersect {f}) \union
                 {g \in {old.frame} : old.present /\ g # f /\ here \notin counted}
  BY DEF map_frame, FramesOf
<1> DEFINE frames == FramesOf(new)
           refs1 == [g \in Frames |-> IF g \in frames THEN 1 ELSE refs[g]]
           freed == old.present /\ old.frame # f /\ refs1[old.frame] = 1
           refs2 == Unmap(old, f, refs1).references
<1>2. /\ old \in Entries /\ Present(f) \in Entries /\ Present(f).frame = f /\ Present(f).present
      /\ here \in AllEntries
      /\ old.present => old.frame \in Frames
      /\ old = Present(f) <=> old.frame = f /\ old.present
  <2>1. old \in Entries /\ here \in AllEntries
    BY DEF Inv, Typed, TypedEntries, AllEntries, AllPages
  <2>2. Present(f) \in Entries /\ Present(f).frame = f /\ Present(f).present
    BY DEF Present, Entries
  <2>3. old.present => old.frame \in Frames
    BY <2>1 DEF Entries, Zero
  <2> HIDE DEF old, here
  <2>4. old = Present(f) <=> old.frame = f /\ old.present
    BY <2>1, <2>3 DEF Present, Entries, Zero
  <2> QED BY <2>1, <2>2, <2>3, <2>4
<1>3. /\ freeFrames' = (free \ frames) \union (IF freed THEN {old.frame} ELSE {})
      /\ references' = IF old = Present(f) THEN refs2 ELSE [refs2 EXCEPT ![f] = (@ + 1) % RefMod]
      /\ damaged' = damaged \union ((free \ frames) \intersect {f}) \union
                 {g \in {old.frame} : old.present /\ g # f /\ here \notin counted}
  <2>1. freed <=> Unmap(old, f, refs1).freed
    BY DEF Unmap, decrement
  <2> QED BY <1>1, <2>1
<1>4. /\ counted' = IF old = Present(f) THEN counted ELSE counted \union {here}
      /\ entry' = WithEntry(d, v, Present(f))
      /\ table' = WithTables(d, new)
  BY <1>1 DEF WithEntry
<1>5. /\ TypedTables(table') /\ frames \subseteq free
      /\ \A g \in frames : TUses(table, g) = {} => Cardinality(TUses(table', g)) = 1
      /\ \A g \in Frames \ frames : TUses(table', g) = TUses(table, g)
  <2>1. /\ TypedTables(table) /\ free \in SUBSET Frames
        /\ AllMissing(d, Missing(d, {T(v)}))
    BY DEF Inv, Typed, Missing, Tables, AllMissing
  <2> HIDE DEF frames
  <2>2. /\ TypedTables(WithTables(d, new)) /\ frames \subseteq free
        /\ \A g \in frames : TUses(table, g) = {} => Cardinality(TUses(WithTables(d, new), g)) = 1
        /\ \A g \in Frames \ frames : TUses(WithTables(d, new), g) = TUses(table, g)
    BY <2>1, NewTablesUses DEF frames
  <2> QED BY <1>4, <2>2
<1> HIDE DEF frames
<1>6. counted' \in SUBSET AllEntries /\ counted' \ {here} = counted \ {here} /\ counted \subseteq counted'
  BY <1>2, <1>4 DEF Inv, Typed
<1>7. /\ TypedEntries(entry')
      /\ \A u \in AllEntries : u # here => entry'[u[1]][u[2]] = entry[u[1]][u[2]]
      /\ entry'[d][v] = Present(f)
      /\ \A g \in Frames : Cardinality(EUses(counted', entry', g)) =
           Cardinality(EUses(counted, entry, g))
             + One(here \in counted' /\ f = g) - One(here \in counted /\ old.frame = g)
  <2>1. TypedEntries(entry) /\ counted \in SUBSET AllEntries
    BY DEF Inv, Typed
  <2> DEFINE e == Present(f)
  <2>2. e \in Entries /\ e.frame = f
    BY <1>2
  <2> HIDE DEF e
  <2>3. /\ TypedEntries(WithEntry(d, v, e))
        /\ \A u \in AllEntries : u # <<d, v>> => WithEntry(d, v, e)[u[1]][u[2]] = entry[u[1]][u[2]]
        /\ WithEntry(d, v, e)[d][v] = e
        /\ \A g \in Frames :
              Cardinality(EUses(counted', WithEntry(d, v, e), g)) =
                Cardinality(EUses(counted, entry, g))
                + One(<<d, v>> \in counted' /\ e.frame = g)
                - One(<<d, v>> \in counted /\ entry[d][v].frame = g)
    <3> DEFINE cnt == counted'
    <3>1. cnt \in SUBSET AllEntries /\ SameBut(cnt, d, v)
      BY <1>6 DEF SameBut
    <3> HIDE DEF cnt, old, here
    <3>2. /\ TypedEntries(WithEntry(d, v, e))
          /\ \A u \in AllEntries : u # <<d, v>> => WithEntry(d, v, e)[u[1]][u[2]] = entry[u[1]][u[2]]
          /\ WithEntry(d, v, e)[d][v] = e
          /\ \A g \in Frames :
                Cardinality(EUses(cnt, WithEntry(d, v, e), g)) =
                  Cardinality(EUses(counted, entry, g))
                  + Holds(cnt, d, v, e, g) - Holds(counted, d, v, entry[d][v], g)
      BY <2>1, <2>2, <3>1, EntryUses1
    <3> QED BY <3>2 DEF cnt, Holds
  <2> QED BY <1>4, <2>2, <2>3 DEF e
<1> HIDE DEF old, here
<1>8. refs1 \in [Frames -> 0 .. RefMod - 1] /\ refs2 \in [Frames -> 0 .. RefMod - 1]
      /\ references' \in [Frames -> 0 .. RefMod - 1]
  <2>1. refs1 \in [Frames -> 0 .. RefMod - 1]
    OBVIOUS
  <2>2. \A n \in 0 .. RefMod - 1 : (n + RefMod - 1) % RefMod \in 0 .. RefMod - 1
                                   /\ (n + 1) % RefMod \in 0 .. RefMod - 1
    OBVIOUS
  <2> HIDE DEF refs1
  <2>3. refs2 \in [Frames -> 0 .. RefMod - 1]
    BY <2>1, <2>2 DEF Unmap, decrement
  <2> HIDE DEF refs2
  <2> QED BY <1>3, <2>1, <2>2, <2>3
<1>9. Typed'
  <2>1. ASSUME NEW u \in counted' PROVE entry'[u[1]][u[2]].frame \in Frames
    <3>1. CASE u = here
      BY <1>2, <1>7, <3>1 DEF here
    <3>2. CASE u # here
      BY <1>6, <1>7, <3>2 DEF Inv, Typed
    <3> QED BY <3>1, <3>2
  <2>2. freed => old.frame \in Frames
    BY <1>2
  <2>3. freeFrames' \subseteq Frames /\ damaged' \subseteq Frames
    BY <1>2, <1>3, <2>2 DEF Inv, Typed
  <2> QED BY <1>5, <1>6, <1>7, <1>8, <2>1, <2>3 DEF Typed
<1>10. EnvCounted'
  <2> SUFFICES ASSUME NEW w \in Pages["env"]
               PROVE  entry'["env"][w] = Zero \/ (<<"env", w>> \in counted' /\ entry'["env"][w].present)
    BY DEF EnvCounted
  <2>1. <<"env", w>> \in AllEntries
    BY DEF AllEntries, AllPages, Dirs
  <2>2. CASE <<"env", w>> = here
    <3>1. d = "env" /\ w = v /\ entry'["env"][w].present
      BY <1>2, <1>7, <2>2 DEF here
    <3>2. here \in counted'
      <4>1. CASE old = Present(f)
        <5>1. old # Zero
          BY <1>2, <4>1 DEF Zero
        <5>2. here \in counted
          BY <2>2, <3>1, <5>1 DEF old, Inv, Counted, EnvCounted
        <5> QED BY <1>6, <5>2
      <4> QED BY <1>4, <4>1
    <3> QED BY <2>2, <3>1, <3>2
  <2>3. CASE <<"env", w>> # here
    BY <1>6, <1>7, <2>1, <2>3 DEF Inv, Counted, EnvCounted
  <2> QED BY <2>2, <2>3
<1>11. ASSUME NEW g \in Frames \ damaged' PROVE FrameGood(g)
  <2> DEFINE dec == old.present /\ old.frame # f /\ old.frame = g
             inc == g = f /\ old # Present(f)
             lose == here \in counted /\ old.frame = g
             win == here \in counted' /\ f = g
  <2>1. /\ g \notin damaged
        /\ g = f => g \notin free \ frames
        /\ dec => here \in counted
    BY <1>3
  <2>2. /\ Uses(g) \in Nat /\ Uses(g)' \in Nat /\ Uses(g) <= references[g]
        /\ g \in freeFrames => /\ Uses(g) = 0 /\ references[g] = 0 /\ TUses(table, g) = {}
                               /\ EUses(counted, entry, g) = {}
        /\ refs[g] = references[g] /\ references[g] \in Nat
    BY <1>9, <2>1, UsesType, UsesType2 DEF Inv, Typed, Counted, FreeUnused, CountsCover
  <2>3. lose => /\ Uses(g) >= 1 /\ references[g] >= 1 /\ g \notin freeFrames
                /\ g \notin frames /\ refs1[g] = references[g]
    <3>1. lose => here \in EUses(counted, entry, g)
      BY DEF EUses, here, old
    <3>2. lose => Uses(g) # 0
      BY <3>1, UsesType DEF Inv
    <3> QED BY <1>5, <2>2, <3>2
  <2>4. Uses(g)' = Uses(g) + One(g \in frames) + One(win) - One(lose)
    <3>1. Cardinality(TUses(table', g)) = Cardinality(TUses(table, g)) + One(g \in frames)
      <4>1. CASE g \in frames
        <5>1. g \in freeFrames
          BY <1>5, <4>1
        <5>2. Cardinality(TUses(table, g)) = 0
          BY <2>2, <5>1, FS_EmptySet
        <5>3. Cardinality(TUses(table', g)) = 1
          BY <1>5, <2>2, <4>1, <5>1
        <5> QED BY <4>1, <5>2, <5>3 DEF One
      <4>2. CASE g \notin frames
        <5>1. Cardinality(TUses(table, g)) \in Nat
          BY UsesFinite DEF Inv, Typed
        <5> QED BY <1>5, <4>2, <5>1 DEF One
      <4> QED BY <4>1, <4>2
    <3>2. Cardinality(EUses(counted', entry', g)) =
            Cardinality(EUses(counted, entry, g)) + One(win) - One(lose)
      BY <1>7
    <3>3. Cardinality(TUses(table, g)) \in Nat /\ Cardinality(EUses(counted, entry, g)) \in Nat
          /\ First(g) \in Nat
      BY UsesFinite DEF Inv, Typed, First
    <3>4. One(g \in frames) \in Nat /\ One(win) \in Nat /\ One(lose) \in Nat
      BY DEF One
    <3> HIDE DEF win, lose
    <3> QED BY <3>1, <3>2, <3>3, <3>4, UsesAre
  <2>5. /\ refs1[g] = IF g \in frames THEN 1 ELSE references[g]
        /\ g \in frames => g \in freeFrames /\ references[g] = 0
    BY <1>5, <2>2
  <2>6. refs2[g] = IF dec THEN refs1[g] - 1 ELSE refs1[g]
    <3>1. CASE dec
      <4>1. refs2 = [refs1 EXCEPT ![g] = (@ + RefMod - 1) % RefMod]
        BY <3>1 DEF Unmap, decrement
      <4>2. refs1[g] >= 1 /\ refs1[g] \in 0 .. RefMod - 1
        BY <1>8, <2>1, <2>3, <3>1
      <4>3. (refs1[g] + RefMod - 1) % RefMod = refs1[g] - 1
        BY <4>2
      <4> HIDE DEF refs1, refs2
      <4> QED BY <1>8, <3>1, <4>1, <4>3
    <3>2. CASE ~dec
      <4> HIDE DEF refs1
      <4> QED BY <1>8, <3>2 DEF Unmap, decrement
    <3> QED BY <3>1, <3>2
  <2>7. references'[g] = refs1[g] + One(inc) - One(dec)
    <3>1. CASE inc
      <4>1. refs2[g] = refs1[g] /\ ~dec
        BY <2>6, <3>1
      <4>2. refs1[g] \in Nat /\ refs1[g] + 1 < RefMod
        BY <2>1, <2>5, <3>1, <2>2
      <4>3. (refs1[g] + 1) % RefMod = refs1[g] + 1
        BY <4>2
      <4> HIDE DEF refs1, refs2, dec
      <4>4. references'[g] = (refs2[g] + 1) % RefMod
        BY <1>3, <1>8, <3>1
      <4> QED BY <3>1, <4>1, <4>2, <4>3, <4>4 DEF One
    <3>2. CASE ~inc
      <4>1. references'[g] = refs2[g]
        <5> HIDE DEF refs1, refs2
        <5> QED BY <1>3, <1>8, <3>2
      <4>2. refs1[g] \in Nat
        BY <2>2, <2>5
      <4> HIDE DEF refs1, refs2, inc, dec
      <4> QED BY <2>6, <3>2, <4>1, <4>2 DEF One
    <3> QED BY <3>1, <3>2
  <2>8. More(g) = One(inc) - One(dec) - One(win) + One(lose)
    <3>1. refs1[g] = references[g] + One(g \in frames)
      BY <2>2, <2>5 DEF One
    <3>2. One(g \in frames) \in Nat /\ One(win) \in Nat /\ One(lose) \in Nat
          /\ One(inc) \in Nat /\ One(dec) \in Nat
      BY DEF One
    <3> HIDE DEF refs1, win, lose, inc, dec
    <3> QED BY <2>2, <2>4, <2>7, <3>1, <3>2 DEF More
  <2>9. More(g) = 0 \/ (More(g) > 0 /\ lose /\ ~old.present)
    <3>1. win <=> g = f /\ (old # Present(f) \/ here \in counted)
      BY <1>4
    <3>2. dec => lose /\ ~inc /\ ~win
      BY <2>1
    <3>3. ~dec /\ lose /\ old.present => g = f /\ win /\ ~inc
      BY <1>2, <3>1
    <3>4. ~dec /\ lose /\ ~old.present => (inc <=> g = f) /\ (win <=> g = f)
      BY <1>2, <3>1
    <3>5. ~dec /\ ~lose => (inc <=> win)
      BY <1>2, <3>1
    <3> HIDE DEF inc, dec, win, lose
    <3> QED BY <2>8, <3>2, <3>3, <3>4, <3>5 DEF One
  <2>10. lose /\ ~old.present => Forgets(g)
    <3> SUFFICES ASSUME lose, ~old.present PROVE Forgets(g)
      OBVIOUS
    <3>1. here[1] = d /\ here[2] = v
      BY DEF here
    <3>2. here \in counted /\ entry[here[1]][here[2]].frame = g /\ ~entry[here[1]][here[2]].present
      BY <3>1 DEF old
    <3>3. entry'[here[1]][here[2]].present
      BY <1>2, <1>7, <3>1
    <3> QED BY <3>2, <3>3 DEF Forgets
  <2>11. g \in freeFrames' => references'[g] = 0
    <3>1. CASE g \in free \ frames
      <4>1. g \in freeFrames /\ ~lose /\ ~dec /\ g # f /\ refs1[g] = 0
        BY <2>1, <2>2, <2>3, <2>5, <3>1
      <4>2. ~inc
        BY <4>1
      <4> HIDE DEF inc, dec, lose, win, refs1
      <4> QED BY <2>7, <4>1, <4>2 DEF One
    <3>2. CASE freed /\ g = old.frame
      <4>1. dec /\ ~inc /\ refs1[g] = 1
        BY <3>2
      <4> HIDE DEF inc, dec, refs1
      <4> QED BY <2>7, <4>1 DEF One
    <3> QED BY <1>3, <3>1, <3>2
  <2>12. references[g] > 0 /\ references'[g] = 0 => g \in freeFrames'
    <3> SUFFICES ASSUME references[g] > 0, references'[g] = 0 PROVE g \in freeFrames'
      OBVIOUS
    <3>1. refs1[g] = references[g]
      BY <2>2, <2>5
    <3>2. dec /\ refs1[g] = 1
      <4> HIDE DEF inc, dec, refs1
      <4> QED BY <2>2, <2>7, <3>1 DEF One
    <3> QED BY <1>3, <3>2
  <2>13. g \in freeFrames \ freeFrames' => Uses(g)' >= 1
    <3> SUFFICES ASSUME g \in freeFrames, g \notin freeFrames' PROVE Uses(g)' >= 1
      OBVIOUS
    <3>1. ~lose
      BY <2>3
    <3>2. CASE g \in frames
      <4> HIDE DEF win, lose
      <4> QED BY <2>2, <2>4, <3>1, <3>2 DEF One
    <3>3. CASE g \notin frames
      <4>1. g = f /\ d = "env" /\ g \notin free
        BY <1>3, <3>3
      <4>2. here \in counted'
        <5>1. CASE old = Present(f)
          <6>1. old # Zero
            BY <1>2, <5>1 DEF Zero
          <6> QED BY <1>6, <4>1, <6>1 DEF old, here, Inv, Counted, EnvCounted
        <5> QED BY <1>4, <5>1
      <4>3. win
        BY <4>1, <4>2
      <4> HIDE DEF win, lose
      <4> QED BY <2>2, <2>4, <3>1, <3>3, <4>3 DEF One
    <3> QED BY <3>2, <3>3
  <2> QED BY <2>9, <2>10, <2>11, <2>12, <2>13 DEF FrameGood
<1>12. damaged \subseteq damaged'
  BY <1>3
<1> QED BY <1>9, <1>10, <1>11, <1>12, StepGood

-----------------------------------------------------------------------------
(* What the calls do, one by one.                                          *)
LEMMA AllocateStep ==
  ASSUME Inv, NEW v \in Pages["env"], sys_allocate_page(v)
  PROVE  Good
<1>1. PICK f \in freeFrames :
        map_frame("env", f, v, freeFrames \ {f}, [references EXCEPT ![f] = 0])
  BY DEF sys_allocate_page
<1> DEFINE free == freeFrames \ {f}
           refs == [references EXCEPT ![f] = 0]
           env == "env"
<1>2. /\ env \in Dirs /\ v \in Pages[env] /\ f \in Frames
      /\ free \in SUBSET freeFrames /\ freeFrames \subseteq free \union {f}
  BY DEF Inv, Typed, Dirs
<1>3. /\ refs \in [Frames -> 0 .. RefMod - 1]
      /\ \A g \in Frames \ {f} : refs[g] = references[g]
      /\ refs[f] = 0
  BY <1>2 DEF Inv, Typed
<1>4. f \notin damaged => refs[f] = references[f] /\ refs[f] < MaxRefs
  BY <1>3 DEF Inv, Counted, FreeUnused
<1>5. f \in freeFrames \ free => env = "env"
  OBVIOUS
<1>6. map_frame(env, f, v, free, refs)
  BY <1>1
<1> HIDE DEF free, refs, env
<1> QED BY <1>2, <1>3, <1>4, <1>5, <1>6, MapFrame

LEMMA CvpStep ==
  ASSUME Inv, NEW v \in Pages["kernel"], NEW f \in Frames, command_cvp(v, f)
  PROVE  Good
<1> DEFINE free == freeFrames
           refs == references
           kernel == "kernel"
<1>1. map_frame(kernel, f, v, free, refs)
  BY DEF command_cvp
<1>2. /\ kernel \in Dirs /\ v \in Pages[kernel]
      /\ free \in SUBSET freeFrames /\ freeFrames \subseteq free \union {f}
      /\ refs \in [Frames -> 0 .. RefMod - 1]
      /\ \A g \in Frames \ {f} : refs[g] = references[g]
  BY DEF Inv, Typed, Dirs
<1>3. f \notin damaged => refs[f] = references[f] /\ refs[f] < MaxRefs
  BY DEF command_cvp
<1>4. f \in freeFrames \ free => kernel = "env"
  OBVIOUS
<1> HIDE DEF free, refs, kernel
<1> QED BY <1>1, <1>2, <1>3, <1>4, MapFrame

(* Nothing of the directories changes and nothing new is counted.          *)
LEMMA UsesStay ==
  ASSUME table' = table, counted' = counted,
         \A u \in counted : entry'[u[1]][u[2]].frame = entry[u[1]][u[2]].frame
  PROVE  \A f : Uses(f)' = Uses(f)
<1> TAKE f
<1>1. TUses(table', f) = TUses(table, f) /\ EUses(counted', entry', f) = EUses(counted, entry, f)
  BY DEF EUses
<1> QED BY <1>1, UsesAre

LEMMA InvalidStep ==
  ASSUME Inv, SysAllocatePageInvalid
  PROVE  Good
<1>1. PICK f \in freeFrames : /\ freeFrames' = freeFrames \ {f}
                              /\ references' = [references EXCEPT ![f] = 0]
  BY DEF SysAllocatePageInvalid
<1>2. UNCHANGED <<entry, table, counted, damaged>> /\ \A g : Uses(g)' = Uses(g)
  BY UsesStay DEF SysAllocatePageInvalid
<1>3. Typed'
  BY <1>1, <1>2 DEF Inv, Typed, TypedTables, TypedEntries
<1>4. EnvCounted'
  BY <1>2 DEF Inv, Counted, EnvCounted
<1>5. ASSUME NEW g \in Frames \ damaged' PROVE FrameGood(g)
  <2>1. references'[g] = references[g] /\ (g \in freeFrames => references[g] = 0)
        /\ (g \in freeFrames' => g \in freeFrames)
    BY <1>1, <1>2 DEF Inv, Typed, Counted, FreeUnused
  <2>2. Uses(g) \in Nat /\ references[g] \in Nat
    BY UsesType DEF Inv, Typed
  <2>3. More(g) = 0
    BY <1>2, <2>1, <2>2 DEF More
  <2> QED BY <2>1, <2>2, <2>3 DEF FrameGood
<1> QED BY <1>2, <1>3, <1>4, <1>5, StepGood

LEMMA NoTableStep ==
  ASSUME Inv, NEW v \in Pages["env"], SysAllocatePageNoTable(v)
  PROVE  Good
<1>1. PICK f \in freeFrames :
        LET done == decrement([references EXCEPT ![f] = 0], f) IN
        /\ references' = done.references
        /\ freeFrames' = (freeFrames \ {f}) \union (IF done.freed THEN {f} ELSE {})
        /\ damaged' = damaged \union {f}
  BY DEF SysAllocatePageNoTable
<1>2. f \in Frames /\ references \in [Frames -> 0 .. RefMod - 1]
  BY DEF Inv, Typed
<1>3. (0 + RefMod - 1) % RefMod = RefMod - 1 /\ RefMod - 1 \in 0 .. RefMod - 1
  OBVIOUS
<1>4. references' = [references EXCEPT ![f] = RefMod - 1] /\ freeFrames' = freeFrames \ {f}
  BY <1>1, <1>2, <1>3 DEF decrement
<1>5. UNCHANGED <<entry, table, counted>> /\ \A g : Uses(g)' = Uses(g)
  BY UsesStay DEF SysAllocatePageNoTable
<1>6. Typed'
  <2>1. references' \in [Frames -> 0 .. RefMod - 1]
    BY <1>2, <1>3, <1>4
  <2>2. freeFrames' \subseteq Frames /\ damaged' \subseteq Frames
    BY <1>1, <1>2, <1>4 DEF Inv, Typed
  <2> QED BY <1>5, <2>1, <2>2 DEF Inv, Typed
<1>7. EnvCounted'
  BY <1>5 DEF Inv, Counted, EnvCounted
<1>8. ASSUME NEW g \in Frames \ damaged' PROVE FrameGood(g)
  <2>1. g # f /\ references'[g] = references[g] /\ (g \in freeFrames => references[g] = 0)
        /\ (g \in freeFrames' <=> g \in freeFrames)
    BY <1>1, <1>4 DEF Inv, Typed, Counted, FreeUnused
  <2>2. Uses(g) \in Nat /\ references[g] \in Nat
    BY UsesType DEF Inv, Typed
  <2>3. More(g) = 0
    BY <1>5, <2>1, <2>2 DEF More
  <2> QED BY <2>1, <2>2, <2>3 DEF FrameGood
<1> QED BY <1>1, <1>6, <1>7, <1>8, StepGood

LEMMA DvpStep ==
  ASSUME Inv, NEW v \in Pages["kernel"], command_dvp(v)
  PROVE  Good
<1>1. /\ entry' = [entry EXCEPT !["kernel"][v].present = FALSE]
      /\ UNCHANGED <<table, references, freeFrames, counted, damaged>>
  BY DEF command_dvp
<1>2. /\ DOMAIN entry = Dirs /\ "kernel" \in Dirs /\ "env" \in Dirs
      /\ \A d \in Dirs : entry[d] \in [Pages[d] -> Entries]
  BY DEF Inv, Typed, TypedEntries, Dirs
<1>3. /\ DOMAIN entry' = Dirs /\ entry'["env"] = entry["env"]
      /\ entry'["kernel"] = [entry["kernel"] EXCEPT ![v].present = FALSE]
  BY <1>1, <1>2
<1> DEFINE e == [entry["kernel"][v] EXCEPT !.present = FALSE]
<1>4. e \in Entries /\ e.frame = entry["kernel"][v].frame
  <2>1. entry["kernel"][v] \in Entries
    BY <1>2
  <2>2. [Zero EXCEPT !.present = FALSE] = Zero
    <3>1. Zero \in [frame : {None}, present : {FALSE}]
      BY DEF Zero
    <3>2. \A z \in [frame : {None}, present : {FALSE}] : [z EXCEPT !.present = FALSE] = z
      OBVIOUS
    <3> QED BY <3>1, <3>2
  <2>3. ASSUME NEW x \in [frame : Frames, present : BOOLEAN]
        PROVE  [x EXCEPT !.present = FALSE] \in [frame : Frames, present : BOOLEAN]
               /\ [x EXCEPT !.present = FALSE].frame = x.frame
    OBVIOUS
  <2> QED BY <2>1, <2>2, <2>3 DEF Entries
<1>5. entry'["kernel"] = [entry["kernel"] EXCEPT ![v] = e]
  BY <1>3
<1> HIDE DEF e
<1>6. TypedEntries(entry')
  BY <1>2, <1>3, <1>4, <1>5 DEF TypedEntries, Dirs
<1>7. \A u \in AllEntries : entry'[u[1]][u[2]].frame = entry[u[1]][u[2]].frame
  BY <1>2, <1>3, <1>4, <1>5 DEF AllEntries, Dirs
<1>8. \A g : Uses(g)' = Uses(g)
  BY <1>1, <1>7, UsesStay DEF Inv, Typed
<1>9. Typed'
  BY <1>1, <1>6, <1>7 DEF Inv, Typed
<1>10. EnvCounted'
  BY <1>1, <1>3 DEF Inv, Counted, EnvCounted
<1>11. ASSUME NEW g \in Frames \ damaged' PROVE FrameGood(g)
  <2>1. Uses(g) \in Nat /\ references[g] \in Nat /\ (g \in freeFrames => references[g] = 0)
    BY <1>1, UsesType DEF Inv, Typed, Counted, FreeUnused
  <2>2. More(g) = 0
    BY <1>1, <1>8, <2>1 DEF More
  <2> QED BY <1>1, <2>1, <2>2 DEF FrameGood
<1> QED BY <1>1, <1>9, <1>10, <1>11, StepGood

LEMMA CpfStep ==
  ASSUME Inv, NEW v \in Pages["kernel"], NEW f \in Frames, ConnectPageToFrame(v, f)
  PROVE  Good
<1>1. /\ Create(Missing("kernel", {T(v)}))
      /\ entry' = WithEntry("kernel", v, Present(f))
      /\ counted' = counted \ {<<"kernel", v>>} /\ damaged' = damaged
  BY DEF ConnectPageToFrame, WithEntry
<1>2. AllMissing("kernel", Missing("kernel", {T(v)}))
  BY DEF AllMissing, Missing, Tables
<1>3. "kernel" \in Dirs /\ "env" \in Dirs /\ "kernel" # "env" /\ Present(f) \in Entries
  BY DEF Dirs, Present, Entries
<1>4. /\ TypedEntries(entry') /\ entry'["env"] = entry["env"]
      /\ \A u \in AllEntries : u # <<"kernel", v>> => entry'[u[1]][u[2]] = entry[u[1]][u[2]]
  <2>1. TypedEntries(entry) /\ counted \in SUBSET AllEntries /\ SameBut(counted, "kernel", v)
    BY DEF Inv, Typed, SameBut
  <2> DEFINE e == Present(f)
  <2>2. e \in Entries
    BY <1>3
  <2> HIDE DEF e
  <2>3. /\ TypedEntries(WithEntry("kernel", v, e))
        /\ \A u \in AllEntries : u # <<"kernel", v>> =>
             WithEntry("kernel", v, e)[u[1]][u[2]] = entry[u[1]][u[2]]
    BY <1>3, <2>1, <2>2, EntryUses1
  <2>4. WithEntry("kernel", v, e)["env"] = entry["env"]
    BY <1>3, <2>1 DEF WithEntry, TypedEntries
  <2> QED BY <1>1, <2>3, <2>4 DEF e
<1>5. \A u \in counted' : u \in AllEntries /\ u # <<"kernel", v>>
  BY <1>1 DEF Inv, Typed
<1>6. \A w \in Pages["env"] : <<"env", w>> \in counted => <<"env", w>> \in counted'
  BY <1>1
<1>7. \A u \in counted' : entry'[u[1]][u[2]] = entry[u[1]][u[2]]
  BY <1>4, <1>5
<1>8. counted' \subseteq counted
  BY <1>1
<1> QED BY <1>1, <1>2, <1>4, <1>6, <1>7, <1>8, CreateStep

LEMMA ClearStep ==
  ASSUME Inv, ClearUserSpace
  PROVE  Good
<1>1. /\ table' = [table EXCEPT !["kernel"] = [t \in Tables("kernel") |->
                 IF t \in BootTables THEN table["kernel"][t] ELSE None]]
      /\ entry' = [entry EXCEPT !["kernel"] = [v \in Pages["kernel"] |->
                 IF v \in BootPages THEN entry["kernel"][v] ELSE Zero]]
      /\ counted' = {u \in counted : u[1] = "kernel" => u[2] \in BootPages}
      /\ UNCHANGED <<references, freeFrames, damaged>>
  BY DEF ClearUserSpace
<1>2. "kernel" \in Dirs /\ "env" \in Dirs /\ "kernel" # "env" /\ TypedTables(table) /\ TypedEntries(entry)
  BY DEF Dirs, Inv, Typed
<1>3. /\ DOMAIN table' = Dirs /\ DOMAIN entry' = Dirs
      /\ table'["env"] = table["env"] /\ entry'["env"] = entry["env"]
      /\ table'["kernel"] = [t \in Tables("kernel") |->
                               IF t \in BootTables THEN table["kernel"][t] ELSE None]
      /\ entry'["kernel"] = [v \in Pages["kernel"] |->
                               IF v \in BootPages THEN entry["kernel"][v] ELSE Zero]
  BY <1>1, <1>2 DEF TypedTables, TypedEntries
<1>4. TypedTables(table') /\ TypedEntries(entry')
  BY <1>2, <1>3 DEF TypedTables, TypedEntries, Dirs, Entries
<1>5. \A u \in counted' : u \in counted /\ u \in AllEntries /\ entry'[u[1]][u[2]] = entry[u[1]][u[2]]
  BY <1>1, <1>3 DEF Inv, Typed, AllEntries, Dirs
<1>6. Typed'
  BY <1>1, <1>4, <1>5 DEF Inv, Typed
<1>7. EnvCounted'
  BY <1>1, <1>2, <1>3 DEF Inv, Counted, EnvCounted
<1>8. ASSUME NEW g \in Frames \ damaged' PROVE FrameGood(g)
  <2>1. TUses(table', g) \subseteq TUses(table, g)
    BY <1>3 DEF TUses, Dirs
  <2>2. EUses(counted', entry', g) \subseteq EUses(counted, entry, g)
    BY <1>5 DEF EUses
  <2>3. TUses(table', g) # TUses(table, g) => Forgets(g)
    <3> SUFFICES ASSUME NEW u \in TUses(table, g), u \notin TUses(table', g)
                 PROVE  Forgets(g)
      BY <2>1
    <3>1. /\ u[1] \in Dirs /\ u[2] \in Tables(u[1])
          /\ table[u[1]][u[2]] = g /\ table'[u[1]][u[2]] # g
      BY DEF TUses
    <3> QED BY <3>1 DEF Forgets
  <2>4. EUses(counted', entry', g) # EUses(counted, entry, g) => Forgets(g)
    <3> SUFFICES ASSUME NEW u \in EUses(counted, entry, g), u \notin EUses(counted', entry', g)
                 PROVE  Forgets(g)
      BY <2>2
    <3>1. u \in counted /\ entry[u[1]][u[2]].frame = g /\ u \notin counted'
      BY <1>5 DEF EUses
    <3> QED BY <3>1 DEF Forgets
  <2> DEFINE t1 == Cardinality(TUses(table', g))
             t0 == Cardinality(TUses(table, g))
             e1 == Cardinality(EUses(counted', entry', g))
             e0 == Cardinality(EUses(counted, entry, g))
  <2>5. /\ IsFiniteSet(EUses(counted, entry, g)) /\ e0 \in Nat /\ e1 \in Nat
        /\ IsFiniteSet(TUses(table, g)) /\ t0 \in Nat /\ t1 \in Nat
    BY <1>6, UsesFinite DEF Inv, Typed
  <2>6. /\ t1 <= t0 /\ (t0 = t1 => TUses(table', g) = TUses(table, g))
        /\ e1 <= e0 /\ (e0 = e1 => EUses(counted', entry', g) = EUses(counted, entry, g))
    BY <2>1, <2>2, <2>5, FS_Subset
  <2>7. /\ Uses(g) = t0 + e0 + First(g) /\ Uses(g)' = t1 + e1 + First(g)
        /\ First(g) \in Nat
    BY UsesAre DEF First
  <2>8. t1 # t0 \/ e1 # e0 => Forgets(g)
    BY <2>3, <2>4
  <2>9. references' = references /\ references[g] \in Nat /\ freeFrames' = freeFrames
        /\ (g \in freeFrames => references[g] = 0)
    BY <1>1 DEF Inv, Typed, Counted, FreeUnused
  <2> HIDE DEF t0, t1, e0, e1
  <2>10. More(g) = (t0 - t1) + (e0 - e1)
    BY <2>5, <2>7, <2>9 DEF More
  <2>11. More(g) = 0 \/ (More(g) > 0 /\ Forgets(g))
    BY <2>5, <2>6, <2>8, <2>10
  <2> QED BY <2>9, <2>11 DEF FrameGood
<1> QED BY <1>1, <1>6, <1>7, <1>8, StepGood

-----------------------------------------------------------------------------
(* The loop of srp.  First, a set of natural numbers has a least one.      *)
Less == {p \in Nat \X Nat : p[1] < p[2]}

LEMMA LeastElement ==
  ASSUME NEW S \in SUBSET Nat, S # {}
  PROVE  \E n \in S : \A m \in S : n <= m
<1>1. IsWellFoundedOn(Less, Nat)
  BY NatLessThanWellFounded DEF OpToRel, Less
<1>2. PICK n \in S : \A m \in S : ~(<<m, n>> \in Less)
  BY <1>1, WFMin
<1>3. ASSUME NEW m \in S PROVE n <= m
  <2>1. m \in Nat /\ n \in Nat
    OBVIOUS
  <2>2. ~(m < n)
    BY <1>2, <2>1 DEF Less
  <2> QED BY <2>1, <2>2
<1> QED BY <1>3

(* What holds of 0 and of k whenever of k-1 holds of every k up to n: for  *)
(* a set, the numbers it holds of.                                         *)
LEMMA UpTo ==
  ASSUME NEW n \in Nat, NEW P, 0 \in P, \A k \in 1 .. n : k - 1 \in P => k \in P
  PROVE  \A k \in 0 .. n : k \in P
<1> SUFFICES ASSUME NEW j \in 0 .. n, j \notin P PROVE FALSE
  OBVIOUS
<1> DEFINE S == {k \in 0 .. n : k \notin P}
<1>1. S \in SUBSET Nat /\ j \in S
  OBVIOUS
<1>2. PICK k \in S : \A m \in S : k <= m
  BY <1>1, LeastElement
<1>3. k \in 0 .. n /\ k \notin P /\ k # 0
  BY <1>2
<1>4. k \in 1 .. n /\ k - 1 \in 0 .. n /\ ~(k <= k - 1)
  BY <1>3
<1>5. k - 1 \in P
  BY <1>2, <1>4
<1> QED BY <1>3, <1>4, <1>5

(* The turns are what they say: a function of that kind exists, from each  *)
(* number of turns to the next.                                            *)
TurnsTo(f, a, b, w, k) ==
  f = [j \in 0 .. k |->
         IF j = 0 THEN Start(a, b) ELSE Turn(f[j-1], a + j - 1, b + j - 1, w)]

LEMMA TurnsAre ==
  ASSUME NEW n \in Nat, NEW a, NEW b, NEW w
  PROVE  /\ Turns(a, b, n, w)[0] = Start(a, b)
         /\ \A k \in 1 .. n : Turns(a, b, n, w)[k] =
              Turn(Turns(a, b, n, w)[k-1], a + k - 1, b + k - 1, w)
<1> DEFINE P == {k \in 0 .. n : \E f : TurnsTo(f, a, b, w, k)}
<1>1. 0 \in P
  <2> DEFINE f == [j \in 0 .. 0 |-> Start(a, b)]
  <2>1. f = [j \in 0 .. 0 |->
               IF j = 0 THEN Start(a, b) ELSE Turn(f[j-1], a + j - 1, b + j - 1, w)]
    OBVIOUS
  <2>2. 0 \in 0 .. n
    OBVIOUS
  <2> HIDE DEF f
  <2>3. TurnsTo(f, a, b, w, 0)
    BY <2>1 DEF TurnsTo
  <2> QED BY <2>2, <2>3
<1>2. ASSUME NEW k \in 1 .. n, k - 1 \in P PROVE k \in P
  <2>1. PICK f : TurnsTo(f, a, b, w, k - 1)
    BY <1>2
  <2> DEFINE g == [j \in 0 .. k |-> IF j = k THEN Turn(f[k-1], a + k - 1, b + k - 1, w) ELSE f[j]]
  <2>2. \A j \in 0 .. k - 1 : f[j] =
          IF j = 0 THEN Start(a, b) ELSE Turn(f[j-1], a + j - 1, b + j - 1, w)
    BY <2>1 DEF TurnsTo
  <2>3. \A j \in 0 .. k : g[j] =
          IF j = 0 THEN Start(a, b) ELSE Turn(g[j-1], a + j - 1, b + j - 1, w)
    <3> SUFFICES ASSUME NEW j \in 0 .. k
                 PROVE  g[j] = IF j = 0 THEN Start(a, b) ELSE Turn(g[j-1], a + j - 1, b + j - 1, w)
      OBVIOUS
    <3>1. CASE j = k
      <4>1. j # 0 /\ j - 1 \in 0 .. k /\ j - 1 # k /\ g[j-1] = f[k-1]
        BY <3>1
      <4>2. g[j] = Turn(f[k-1], a + k - 1, b + k - 1, w)
        BY <3>1
      <4> QED BY <3>1, <4>1, <4>2
    <3>2. CASE j # k /\ j # 0
      <4>1. j \in 0 .. k - 1 /\ j - 1 \in 0 .. k /\ j - 1 # k /\ g[j-1] = f[j-1] /\ g[j] = f[j]
        BY <3>2
      <4> QED BY <2>2, <3>2, <4>1
    <3>3. CASE j # k /\ j = 0
      <4>1. j \in 0 .. k - 1 /\ g[j] = f[j]
        BY <3>3
      <4> QED BY <2>2, <3>3, <4>1
    <3> QED BY <3>1, <3>2, <3>3
  <2>4. g = [j \in 0 .. k |->
               IF j = 0 THEN Start(a, b) ELSE Turn(g[j-1], a + j - 1, b + j - 1, w)]
    BY <2>3
  <2>5. k \in 0 .. n
    OBVIOUS
  <2> HIDE DEF g
  <2> QED BY <2>4, <2>5 DEF TurnsTo
<1> HIDE DEF P
<1>3. n \in P
  BY <1>1, <1>2, UpTo
<1>4. \E f : TurnsTo(f, a, b, w, n)
  BY <1>3 DEF P
<1> DEFINE t == Turns(a, b, n, w)
<1>5. t = CHOOSE f : TurnsTo(f, a, b, w, n)
  BY DEF Turns, TurnsTo
<1>6. TurnsTo(t, a, b, w, n)
  BY <1>4, <1>5
<1> HIDE DEF t
<1>7. \A j \in 0 .. n : t[j] = IF j = 0 THEN Start(a, b) ELSE Turn(t[j-1], a + j - 1, b + j - 1, w)
  BY <1>6 DEF TurnsTo
<1> QED BY <1>7 DEF t

(* What a turn keeps: the entries have their type, the counted ones are    *)
(* those that were and are as they were, and the tables it created were    *)
(* missing, are no more than the free frames and hold all it wrote to.     *)
Kept(s) ==
  /\ s.entries \in [Pages["kernel"] -> Entries]
  /\ s.counted \subseteq counted
  /\ \A v \in Pages["env"] : <<"env", v>> \in counted => <<"env", v>> \in s.counted
  /\ \A v \in Pages["kernel"] : <<"kernel", v>> \in s.counted => s.entries[v] = entry["kernel"][v]
  /\ AllMissing("kernel", s.made)
  /\ \A v \in Pages["kernel"] : s.entries[v].present => Exists(s, T(v))

(* An entry without a page table is not present.                           *)
HiddenWithoutTable ==
  \A v \in Pages["kernel"] : table["kernel"][T(v)] = None => ~entry["kernel"][v].present

LEMMA CreatedIs ==
  ASSUME NEW s, NEW v \in Pages["kernel"], AllMissing("kernel", s.made),
         s = [entries |-> s.entries, counted |-> s.counted, made |-> s.made, stopped |-> s.stopped]
  PROVE  /\ Created(s, T(v)) = [entries |-> s.entries, counted |-> s.counted,
                                made |-> Created(s, T(v)).made, stopped |-> s.stopped]
         /\ s.made \subseteq Created(s, T(v)).made
         /\ AllMissing("kernel", Created(s, T(v)).made)
         /\ \A t : Exists(s, t) => Exists(Created(s, T(v)), t)
<1> DEFINE made == s.made \union Missing("kernel", {T(v)})
           r == Created(s, T(v))
<1>1. AllMissing("kernel", made)
  BY DEF AllMissing, Missing, Tables
<1>2. r = IF Cardinality(made) <= Cardinality(freeFrames) THEN [s EXCEPT !.made = made] ELSE s
  BY DEF Created
<1> HIDE DEF made, r
<1>3. [s EXCEPT !.made = made] = [entries |-> s.entries, counted |-> s.counted,
                                  made |-> made, stopped |-> s.stopped]
  OBVIOUS
<1>4. /\ r = [entries |-> s.entries, counted |-> s.counted, made |-> r.made, stopped |-> s.stopped]
      /\ r.made = made \/ r.made = s.made
  <2>1. CASE Cardinality(made) <= Cardinality(freeFrames)
    BY <1>2, <1>3, <2>1
  <2>2. CASE ~(Cardinality(made) <= Cardinality(freeFrames))
    BY <1>2, <2>2
  <2> QED BY <2>1, <2>2
<1>5. s.made \subseteq r.made /\ AllMissing("kernel", r.made)
  BY <1>1, <1>4 DEF made
<1>6. \A t : Exists(s, t) => Exists(r, t)
  BY <1>5 DEF Exists
<1> QED BY <1>4, <1>5, <1>6 DEF r

Fields(s) ==
  s = [entries |-> s.entries, counted |-> s.counted, made |-> s.made, stopped |-> s.stopped]

LEMMA StartKeeps ==
  ASSUME Inv, HiddenWithoutTable, NEW a, NEW b \in Pages["kernel"]
  PROVE  /\ Fields(Start(a, b)) /\ Kept(Start(a, b))
         /\ Start(a, b).entries = entry["kernel"]
<1> DEFINE s == [entries |-> entry["kernel"], counted |-> counted, made |-> {}, stopped |-> FALSE]
           r == Created(s, T(b))
           x == Start(a, b)
<1>1. Fields(s) /\ s.entries = entry["kernel"] /\ s.counted = counted /\ s.made = {}
  BY DEF Fields
<1>2. AllMissing("kernel", s.made)
  BY <1>1 DEF AllMissing
<1>3. x = [r EXCEPT !.stopped = ~(Exists(s, T(a)) /\ Exists(r, T(b)))]
  BY DEF Start
<1> HIDE DEF s, r, x
<1>4. /\ r = [entries |-> s.entries, counted |-> s.counted, made |-> r.made, stopped |-> s.stopped]
      /\ AllMissing("kernel", r.made)
  BY <1>1, <1>2, CreatedIs DEF Fields, r
<1>5. /\ Fields(x) /\ x.entries = entry["kernel"] /\ x.counted = counted /\ x.made = r.made
  BY <1>1, <1>3, <1>4 DEF Fields
<1>6. entry["kernel"] \in [Pages["kernel"] -> Entries]
  BY DEF Inv, Typed, TypedEntries, Dirs
<1>7. \A v \in Pages["kernel"] : entry["kernel"][v].present => Exists(x, T(v))
  BY DEF HiddenWithoutTable, Exists
<1> QED BY <1>4, <1>5, <1>6, <1>7 DEF Kept, x

LEMMA TurnKeeps ==
  ASSUME Inv, NEW s, Fields(s), Kept(s),
         NEW u \in Pages["kernel"], NEW v \in Pages["kernel"], NEW w \in BOOLEAN
  PROVE  /\ Fields(Turn(s, u, v, w)) /\ Kept(Turn(s, u, v, w))
         /\ \A x \in Pages["kernel"] : x # v => Turn(s, u, v, w).entries[x] = s.entries[x]
         /\ \A t : Exists(s, t) => Exists(Turn(s, u, v, w), t)
         /\ s.stopped => Turn(s, u, v, w) = s
<1> DEFINE r == Created(s, T(v))
           y == Turn(s, u, v, w)
           e == WithPermission(s.entries[u], w)
<1>1. /\ r = [entries |-> s.entries, counted |-> s.counted, made |-> r.made, stopped |-> s.stopped]
      /\ AllMissing("kernel", r.made)
      /\ \A t : Exists(s, t) => Exists(r, t)
  BY CreatedIs DEF Fields, Kept
<1>2. /\ s.stopped => y = s
      /\ ~s.stopped /\ Exists(s, T(u)) /\ Exists(r, T(v)) =>
           y = [entries |-> [s.entries EXCEPT ![v] = e],
                counted |-> IF u = v THEN s.counted ELSE s.counted \ {<<"kernel", v>>},
                made |-> r.made, stopped |-> FALSE]
      /\ ~s.stopped /\ ~(Exists(s, T(u)) /\ Exists(r, T(v))) => y = [r EXCEPT !.stopped = TRUE]
  BY DEF Turn
<1>3. /\ s.entries \in [Pages["kernel"] -> Entries] /\ s.entries[u] \in Entries
      /\ e \in Entries /\ e.present = s.entries[u].present
      /\ s.entries[u].frame \in Frames => e = s.entries[u]
  <2>1. s.entries[u] \in Entries
    BY DEF Kept
  <2>2. [frame |-> Frame0, present |-> FALSE] \in Entries
    BY DEF Entries
  <2>3. s.entries[u].frame \in Frames => s.entries[u] # Zero
    BY DEF Zero
  <2>4. \/ w /\ s.entries[u] = Zero /\ e = [frame |-> Frame0, present |-> FALSE]
        \/ e = s.entries[u]
    BY DEF WithPermission
  <2> HIDE DEF e
  <2>5. CASE w /\ s.entries[u] = Zero /\ e = [frame |-> Frame0, present |-> FALSE]
    <3>1. e \in Entries /\ e.present = FALSE /\ s.entries[u].present = FALSE
      BY <2>2, <2>5 DEF Zero
    <3> QED BY <2>1, <2>3, <2>5, <3>1 DEF Kept
  <2>6. CASE e = s.entries[u]
    BY <2>1, <2>6 DEF Kept
  <2> QED BY <2>4, <2>5, <2>6
<1> HIDE DEF r, y, e
<1>4. CASE s.stopped
  BY <1>2, <1>4 DEF y
<1>5. CASE ~s.stopped /\ ~(Exists(s, T(u)) /\ Exists(r, T(v)))
  <2>1. y = [entries |-> s.entries, counted |-> s.counted, made |-> r.made, stopped |-> TRUE]
    BY <1>1, <1>2, <1>5
  <2>2. /\ Fields(y) /\ y.entries = s.entries /\ y.counted = s.counted /\ y.made = r.made
    BY <2>1 DEF Fields
  <2>3. \A t : Exists(s, t) => Exists(y, t)
    BY <1>1, <2>2 DEF Exists
  <2>4. Kept(y)
    BY <1>1, <2>2, <2>3 DEF Kept
  <2> QED BY <1>5, <2>2, <2>3, <2>4 DEF y
<1>6. CASE ~s.stopped /\ Exists(s, T(u)) /\ Exists(r, T(v))
  <2> DEFINE c == IF u = v THEN s.counted ELSE s.counted \ {<<"kernel", v>>}
             m == [s.entries EXCEPT ![v] = e]
  <2>1. y = [entries |-> m, counted |-> c, made |-> r.made, stopped |-> FALSE]
    BY <1>2, <1>6
  <2>2. m \in [Pages["kernel"] -> Entries] /\ m[v] = e
        /\ \A x \in Pages["kernel"] : x # v => m[x] = s.entries[x]
    BY <1>3
  <2>3. c \subseteq s.counted /\ \A x \in Pages["env"] : <<"env", x>> \in s.counted => <<"env", x>> \in c
    OBVIOUS
  <2>4. u # v => <<"kernel", v>> \notin c
    OBVIOUS
  <2> HIDE DEF m, c
  <2>5. /\ Fields(y) /\ y.entries = m /\ y.counted = c /\ y.made = r.made
    BY <2>1 DEF Fields
  <2>6. \A t : Exists(r, t) => Exists(y, t)
    BY <2>5 DEF Exists
  <2>7. ASSUME NEW x \in Pages["kernel"], <<"kernel", x>> \in c
        PROVE  m[x] = entry["kernel"][x]
    <3>1. s.entries[x] = entry["kernel"][x] /\ <<"kernel", x>> \in counted
      BY <2>3, <2>7 DEF Kept
    <3>2. CASE x # v
      BY <2>2, <3>1, <3>2
    <3>3. CASE x = v
      <4>1. u = v
        BY <2>4, <2>7, <3>3
      <4> DEFINE p == <<"kernel", x>>
      <4>2. p \in counted /\ p[1] = "kernel" /\ p[2] = x
        BY <3>1
      <4> HIDE DEF p
      <4>3. entry[p[1]][p[2]].frame \in Frames
        BY <4>2 DEF Inv, Typed
      <4>4. s.entries[u].frame \in Frames
        BY <3>1, <3>3, <4>1, <4>2, <4>3
      <4> QED BY <1>3, <2>2, <3>1, <3>3, <4>1, <4>4
    <3> QED BY <3>2, <3>3
  <2>8. ASSUME NEW x \in Pages["kernel"], m[x].present PROVE Exists(y, T(x))
    <3>1. CASE x = v
      BY <1>6, <2>6, <3>1
    <3>2. CASE x # v
      BY <1>1, <2>2, <2>6, <2>8, <3>2 DEF Kept
    <3> QED BY <3>1, <3>2
  <2>9. Kept(y)
    BY <1>1, <2>2, <2>3, <2>5, <2>7, <2>8 DEF Kept
  <2> QED BY <1>1, <1>6, <2>2, <2>5, <2>6, <2>9 DEF y
<1> QED BY <1>4, <1>5, <1>6

(* The pages of a range, turn by turn.                                     *)
InRange(a, b, n) ==
  /\ a \in Pages["kernel"] /\ b \in Pages["kernel"]
  /\ \A i \in 0 .. n - 1 : a + i \in Pages["kernel"] /\ b + i \in Pages["kernel"]

LEMMA RangesAre ==
  ASSUME NEW r \in Ranges
  PROVE  /\ r[3] \in ShareSizes /\ r[3] \in Nat /\ MB \in Nat /\ r[3] * MB \in Nat
         /\ pagesRange(r[3]) \in {r[3] * MB, r[3] * MB + 1} /\ pagesRange(r[3]) \in Nat
         /\ r[3] % 4 = 0 => pagesRange(r[3]) = r[3] * MB
         /\ InRange(r[1], r[2], pagesRange(r[3]))
<1>1. r[3] \in Nat /\ r[3] \in ShareSizes
  BY SharesAssumption DEF Ranges
<1>2. MB \in Nat
  BY DEF MB
<1>3. r[3] * MB \in Nat
  BY <1>1, <1>2
<1>4. /\ pagesRange(r[3]) \in {r[3] * MB, r[3] * MB + 1} /\ pagesRange(r[3]) \in Nat
      /\ r[3] % 4 = 0 => pagesRange(r[3]) = r[3] * MB
  BY <1>3 DEF pagesRange
<1>5. InRange(r[1], r[2], pagesRange(r[3]))
  BY DEF Ranges, InRange
<1> QED BY <1>1, <1>2, <1>3, <1>4, <1>5

LEMMA TurnsKeep ==
  ASSUME Inv, HiddenWithoutTable, NEW n \in Nat, NEW a, NEW b, InRange(a, b, n), NEW w \in BOOLEAN
  PROVE  \A k \in 0 .. n : Fields(Turns(a, b, n, w)[k]) /\ Kept(Turns(a, b, n, w)[k])
<1> DEFINE t == Turns(a, b, n, w)
           P == {k \in 0 .. n : Fields(t[k]) /\ Kept(t[k])}
<1>1. t[0] = Start(a, b) /\ \A k \in 1 .. n : t[k] = Turn(t[k-1], a + k - 1, b + k - 1, w)
  BY TurnsAre
<1> HIDE DEF t
<1>2. 0 \in P
  <2>1. b \in Pages["kernel"]
    BY DEF InRange
  <2>2. Fields(Start(a, b)) /\ Kept(Start(a, b))
    BY <2>1, StartKeeps
  <2> QED BY <1>1, <2>2
<1>3. ASSUME NEW k \in 1 .. n, k - 1 \in P PROVE k \in P
  <2> DEFINE s == t[k-1]
             u == a + k - 1
             v == b + k - 1
  <2>1. u \in Pages["kernel"] /\ v \in Pages["kernel"]
    <3>1. k - 1 \in 0 .. n - 1 /\ a \in Nat /\ b \in Nat
      BY DEF InRange
    <3>2. a + (k - 1) \in Pages["kernel"] /\ b + (k - 1) \in Pages["kernel"]
      BY <3>1 DEF InRange
    <3>3. a + (k - 1) = u /\ b + (k - 1) = v
      BY <3>1
    <3> QED BY <3>2, <3>3
  <2>2. Fields(s) /\ Kept(s) /\ t[k] = Turn(s, u, v, w)
    BY <1>1, <1>3
  <2> HIDE DEF s, u, v
  <2>3. Fields(Turn(s, u, v, w)) /\ Kept(Turn(s, u, v, w))
    BY <2>1, <2>2, TurnKeeps
  <2> QED BY <2>2, <2>3
<1> HIDE DEF P
<1>4. \A k \in 0 .. n : k \in P
  BY <1>2, <1>3, UpTo
<1> QED BY <1>4 DEF P, t

LEMMA SrpStep ==
  ASSUME Inv, HiddenWithoutTable, NEW r \in Ranges, NEW w \in BOOLEAN,
         ShareRangeWithPermissions(r[1], r[2], r[3], w)
  PROVE  Good
<1> DEFINE n == pagesRange(r[3])
           s == Turns(r[1], r[2], n, w)[n]
<1>1. /\ Create(s.made) /\ entry' = [entry EXCEPT !["kernel"] = s.entries]
      /\ counted' = s.counted /\ damaged' = damaged
  BY DEF ShareRangeWithPermissions
<1>2. n \in Nat /\ InRange(r[1], r[2], n)
  BY RangesAre
<1> HIDE DEF n
<1>3. Kept(s)
  <2> DEFINE a == r[1]
             b == r[2]
  <2>1. InRange(a, b, n) /\ n \in 0 .. n
    BY <1>2
  <2> HIDE DEF a, b
  <2>2. Kept(Turns(a, b, n, w)[n])
    BY <1>2, <2>1, TurnsKeep
  <2> QED BY <2>2 DEF a, b
<1> HIDE DEF s
<1>4. "kernel" \in Dirs /\ "env" \in Dirs /\ "kernel" # "env" /\ TypedEntries(entry)
  BY DEF Dirs, Inv, Typed
<1>5. /\ DOMAIN entry' = Dirs /\ entry'["env"] = entry["env"] /\ entry'["kernel"] = s.entries
  BY <1>1, <1>4 DEF TypedEntries
<1>6. TypedEntries(entry')
  BY <1>3, <1>4, <1>5 DEF TypedEntries, Dirs, Kept
<1>7. counted' \subseteq counted /\ AllMissing("kernel", s.made)
  BY <1>1, <1>3 DEF Kept
<1>8. \A v \in Pages["env"] : <<"env", v>> \in counted => <<"env", v>> \in counted'
  BY <1>1, <1>3 DEF Kept
<1>9. ASSUME NEW u \in counted' PROVE entry'[u[1]][u[2]] = entry[u[1]][u[2]]
  <2>1. u \in AllEntries /\ u \in s.counted
    BY <1>1, <1>7 DEF Inv, Typed
  <2>2. u = <<u[1], u[2]>> /\ u[1] \in {"kernel", "env"} /\ u[2] \in Pages[u[1]]
    BY <2>1 DEF AllEntries, Dirs
  <2>3. CASE u[1] = "env"
    BY <1>5, <2>3
  <2>4. CASE u[1] = "kernel"
    BY <1>3, <1>5, <2>1, <2>2, <2>4 DEF Kept
  <2> QED BY <2>2, <2>3, <2>4
<1> QED BY <1>1, <1>5, <1>6, <1>7, <1>8, <1>9, CreateStep

-----------------------------------------------------------------------------
(* The beginning, and every step.                                          *)
LEMMA InitInv ==
  ASSUME Init
  PROVE  Inv /\ HiddenWithoutTable
<1>1. PICK m \in [BootPages -> Frames] :
        entry = [d \in Dirs |-> [v \in Pages[d] |->
                   IF d = "kernel" /\ v \in BootPages THEN Present(m[v]) ELSE Zero]]
  BY DEF Init
<1>2. /\ table = [d \in Dirs |-> [t \in Tables(d) |->
                    IF d = "kernel" /\ t \in BootTables THEN BootTable ELSE None]]
      /\ references = [f \in Frames |-> IF f = Frame0 THEN 1 ELSE 0]
      /\ freeFrames = Frames \ {Frame0}
      /\ counted = {} /\ damaged = {}
  BY DEF Init
<1>3. 0 \in 0 .. RefMod - 1 /\ 1 \in 0 .. RefMod - 1
  OBVIOUS
<1>4. Typed
  <2>1. TypedTables(table)
    BY <1>2 DEF TypedTables
  <2>2. TypedEntries(entry)
    <3>1. Zero \in Entries /\ \A f \in Frames : Present(f) \in Entries
      BY DEF Entries, Present
    <3> QED BY <1>1, <3>1 DEF TypedEntries
  <2>3. references \in [Frames -> 0 .. RefMod - 1]
    BY <1>2, <1>3
  <2> QED BY <1>2, <2>1, <2>2, <2>3 DEF Typed
<1>5. ASSUME NEW f \in Frames
      PROVE  TUses(table, f) = {} /\ EUses(counted, entry, f) = {}
  <2>1. \A d \in Dirs : \A t \in Tables(d) : table[d][t] # f
    BY <1>2
  <2> QED BY <1>2, <2>1 DEF TUses, EUses
<1>6. \A f \in Frames : Uses(f) = First(f)
  <2> SUFFICES ASSUME NEW f \in Frames PROVE Uses(f) = First(f)
    OBVIOUS
  <2>1. Cardinality(TUses(table, f)) = 0 /\ Cardinality(EUses(counted, entry, f)) = 0
    BY <1>5, FS_EmptySet
  <2>2. Uses(f) = Cardinality(TUses(table, f)) + Cardinality(EUses(counted, entry, f)) + First(f)
    BY UsesAre
  <2> QED BY <2>1, <2>2 DEF First
<1>7. FreeUnused
  BY <1>2, <1>6 DEF FreeUnused, First
<1>8. CountsCover
  BY <1>2, <1>6 DEF CountsCover, First
<1>9. EnvCounted
  BY <1>1 DEF EnvCounted, Dirs
<1>10. HiddenWithoutTable
  <2> SUFFICES ASSUME NEW v \in Pages["kernel"], entry["kernel"][v].present
               PROVE  table["kernel"][T(v)] # None
    BY DEF HiddenWithoutTable
  <2>1. v \in BootPages
    BY <1>1 DEF Zero, Dirs
  <2>2. T(v) \in BootTables /\ T(v) \in Tables("kernel")
    BY <2>1 DEF BootPages, Tables
  <2> QED BY <1>2, <2>2 DEF Dirs
<1> QED BY <1>4, <1>7, <1>8, <1>9, <1>10 DEF Inv, Counted

(* Page tables are made for what is written.                               *)
LEMMA HiddenNew ==
  ASSUME Inv, HiddenWithoutTable, NEW d \in Dirs, NEW ts, AllMissing(d, ts),
         NEW free \in SUBSET Frames, NEW new \in NewTables(d, ts, free), table' = WithTables(d, new),
         \A x \in Pages["kernel"] : entry'["kernel"][x].present =>
           \/ entry["kernel"][x].present \/ table["kernel"][T(x)] # None
           \/ d = "kernel" /\ T(x) \in ts
  PROVE  HiddenWithoutTable'
<1>1. TypedTables(table)
  BY DEF Inv, Typed
<1>2. /\ \A c \in Dirs : \A t \in Tables(c) : table[c][t] # None => table'[c][t] = table[c][t]
      /\ \A t \in ts : table'[d][t] # None
  BY <1>1, NewTablesUses
<1>3. ASSUME NEW x \in Pages["kernel"], entry'["kernel"][x].present
      PROVE  table'["kernel"][T(x)] # None
  <2>1. T(x) \in Tables("kernel") /\ "kernel" \in Dirs
    BY DEF Tables, Dirs
  <2>2. CASE entry["kernel"][x].present \/ table["kernel"][T(x)] # None
    BY <1>2, <2>1, <2>2 DEF HiddenWithoutTable
  <2>3. CASE d = "kernel" /\ T(x) \in ts
    BY <1>2, <2>3
  <2> QED BY <1>3, <2>2, <2>3
<1> QED BY <1>3 DEF HiddenWithoutTable

LEMMA HiddenMap ==
  ASSUME Inv, HiddenWithoutTable, NEW d \in Dirs, NEW v \in Pages[d], NEW f, NEW ts,
         NEW free \in SUBSET Frames, NEW new \in NewTables(d, ts, free),
         ts = Missing(d, {T(v)}),
         table' = WithTables(d, new), entry' = WithEntry(d, v, Present(f))
  PROVE  HiddenWithoutTable'
<1>1. AllMissing(d, ts)
  BY DEF AllMissing, Missing, Tables
<1>2. ASSUME NEW x \in Pages["kernel"], entry'["kernel"][x].present
      PROVE  \/ entry["kernel"][x].present \/ table["kernel"][T(x)] # None
             \/ d = "kernel" /\ T(x) \in ts
  <2>1. CASE d = "kernel" /\ x = v
    BY <2>1 DEF Missing
  <2>2. CASE d # "kernel" \/ x # v
    <3>1. entry'["kernel"][x] = entry["kernel"][x]
      BY <2>2 DEF WithEntry, Inv, Typed, TypedEntries, Dirs
    <3> QED BY <1>2, <3>1
  <2> QED BY <2>1, <2>2
<1> QED BY <1>1, <1>2, HiddenNew

LEMMA MapHidden ==
  ASSUME Inv, HiddenWithoutTable, NEW d \in Dirs, NEW v \in Pages[d], NEW f,
         NEW free \in SUBSET Frames, NEW refs, map_frame(d, f, v, free, refs)
  PROVE  HiddenWithoutTable'
<1> DEFINE ts == Missing(d, {T(v)})
<1>1. PICK new \in NewTables(d, ts, free) :
        table' = WithTables(d, new) /\ entry' = WithEntry(d, v, Present(f))
  BY DEF map_frame, WithEntry
<1>2. ts = Missing(d, {T(v)})
  OBVIOUS
<1> HIDE DEF ts
<1> QED BY <1>1, <1>2, HiddenMap

LEMMA SrpHidden ==
  ASSUME Inv, HiddenWithoutTable, NEW r \in Ranges, NEW w \in BOOLEAN,
         ShareRangeWithPermissions(r[1], r[2], r[3], w)
  PROVE  HiddenWithoutTable'
<1> DEFINE n == pagesRange(r[3])
           s == Turns(r[1], r[2], n, w)[n]
<1>1. /\ Create(s.made) /\ entry' = [entry EXCEPT !["kernel"] = s.entries]
  BY DEF ShareRangeWithPermissions
<1>2. n \in Nat /\ InRange(r[1], r[2], n)
  BY RangesAre
<1> HIDE DEF n
<1>3. Kept(s)
  <2> DEFINE a == r[1]
             b == r[2]
  <2>1. InRange(a, b, n) /\ n \in 0 .. n
    BY <1>2
  <2> HIDE DEF a, b
  <2>2. Kept(Turns(a, b, n, w)[n])
    BY <1>2, <2>1, TurnsKeep
  <2> QED BY <2>2 DEF a, b
<1> HIDE DEF s
<1>4. entry'["kernel"] = s.entries
  BY <1>1 DEF Inv, Typed, TypedEntries, Dirs
<1>5. PICK new \in NewTables("kernel", s.made, freeFrames) : table' = WithTables("kernel", new)
  BY <1>1 DEF Create
<1>6. \A x \in Pages["kernel"] : entry'["kernel"][x].present =>
           \/ entry["kernel"][x].present \/ table["kernel"][T(x)] # None
           \/ "kernel" = "kernel" /\ T(x) \in s.made
  BY <1>3, <1>4 DEF Kept, Exists
<1> DEFINE made == s.made
           d == "kernel"
<1>7. AllMissing(d, made) /\ freeFrames \in SUBSET Frames /\ d \in Dirs
  BY <1>3 DEF Kept, Inv, Typed, Dirs
<1>8. new \in NewTables(d, made, freeFrames) /\ table' = WithTables(d, new)
  BY <1>5
<1>9. \A x \in Pages["kernel"] : entry'["kernel"][x].present =>
           \/ entry["kernel"][x].present \/ table["kernel"][T(x)] # None
           \/ d = "kernel" /\ T(x) \in made
  BY <1>6
<1> HIDE DEF made, d
<1> QED BY <1>7, <1>8, <1>9, HiddenNew

LEMMA Step ==
  ASSUME Inv, HiddenWithoutTable, Next
  PROVE  (Good /\ HiddenWithoutTable') \/ UNCHANGED vars
<1>0. freeFrames \subseteq Frames /\ "env" \in Dirs /\ "kernel" \in Dirs
  BY DEF Inv, Typed, Dirs
<1>1. ASSUME NEW v \in Pages["env"], sys_allocate_page(v) PROVE Good /\ HiddenWithoutTable'
  <2>1. PICK f \in freeFrames :
          map_frame("env", f, v, freeFrames \ {f}, [references EXCEPT ![f] = 0])
    BY <1>1 DEF sys_allocate_page
  <2> DEFINE free == freeFrames \ {f}
             refs == [references EXCEPT ![f] = 0]
             d == "env"
  <2>2. map_frame(d, f, v, free, refs) /\ free \in SUBSET Frames /\ d \in Dirs /\ v \in Pages[d]
    BY <1>0, <2>1
  <2> HIDE DEF free, refs, d
  <2> QED BY <1>1, <2>2, AllocateStep, MapHidden
<1>2. ASSUME NEW v \in Pages["env"], SysAllocatePageNoTable(v) PROVE Good /\ HiddenWithoutTable'
  BY <1>2, NoTableStep DEF SysAllocatePageNoTable, HiddenWithoutTable
<1>3. CASE SysAllocatePageNoFrame
  BY <1>3 DEF SysAllocatePageNoFrame
<1>4. CASE SysAllocatePageInvalid
  BY <1>4, InvalidStep DEF SysAllocatePageInvalid, HiddenWithoutTable
<1>5. ASSUME NEW v \in Pages["kernel"], NEW f \in Frames, command_cvp(v, f)
      PROVE  Good /\ HiddenWithoutTable'
  <2> DEFINE d == "kernel"
  <2>1. map_frame(d, f, v, freeFrames, references) /\ freeFrames \in SUBSET Frames
        /\ d \in Dirs /\ v \in Pages[d]
    BY <1>0, <1>5 DEF command_cvp
  <2> HIDE DEF d
  <2> QED BY <1>5, <2>1, CvpStep, MapHidden
<1>6. ASSUME NEW v \in Pages["kernel"], NEW f \in Frames, ConnectPageToFrame(v, f)
      PROVE  Good /\ HiddenWithoutTable'
  <2> DEFINE d == "kernel"
             ts == Missing("kernel", {T(v)})
  <2>1. PICK new \in NewTables(d, ts, freeFrames) : table' = WithTables(d, new)
    BY <1>6 DEF ConnectPageToFrame, Create
  <2>2. /\ entry' = WithEntry(d, v, Present(f)) /\ ts = Missing(d, {T(v)})
        /\ freeFrames \in SUBSET Frames /\ d \in Dirs /\ v \in Pages[d]
    BY <1>0, <1>6 DEF ConnectPageToFrame, WithEntry
  <2> HIDE DEF d, ts
  <2> QED BY <1>6, <2>1, <2>2, CpfStep, HiddenMap
<1>7. ASSUME NEW v \in Pages["kernel"], command_dvp(v) PROVE Good /\ HiddenWithoutTable'
  <2>1. table' = table /\ entry' = [entry EXCEPT !["kernel"][v].present = FALSE]
    BY <1>7 DEF command_dvp
  <2>2. \A x \in Pages["kernel"] : entry'["kernel"][x].present => entry["kernel"][x].present
    <3>1. /\ DOMAIN entry = Dirs /\ "kernel" \in Dirs
          /\ entry["kernel"] \in [Pages["kernel"] -> Entries]
      BY DEF Inv, Typed, TypedEntries, Dirs
    <3>2. entry'["kernel"] = [entry["kernel"] EXCEPT ![v].present = FALSE]
      BY <2>1, <3>1
    <3>3. \A x \in Pages["kernel"] \ {v} : entry'["kernel"][x] = entry["kernel"][x]
      BY <3>1, <3>2
    <3>4. entry'["kernel"][v] = [entry["kernel"][v] EXCEPT !.present = FALSE]
          /\ entry["kernel"][v] \in Entries
      BY <3>1, <3>2
    <3>5. entry'["kernel"][v].present = FALSE
      BY <3>4 DEF Entries, Zero
    <3> QED BY <3>3, <3>5
  <2> QED BY <1>7, <2>1, <2>2, DvpStep DEF HiddenWithoutTable
<1>8. ASSUME NEW r \in Ranges, NEW w \in BOOLEAN, ShareRangeWithPermissions(r[1], r[2], r[3], w)
      PROVE  Good /\ HiddenWithoutTable'
  BY <1>8, SrpStep, SrpHidden
<1>9. CASE ClearUserSpace
  <2>1. /\ table' = [table EXCEPT !["kernel"] = [t \in Tables("kernel") |->
                   IF t \in BootTables THEN table["kernel"][t] ELSE None]]
        /\ entry' = [entry EXCEPT !["kernel"] = [v \in Pages["kernel"] |->
                   IF v \in BootPages THEN entry["kernel"][v] ELSE Zero]]
    BY <1>9 DEF ClearUserSpace
  <2>2. /\ table'["kernel"] = [t \in Tables("kernel") |->
                                 IF t \in BootTables THEN table["kernel"][t] ELSE None]
        /\ entry'["kernel"] = [v \in Pages["kernel"] |->
                                 IF v \in BootPages THEN entry["kernel"][v] ELSE Zero]
    BY <1>0, <2>1 DEF Inv, Typed, TypedTables, TypedEntries
  <2>3. ASSUME NEW x \in Pages["kernel"], entry'["kernel"][x].present
        PROVE  table'["kernel"][T(x)] # None
    <3>1. x \in BootPages /\ entry["kernel"][x].present
      BY <2>2, <2>3 DEF Zero
    <3>2. T(x) \in Tables("kernel") /\ T(x) \in BootTables
      BY <3>1 DEF BootPages, Tables
    <3>3. table["kernel"][T(x)] # None
      BY <3>1 DEF HiddenWithoutTable
    <3> QED BY <2>2, <3>2, <3>3
  <2> QED BY <1>9, <2>3, ClearStep DEF HiddenWithoutTable
<1>10. CASE Done
  BY <1>10 DEF Done
<1> QED BY <1>1, <1>2, <1>3, <1>4, <1>5, <1>6, <1>7, <1>8, <1>9, <1>10 DEF Next

-----------------------------------------------------------------------------
(* How the pages translate after srp.  A turn writes the page it is at and *)
(* no other, and page tables stay.                                         *)
LEMMA TurnsWrite ==
  ASSUME Inv, HiddenWithoutTable, NEW n \in Nat, NEW a, NEW b, InRange(a, b, n), NEW w \in BOOLEAN,
         NEW i \in 0 .. n, NEW k \in i .. n
  PROVE  /\ \A v \in Pages["kernel"] \ (b + i .. b + k - 1) :
              Turns(a, b, n, w)[k].entries[v] = Turns(a, b, n, w)[i].entries[v]
         /\ \A x : Exists(Turns(a, b, n, w)[i], x) => Exists(Turns(a, b, n, w)[k], x)
<1> DEFINE t == Turns(a, b, n, w)
           Written(j) == \A v \in Pages["kernel"] \ (b + i .. b + j - 1) : t[j].entries[v] = t[i].entries[v]
           Stay(j) == \A x : Exists(t[i], x) => Exists(t[j], x)
           P == {j \in 0 .. n : j >= i => Written(j) /\ Stay(j)}
<1>1. /\ \A j \in 1 .. n : t[j] = Turn(t[j-1], a + j - 1, b + j - 1, w)
      /\ \A j \in 0 .. n : Fields(t[j]) /\ Kept(t[j])
  BY TurnsAre, TurnsKeep
<1>2. b \in Nat
  BY DEF InRange
<1> HIDE DEF t
<1>3. 0 \in P
  <2>1. 0 >= i => i = 0
    OBVIOUS
  <2> QED BY <2>1
<1>4. ASSUME NEW j \in 1 .. n, j - 1 \in P PROVE j \in P
  <2> SUFFICES ASSUME j > i PROVE Written(j) /\ Stay(j)
    <3>1. j = i => Written(j) /\ Stay(j)
      OBVIOUS
    <3> HIDE DEF Written, Stay
    <3> QED BY <3>1
  <2> DEFINE s == t[j-1]
             u == a + j - 1
             v == b + j - 1
  <2>1. u \in Pages["kernel"] /\ v \in Pages["kernel"] /\ v \in Nat
    <3>1. j - 1 \in 0 .. n - 1 /\ a \in Nat
      BY DEF InRange
    <3>2. a + (j - 1) \in Pages["kernel"] /\ b + (j - 1) \in Pages["kernel"]
      BY <3>1 DEF InRange
    <3>3. a + (j - 1) = u /\ b + (j - 1) = v
      BY <1>2, <3>1
    <3> QED BY <3>2, <3>3
  <2>2. Fields(s) /\ Kept(s) /\ t[j] = Turn(s, u, v, w) /\ j - 1 \in 0 .. n
    BY <1>1
  <2>3. Written(j - 1) /\ Stay(j - 1)
    BY <1>4
  <2>4. v = b + j - 1
    OBVIOUS
  <2> HIDE DEF s, u, v
  <2>5. /\ \A x \in Pages["kernel"] : x # v => t[j].entries[x] = s.entries[x]
        /\ \A x : Exists(s, x) => Exists(t[j], x)
    BY <2>1, <2>2, TurnKeeps
  <2>6. Stay(j)
    BY <2>3, <2>5 DEF s
  <2>7. ASSUME NEW x \in Pages["kernel"] \ (b + i .. b + j - 1)
        PROVE  t[j].entries[x] = t[i].entries[x]
    <3>1. x \in Nat /\ x # v /\ x \notin (b + i .. b + (j - 1) - 1)
      BY <1>2, <2>1, <2>4
    <3>2. s.entries[x] = t[i].entries[x]
      BY <2>3, <3>1 DEF s
    <3> QED BY <2>5, <3>1, <3>2
  <2> QED BY <2>6, <2>7
<1> HIDE DEF P
<1>5. \A j \in 0 .. n : j \in P
  BY <1>3, <1>4, UpTo
<1>6. Written(k) /\ Stay(k)
  BY <1>5 DEF P
<1> QED BY <1>6 DEF t

(* With frames for the page tables ms, those among them are created.       *)
LEMMA CreatedFits ==
  ASSUME Inv, NEW s, Fields(s), NEW v \in Pages["kernel"],
         NEW ms, ms \subseteq Tables("kernel"), Cardinality(ms) <= Cardinality(freeFrames),
         s.made \subseteq ms, T(v) \in ms \/ table["kernel"][T(v)] # None
  PROVE  Created(s, T(v)).made \subseteq ms /\ Exists(Created(s, T(v)), T(v))
<1> DEFINE made == s.made \union Missing("kernel", {T(v)})
<1>1. made \subseteq ms
  BY DEF Missing
<1>2. T(v) \in made \/ table["kernel"][T(v)] # None
  BY DEF Missing
<1>3. Created(s, T(v)) = IF Cardinality(made) <= Cardinality(freeFrames) THEN [s EXCEPT !.made = made] ELSE s
  BY DEF Created
<1> HIDE DEF made
<1>4. IsFiniteSet(ms)
  <2>1. IsFiniteSet(Pages["kernel"])
    OBVIOUS
  <2>2. [x \in Pages["kernel"] |-> T(x)] \in Surjection(Pages["kernel"], Tables("kernel"))
    BY DEF Surjection, Tables
  <2>3. IsFiniteSet(Tables("kernel"))
    BY <2>1, <2>2, FS_Surjection
  <2> QED BY <2>3, FS_Subset
<1>5. Cardinality(freeFrames) \in Nat
  BY FS_Subset, FS_CardinalityType DEF Inv, Typed
<1>6. Cardinality(made) <= Cardinality(ms) /\ Cardinality(made) \in Nat /\ Cardinality(ms) \in Nat
  BY <1>1, <1>4, FS_Subset, FS_CardinalityType
<1>7. Created(s, T(v)) = [s EXCEPT !.made = made]
  BY <1>3, <1>5, <1>6
<1>8. [s EXCEPT !.made = made].made = made
  BY DEF Fields
<1> QED BY <1>1, <1>2, <1>7, <1>8 DEF Exists

(* As far as srp can come, it comes.                                       *)
LEMMA TurnsReach ==
  ASSUME Inv, HiddenWithoutTable, NEW n \in Nat, NEW a, NEW b, InRange(a, b, n), NEW w \in BOOLEAN,
         NEW i \in 0 .. n - 1, Reaches(a, b, i)
  PROVE  /\ Exists(Turns(a, b, n, w)[i+1], T(b + i))
         /\ Turns(a, b, n, w)[i+1].entries[b + i] =
              WithPermission(Turns(a, b, n, w)[i].entries[a + i], w)
<1> DEFINE t == Turns(a, b, n, w)
           ms == Missing("kernel", {T(b + j) : j \in 0 .. i})
           Goes(k) == ~t[k].stopped /\ t[k].made \subseteq ms
           Gets(k) == /\ Exists(t[k], T(b + k - 1))
                      /\ t[k].entries[b + k - 1] = WithPermission(t[k-1].entries[a + k - 1], w)
           P == {k \in 0 .. i + 1 : Goes(k) /\ (k >= 1 => Gets(k))}
<1>1. /\ t[0] = Start(a, b)
      /\ \A k \in 1 .. n : t[k] = Turn(t[k-1], a + k - 1, b + k - 1, w)
      /\ \A k \in 0 .. n : Fields(t[k]) /\ Kept(t[k])
  BY TurnsAre, TurnsKeep
<1>2. /\ a \in Nat /\ b \in Nat /\ a \in Pages["kernel"] /\ b \in Pages["kernel"]
      /\ \A j \in 0 .. i : a + j \in Pages["kernel"] /\ b + j \in Pages["kernel"]
  BY DEF InRange
<1>3. /\ ms \subseteq Tables("kernel") /\ Cardinality(ms) <= Cardinality(freeFrames)
      /\ \A j \in 0 .. i : /\ T(b + j) \in ms \/ table["kernel"][T(b + j)] # None
                           /\ table["kernel"][T(a + j)] # None
  BY <1>2 DEF Reaches, Missing, Tables
<1> HIDE DEF t, ms
<1>4. 0 \in P
  <2> DEFINE s == [entries |-> entry["kernel"], counted |-> counted, made |-> {}, stopped |-> FALSE]
             r == Created(s, T(b))
  <2>1. Fields(s) /\ s.made = {} /\ s.counted = counted /\ s.entries = entry["kernel"]
    BY DEF Fields
  <2>2. t[0] = [r EXCEPT !.stopped = ~(Exists(s, T(a)) /\ Exists(r, T(b)))]
    BY <1>1 DEF Start
  <2>3. a + 0 = a /\ b + 0 = b /\ 0 \in 0 .. i
    BY <1>2
  <2>4. Exists(s, T(a)) /\ (T(b) \in ms \/ table["kernel"][T(b)] # None)
    BY <1>3, <2>3 DEF Exists
  <2> HIDE DEF s
  <2>5. r.made \subseteq ms /\ Exists(r, T(b))
    BY <1>2, <1>3, <2>1, <2>4, CreatedFits
  <2>6. Fields(r)
    <3>1. AllMissing("kernel", s.made)
      BY <2>1 DEF AllMissing
    <3> QED BY <1>2, <2>1, <3>1, CreatedIs DEF Fields
  <2> HIDE DEF r
  <2>7. t[0].made = r.made /\ t[0].stopped = FALSE
    BY <2>2, <2>4, <2>5, <2>6 DEF Fields
  <2> QED BY <2>5, <2>7
<1>5. ASSUME NEW k \in 1 .. i + 1, k - 1 \in P PROVE k \in P
  <2> DEFINE s == t[k-1]
             u == a + k - 1
             v == b + k - 1
             r == Created(s, T(v))
  <2>1. /\ k - 1 \in 0 .. i /\ k \in 1 .. n /\ k - 1 \in 0 .. n
        /\ a + (k - 1) = u /\ b + (k - 1) = v
    BY <1>2
  <2>2. /\ u \in Pages["kernel"] /\ v \in Pages["kernel"]
        /\ T(v) \in ms \/ table["kernel"][T(v)] # None
        /\ table["kernel"][T(u)] # None
    BY <1>2, <1>3, <2>1
  <2>3. Fields(s) /\ Kept(s) /\ t[k] = Turn(s, u, v, w)
    BY <1>1, <2>1
  <2>4. ~s.stopped /\ s.made \subseteq ms
    BY <1>5
  <2> HIDE DEF s, u, v
  <2>5. r.made \subseteq ms /\ Exists(r, T(v)) /\ Exists(s, T(u))
    BY <1>3, <2>2, <2>3, <2>4, CreatedFits DEF Exists
  <2> DEFINE e == WithPermission(s.entries[u], w)
  <2>6. t[k] = [entries |-> [s.entries EXCEPT ![v] = e],
                counted |-> IF u = v THEN s.counted ELSE s.counted \ {<<"kernel", v>>},
                made |-> r.made, stopped |-> FALSE]
    BY <2>3, <2>4, <2>5 DEF Turn
  <2> HIDE DEF e, r
  <2>7. /\ t[k].made = r.made /\ t[k].stopped = FALSE
        /\ t[k].entries = [s.entries EXCEPT ![v] = e]
    BY <2>6
  <2>8. s.entries \in [Pages["kernel"] -> Entries]
    BY <2>3 DEF Kept
  <2>9. t[k].entries[v] = e /\ Exists(t[k], T(v))
    BY <2>2, <2>5, <2>7, <2>8 DEF Exists
  <2>10. Goes(k)
    BY <2>5, <2>7
  <2>11. Gets(k)
    BY <2>9 DEF e, s, u, v
  <2> HIDE DEF Goes, Gets
  <2>12. k \in 0 .. i + 1
    OBVIOUS
  <2> QED BY <2>10, <2>11, <2>12
<1> HIDE DEF P
<1>6. \A k \in 0 .. i + 1 : k \in P
  BY <1>4, <1>5, UpTo
<1>7. Gets(i + 1)
  BY <1>6 DEF P
<1>8. b + (i + 1) - 1 = b + i /\ a + (i + 1) - 1 = a + i /\ (i + 1) - 1 = i
  BY <1>2
<1> QED BY <1>7, <1>8 DEF t

(* A page that is copied translates as what it was copied from.            *)
LEMMA CopyTranslates ==
  ASSUME NEW e \in Entries, NEW w \in BOOLEAN
  PROVE  /\ WithPermission(e, w).present = e.present
         /\ e.present => WithPermission(e, w).frame = e.frame
<1> DEFINE x == WithPermission(e, w)
           z == [frame |-> Frame0, present |-> FALSE]
<1>1. (e = Zero /\ x = z) \/ x = e
  BY DEF WithPermission
<1>2. Zero.present = FALSE /\ z.present = FALSE
  BY DEF Zero
<1> HIDE DEF x, z
<1>3. CASE e = Zero /\ x = z
  BY <1>2, <1>3 DEF x
<1>4. CASE x = e
  BY <1>4 DEF x
<1> QED BY <1>1, <1>3, <1>4

Alike(a, b, asked, s) ==
  \A i \in 0 .. asked - 1 : Reaches(a, b, i) =>
    Then(s, b + i) = IF a < b /\ b <= a + i THEN Then(s, a + i) ELSE FindPhysicalAddress(a + i)
OthersStay(b, asked, size, s) ==
  \A v \in Pages["kernel"] \ (b .. b + asked - 1) :
    Then(s, v) = FindPhysicalAddress(v) \/ (size % 4 # 0 /\ v = b + asked)

LEMMA SharedAlike ==
  ASSUME Inv, HiddenWithoutTable, NEW n \in Nat, NEW a, NEW b, InRange(a, b, n), NEW w \in BOOLEAN,
         NEW asked \in Nat, asked <= n
  PROVE  Alike(a, b, asked, Turns(a, b, n, w)[n])
<1> DEFINE t == Turns(a, b, n, w)
           s == t[n]
<1>1. a \in Nat /\ b \in Nat /\ b \in Pages["kernel"]
  BY DEF InRange
<1>2. /\ t[0].entries = entry["kernel"]
      /\ \A k \in 0 .. n : Kept(t[k])
  BY <1>1, StartKeeps, TurnsAre, TurnsKeep
<1>3. \A i \in 0 .. n : \A k \in i .. n :
        /\ \A v \in Pages["kernel"] \ (b + i .. b + k - 1) : t[k].entries[v] = t[i].entries[v]
        /\ \A x : Exists(t[i], x) => Exists(t[k], x)
  <2> SUFFICES ASSUME NEW i \in 0 .. n, NEW k \in i .. n
               PROVE  /\ \A v \in Pages["kernel"] \ (b + i .. b + k - 1) :
                           t[k].entries[v] = t[i].entries[v]
                      /\ \A x : Exists(t[i], x) => Exists(t[k], x)
    OBVIOUS
  <2>1. \A x : Exists(t[i], x) => Exists(t[k], x)
    BY TurnsWrite
  <2>2. \A v \in Pages["kernel"] \ (b + i .. b + k - 1) : t[k].entries[v] = t[i].entries[v]
    BY TurnsWrite
  <2> QED BY <2>1, <2>2
<1>4. \A i \in 0 .. n - 1 : Reaches(a, b, i) =>
        /\ Exists(t[i+1], T(b + i))
        /\ t[i+1].entries[b + i] = WithPermission(t[i].entries[a + i], w)
  BY TurnsReach
<1> HIDE DEF t
<1> SUFFICES ASSUME NEW i \in 0 .. asked - 1, Reaches(a, b, i)
             PROVE  Then(s, b + i) = IF a < b /\ b <= a + i THEN Then(s, a + i)
                                                            ELSE FindPhysicalAddress(a + i)
  BY DEF Alike, t
<1>5. /\ i \in 0 .. n - 1 /\ i \in 0 .. n /\ i + 1 \in 0 .. n /\ n \in i .. n /\ n \in i + 1 .. n
      /\ 0 \in 0 .. n /\ i \in 0 .. n
  OBVIOUS
<1> DEFINE e == t[i].entries[a + i]
           x == WithPermission(t[i].entries[a + i], w)
<1>6. a + i \in Pages["kernel"] /\ b + i \in Pages["kernel"] /\ table["kernel"][T(a + i)] # None
  <2>1. i \in 0 .. i
    OBVIOUS
  <2> QED BY <1>5, <2>1 DEF InRange, Reaches
<1>7. x.present = e.present /\ (e.present => x.frame = e.frame)
  <2>1. e \in Entries
    BY <1>2, <1>5, <1>6 DEF Kept
  <2> HIDE DEF e
  <2>2. /\ WithPermission(e, w).present = e.present
        /\ e.present => WithPermission(e, w).frame = e.frame
    BY <2>1, CopyTranslates
  <2> QED BY <2>2 DEF e
<1>8. s.entries[b + i] = x /\ Exists(s, T(b + i))
  <2>1. t[i+1].entries[b + i] = x /\ Exists(t[i+1], T(b + i))
    BY <1>4, <1>5
  <2>2. b + i \notin b + (i + 1) .. b + n - 1
    BY <1>1
  <2>3. s.entries[b + i] = t[i+1].entries[b + i]
    BY <1>3, <1>5, <1>6, <2>2
  <2> QED BY <1>3, <1>5, <2>1, <2>3
<1> HIDE DEF x, e, s
<1>9. Then(s, b + i) = IF e.present THEN e.frame ELSE None
  BY <1>7, <1>8 DEF Then
<1>10. CASE a < b /\ b <= a + i
  <2>1. a + i \notin b + i .. b + n - 1
    BY <1>1, <1>10
  <2>2. s.entries[a + i] = e
    BY <1>3, <1>5, <1>6, <2>1 DEF e, s
  <2>3. Then(s, a + i) = IF e.present THEN e.frame ELSE None
    BY <1>6, <2>2 DEF Then, Exists
  <2> QED BY <1>9, <1>10, <2>3
<1>11. CASE ~(a < b /\ b <= a + i)
  <2>1. a + i \notin b + 0 .. b + i - 1
    BY <1>1, <1>11
  <2>2. e = t[0].entries[a + i]
    <3>1. i \in 0 .. n
      BY <1>5
    <3> QED BY <1>3, <1>5, <1>6, <2>1, <3>1 DEF e
  <2>3. FindPhysicalAddress(a + i) = IF e.present THEN e.frame ELSE None
    BY <1>2, <1>6, <2>2 DEF FindPhysicalAddress
  <2> QED BY <1>9, <1>11, <2>3
<1> QED BY <1>10, <1>11

LEMMA OthersAsBefore ==
  ASSUME Inv, HiddenWithoutTable, NEW n \in Nat, NEW a, NEW b, InRange(a, b, n), NEW w \in BOOLEAN,
         NEW asked \in Nat, NEW size, n = asked \/ (n = asked + 1 /\ size % 4 # 0)
  PROVE  OthersStay(b, asked, size, Turns(a, b, n, w)[n])
<1> DEFINE t == Turns(a, b, n, w)
           s == t[n]
<1>1. a \in Nat /\ b \in Nat /\ b \in Pages["kernel"] /\ 0 \in 0 .. n /\ n \in 0 .. n
  BY DEF InRange
<1>2. t[0].entries = entry["kernel"] /\ Kept(s)
  BY <1>1, StartKeeps, TurnsAre, TurnsKeep
<1>3. \A v \in Pages["kernel"] \ (b + 0 .. b + n - 1) : s.entries[v] = t[0].entries[v]
  BY <1>1, TurnsWrite
<1> HIDE DEF t
<1> SUFFICES ASSUME NEW v \in Pages["kernel"] \ (b .. b + asked - 1), ~(size % 4 # 0 /\ v = b + asked)
             PROVE  Then(s, v) = FindPhysicalAddress(v)
  BY DEF OthersStay, t
<1>4. v \in Nat /\ v \notin b + 0 .. b + n - 1
  BY <1>1
<1>5. s.entries[v] = entry["kernel"][v]
  BY <1>2, <1>3, <1>4
<1> HIDE DEF s
<1>6. entry["kernel"][v].present => table["kernel"][T(v)] # None
  BY DEF HiddenWithoutTable
<1> QED BY <1>5, <1>6 DEF Then, FindPhysicalAddress, Exists

LEMMA SharedInv ==
  ASSUME Inv, HiddenWithoutTable
  PROVE  SharedRangesTranslateAlike
<1> SUFFICES ASSUME NEW r \in Ranges, NEW w \in BOOLEAN
             PROVE  /\ Alike(r[1], r[2], r[3] * MB, Turns(r[1], r[2], pagesRange(r[3]), w)[pagesRange(r[3])])
                    /\ OthersStay(r[2], r[3] * MB, r[3],
                                  Turns(r[1], r[2], pagesRange(r[3]), w)[pagesRange(r[3])])
  BY DEF SharedRangesTranslateAlike, Alike, OthersStay
<1> DEFINE n == pagesRange(r[3])
           a == r[1]
           b == r[2]
           asked == r[3] * MB
           size == r[3]
<1>1. /\ n \in Nat /\ asked \in Nat /\ InRange(a, b, n)
      /\ n \in {asked, asked + 1} /\ (size % 4 = 0 => n = asked)
  BY RangesAre
<1> HIDE DEF n, a, b, asked, size
<1>2. asked <= n /\ (n = asked \/ (n = asked + 1 /\ size % 4 # 0))
  BY <1>1
<1>3. Alike(a, b, asked, Turns(a, b, n, w)[n])
  BY <1>1, <1>2, SharedAlike
<1>4. OthersStay(b, asked, size, Turns(a, b, n, w)[n])
  BY <1>1, <1>2, OthersAsBefore
<1> QED BY <1>3, <1>4 DEF n, a, b, asked, size

-----------------------------------------------------------------------------
LEMMA Always == Spec => [](Inv /\ HiddenWithoutTable)
<1>1. Init => Inv /\ HiddenWithoutTable
  BY InitInv
<1>2. Inv /\ HiddenWithoutTable /\ [Next]_vars => (Inv /\ HiddenWithoutTable)'
  <2>1. Inv /\ HiddenWithoutTable /\ UNCHANGED vars => (Inv /\ HiddenWithoutTable)'
    <3> SUFFICES ASSUME Inv, HiddenWithoutTable, UNCHANGED vars
                 PROVE  Inv' /\ HiddenWithoutTable'
      OBVIOUS
    <3>1. UNCHANGED <<entry, table, references, freeFrames, counted, damaged>>
      BY DEF vars
    <3>2. \A f : Uses(f)' = Uses(f)
      BY <3>1, UsesStay
    <3>3. Typed'
      BY <3>1 DEF Inv, Typed
    <3>4. FreeUnused' /\ CountsCover' /\ EnvCounted'
      BY <3>1, <3>2 DEF Inv, Counted, FreeUnused, CountsCover, EnvCounted
    <3>5. HiddenWithoutTable'
      BY <3>1 DEF HiddenWithoutTable
    <3> QED BY <3>3, <3>4, <3>5 DEF Inv, Counted
  <2> QED BY <2>1, Step DEF Good
<1> QED BY <1>1, <1>2, PTL DEF Spec

(* What memory_manager.c's counts mean in every state: of each frame whose *)
(* count is not damaged, a free one has no use and no count, and the count *)
(* of any other covers its page tables and counted entries, whatever cvp,  *)
(* cpf, srp, dvp and the opening test have done to it or to other frames;  *)
(* and every page of the environment was counted.                          *)
THEOREM CountsInvariant == Spec => []Inv
BY Always, PTL

(* No free frame whose count is not damaged is in use, and its count is    *)
(* never below its uses: free_frame and decrement_references give back, of *)
(* these, only what nobody uses, for any number of frames and commands.    *)
THEOREM FreeFramesAreUnused == Spec => []NoFreeFrameInUse
<1>1. Inv => NoFreeFrameInUse
  <2> SUFFICES ASSUME Inv PROVE NoFreeFrameInUse
    OBVIOUS
  <2>1. \A f : Uses(f) \in Nat
    BY UsesType DEF Inv
  <2>2. \A f \in Frames : references[f] \in Nat
    BY DEF Inv, Typed
  <2> QED BY <2>1, <2>2 DEF NoFreeFrameInUse, Inv, Counted, FreeUnused, CountsCover
<1> QED BY <1>1, CountsInvariant, PTL

(* The count of a frame that stays undamaged moves with its uses in every  *)
(* call, and is left above them only in a call that forgets one: map_frame *)
(* or cpf or srp over a hidden or counted entry, and the opening test.     *)
THEOREM CountsChangeWithUses == Spec => CountsFollowUses
<1>1. Inv /\ HiddenWithoutTable /\ [Next]_vars =>
        [\A f \in Frames \ damaged' :
           LET more == (references'[f] - Uses(f)') - (references[f] - Uses(f)) IN
           more = 0 \/ (more > 0 /\ Forgets(f))]_vars
  BY Step DEF Good, CountsFollow, More
<1> QED BY <1>1, Always, PTL DEF Spec, CountsFollowUses

(* A frame that stays undamaged is neither free nor in use only after      *)
(* sys_allocate_page took it and refused the address, or after one of its  *)
(* uses was forgotten.                                                     *)
THEOREM OnlyFailuresLose == Spec => LostOnlyInFailures
<1>1. Inv /\ HiddenWithoutTable /\ [Next]_vars =>
        [\A f \in (Lost' \ Lost) \ damaged' :
           SysAllocatePageInvalid \/ Forgets(f) \/ references[f] > Uses(f)]_vars
  BY Step DEF Good, LostInFailure
<1> QED BY <1>1, Always, PTL DEF Spec, LostOnlyInFailures

(* In any state the commands reach, damaged counts or not, and for ranges  *)
(* of any size that may overlap: srp makes the pages asked for translate   *)
(* as their sources, upwards, and changes the translation of no other page *)
(* but the one after them, and of that one only for a size that is not a   *)
(* multiple of 4.                                                          *)
THEOREM SharingTranslatesAlike == Spec => []SharedRangesTranslateAlike
BY Always, SharedInv, PTL
=============================================================================

----------------------------- MODULE LabPaging -----------------------------
(***************************************************************************)
(* The frames of the lab kernel (kern/): the primitives that allocate, map *)
(* and count them (memory_manager.c), under the system call that takes     *)
(* pages for a process (syscall.c), the commands of the kernel prompt that *)
(* connect pages by hand (command_prompt.c) and the test that gives such   *)
(* commands before the first is typed, and forgets page tables (tests.c).  *)
(*                                                                         *)
(* A command and a system call run to their end on one processor, so each  *)
(* is one action.  There are two directories: the kernel's, in which the   *)
(* commands work, and the one of the current environment, which this tree  *)
(* does not create itself: env_create stops before it does.                *)
(*                                                                         *)
(* Not every entry of a page table is counted: the boot, cpf and srp write *)
(* entries without a count, and cvp takes any frame, a free one as well.   *)
(* Two history variables, which no action depends on but for a bound, say  *)
(* what that does to the counts: `counted', the entries that map_frame has *)
(* counted, and `damaged', the frames whose count it has put wrong.        *)
(*                                                                         *)
(* What is in the frames is left out, and so is what the kernel reads and  *)
(* writes through an entry of its own that a command has changed.          *)
(***************************************************************************)
EXTENDS Integers, FiniteSets

CONSTANTS
  Frames,       \* physical frames
  Frame0,       \* the first one, in use from the boot on
  None,         \* no frame
  PT,           \* entries of a page table, 4 MB
  Pages,        \* of each directory, the pages in question
  BootTables,   \* the kernel's page tables that the boot made and filled
  BootTable,    \* what holds them, in use from the boot on
  ShareSizes,   \* sizes srp is called with, in MB
  MaxRefs,      \* bound on the references cvp lets a frame have
  MaxCommands,  \* bound on the commands, the test's and those typed
  RefMod        \* the counts wrap around here

Dirs == {"kernel", "env"}
MB == PT \div 4
T(v) == v \div PT
Tables(d) == {T(v) : v \in Pages[d]}

ASSUME FramesAssumption ==
  /\ IsFiniteSet(Frames) /\ Frame0 \in Frames
  /\ {None, BootTable} \intersect Frames = {} /\ None # BootTable
ASSUME PagesAssumption ==
  \A d \in {"kernel", "env"} : Pages[d] \subseteq Nat /\ IsFiniteSet(Pages[d])
ASSUME BoundsAssumption == /\ RefMod \in Nat /\ MaxRefs \in 1 .. RefMod - 2
                           /\ PT \in Nat /\ PT % 4 = 0 /\ PT > 0
ASSUME SharesAssumption == ShareSizes \subseteq Nat /\ MaxCommands \in Nat

VARIABLES
  entry,        \* page table entries: the frame and whether PRESENT is set
  table,        \* page directory entries: the frame of each page table
  references,   \* frames_info[].references
  freeFrames,   \* free_frame_list
  counted,      \* the pages whose entry was counted
  damaged,      \* the frames whose count was put wrong
  broken,       \* a frame was given back twice, or while it is a page table
  cleared,      \* the test has cleared the kernel's directory
  commands      \* how many commands were given

vars == <<entry, table, references, freeFrames, counted, damaged, broken, cleared, commands>>

Zero == [frame |-> None, present |-> FALSE]
Present(f) == [frame |-> f, present |-> TRUE]

(* The boot maps every frame at KERNEL_BASE, without counting, and puts all*)
(* on the list but the first and those that it took for itself, which are  *)
(* left out.                                                               *)
BootPages == {v \in Pages["kernel"] : T(v) \in BootTables}

Init ==
  /\ \E m \in [BootPages -> Frames] :
       /\ \A u, v \in BootPages : m[u] = m[v] => u = v
       /\ entry = [d \in Dirs |-> [v \in Pages[d] |->
                    IF d = "kernel" /\ v \in BootPages THEN Present(m[v]) ELSE Zero]]
  /\ table = [d \in Dirs |-> [t \in Tables(d) |->
                IF d = "kernel" /\ t \in BootTables THEN BootTable ELSE None]]
  /\ references = [f \in Frames |-> IF f = Frame0 THEN 1 ELSE 0]
  /\ freeFrames = Frames \ {Frame0}
  /\ counted = {} /\ damaged = {} /\ broken = FALSE
  /\ cleared = FALSE /\ commands = 0
-----------------------------------------------------------------------------
(* Fault: the frame is freed at its last but one reference.                *)
FaultyFreedEarly(refs, f) ==
  [references |-> [refs EXCEPT ![f] = (@ + RefMod - 1) % RefMod], freed |-> refs[f] <= 2]

(* decrement_references: the frame is freed when the count reaches 0; from *)
(* 0 the count wraps around.                                               *)
decrement(refs, f) ==
  [references |-> [refs EXCEPT ![f] = (@ + RefMod - 1) % RefMod], freed |-> refs[f] = 1]

(* get_page_table with create set: ts are new tables of d, free the frames *)
(* there are.                                                              *)
NewTables(d, ts, free) ==
  {f \in [ts -> free] : \A s, t \in ts : f[s] = f[t] => s = t}
WithTables(d, f) ==
  [table EXCEPT ![d] = [t \in Tables(d) |-> IF t \in DOMAIN f THEN f[t] ELSE @[t]]]
Missing(d, ts) == {t \in ts : table[d][t] = None}

(* Faults: the frame that was mapped before is not unmapped; a frame that  *)
(* is mapped again is unmapped first.                                      *)
FaultyUnmap(old, f, refs) == [references |-> refs, freed |-> FALSE]
FaultyRemap(old, f, refs) ==
  IF old.present THEN decrement(refs, old.frame) ELSE [references |-> refs, freed |-> FALSE]

(* What map_frame does with the entry it finds: a present mapping of       *)
(* another frame is unmapped, anything else is overwritten.                *)
Unmap(old, f, refs) ==
  IF old.present /\ old.frame # f THEN decrement(refs, old.frame)
                                  ELSE [references |-> refs, freed |-> FALSE]

NoTable(d, v, free) == Missing(d, {T(v)}) # {} /\ free = {}

(* map_frame of f at v where it succeeds, from the free list and counts    *)
(* its caller leaves.  It damages the count of f if that is on the list,   *)
(* and of the frame it unmaps if that entry was not counted.  free_frame   *)
(* does not ask whether the frame is on the list already or a page table.  *)
map_frame(d, f, v, free, refs) ==
  \E new \in NewTables(d, Missing(d, {T(v)}), free) :
    LET frames == {new[t] : t \in DOMAIN new}
        old    == entry[d][v]
        left   == free \ frames
        done   == Unmap(old, f, [g \in Frames |-> IF g \in frames THEN 1 ELSE refs[g]])
        freed  == IF done.freed THEN {old.frame} ELSE {}
    IN  /\ table' = WithTables(d, new)
        /\ entry' = [entry EXCEPT ![d][v] = Present(f)]
        /\ freeFrames' = left \union freed
        /\ references' = IF old = Present(f) THEN done.references
                         ELSE [done.references EXCEPT ![f] = (@ + 1) % RefMod]
        /\ counted' = IF old = Present(f) THEN counted ELSE counted \union {<<d, v>>}
        /\ damaged' = damaged \union (left \intersect {f}) \union
             {g \in {old.frame} : old.present /\ g # f /\ <<d, v>> \notin counted}
        /\ broken' = \E g \in freed : g \in left \/ \E c \in Dirs : \E t \in Tables(c) : table[c][t] = g
-----------------------------------------------------------------------------
(* No environment runs before the test has ended.                          *)
SystemCall == ~broken /\ cleared

(* The frame is taken first and its Frame_Info cleared.                    *)
sys_allocate_page(v) ==
  /\ SystemCall
  /\ \E f \in freeFrames :
       /\ ~NoTable("env", v, freeFrames \ {f})
       /\ map_frame("env", f, v, freeFrames \ {f}, [references EXCEPT ![f] = 0])
  /\ UNCHANGED <<cleared, commands>>

(* E_NO_MEM without a frame, and nothing else.                             *)
SysAllocatePageNoFrame == SystemCall /\ freeFrames = {} /\ UNCHANGED vars

(* E_INVAL: an address or permissions that are refused after the frame was *)
(* taken, and not given back.                                              *)
SysAllocatePageInvalid ==
  /\ SystemCall
  /\ \E f \in freeFrames : /\ freeFrames' = freeFrames \ {f}
                           /\ references' = [references EXCEPT ![f] = 0]
  /\ UNCHANGED <<entry, table, counted, damaged, broken, cleared, commands>>

(* E_NO_MEM: the last frame is taken, none is left for the page table, and *)
(* the count that is decremented is still 0.                               *)
SysAllocatePageNoTable(v) ==
  /\ SystemCall
  /\ \E f \in freeFrames :
       LET done == decrement([references EXCEPT ![f] = 0], f) IN
       /\ NoTable("env", v, freeFrames \ {f})
       /\ references' = done.references
       /\ freeFrames' = (freeFrames \ {f}) \union (IF done.freed THEN {f} ELSE {})
       /\ damaged' = damaged \union {f}
  /\ UNCHANGED <<entry, table, counted, broken, cleared, commands>>

(* One more line of the test or at the prompt.                             *)
Command == /\ ~broken /\ commands < MaxCommands
           /\ commands' = commands + 1 /\ UNCHANGED cleared

(* cvp connects a page to any frame, whether it is in use or not.          *)
command_cvp(v, f) ==
  /\ Command
  /\ references[f] < MaxRefs \/ f \in damaged
  /\ ~NoTable("kernel", v, freeFrames)
  /\ map_frame("kernel", f, v, freeFrames, references)

(* dvp hides the page and leaves the frame in the entry, and its count.    *)
command_dvp(v) ==
  /\ Command
  /\ table["kernel"][T(v)] # None
  /\ entry' = [entry EXCEPT !["kernel"][v].present = FALSE]
  /\ UNCHANGED <<table, references, freeFrames, counted, damaged, broken>>

(* The kernel's page tables ts are created, which takes any free frames.   *)
Create(ts) ==
  \E new \in NewTables("kernel", ts, freeFrames) :
    LET frames == {new[t] : t \in DOMAIN new} IN
    /\ table' = WithTables("kernel", new)
    /\ freeFrames' = freeFrames \ frames
    /\ references' = [g \in Frames |-> IF g \in frames THEN 1 ELSE references[g]]

(* Without a frame for the table cpf writes through a null pointer, which  *)
(* is left out.                                                            *)
ConnectPageToFrame(v, f) ==
  /\ Command
  /\ Create(Missing("kernel", {T(v)}))
  /\ entry' = [entry EXCEPT !["kernel"][v] = Present(f)]
  /\ counted' = counted \ {<<"kernel", v>>}
  /\ UNCHANGED <<damaged, broken>>

(* Between its commands the test once clears the user part of the kernel's *)
(* directory and gives none of the page tables back.                       *)
ClearUserSpace ==
  /\ ~broken /\ ~cleared /\ cleared' = TRUE
  /\ table' = [table EXCEPT !["kernel"] = [t \in Tables("kernel") |->
                 IF t \in BootTables THEN @[t] ELSE None]]
  /\ entry' = [entry EXCEPT !["kernel"] = [v \in Pages["kernel"] |->
                 IF v \in BootPages THEN @[v] ELSE Zero]]
  /\ counted' = {u \in counted : u[1] = "kernel" => u[2] \in BootPages}
  /\ UNCHANGED <<references, freeFrames, damaged, broken, commands>>
-----------------------------------------------------------------------------
(* Fault: there is always a page for the rest of the size.                 *)
FaultyPagesRange(size) == size * MB + 1

(* srp counts pages as if the size were in KB where it looks for a rest:   *)
(* one too many unless the size is a multiple of 4.                        *)
pagesRange(size) == size * MB + (IF size % 4 = 0 THEN 0 ELSE 1)

(* An entry that is zero and made writable is no longer zero: it holds     *)
(* frame 0, not present.                                                   *)
WithPermission(e, w) == IF w /\ e = Zero THEN [frame |-> Frame0, present |-> FALSE] ELSE e

(* One turn of srp's loop, of page u to page v: it looks for the source's  *)
(* page table, then creates the target's, and faults unless it has both    *)
(* (what is mapped at address 0 is left out).                              *)
(* `made' are the page tables the call has created so far, as long as      *)
(* there are frames for them.                                              *)
Exists(s, t) == t \in s.made \/ table["kernel"][t] # None
Created(s, t) ==
  LET made == s.made \union Missing("kernel", {t}) IN
  IF Cardinality(made) <= Cardinality(freeFrames) THEN [s EXCEPT !.made = made] ELSE s

Turn(s, u, v, w) ==
  LET r == Created(s, T(v)) IN
  IF s.stopped THEN s
  ELSE IF Exists(s, T(u)) /\ Exists(r, T(v))
    THEN [entries |-> [s.entries EXCEPT ![v] = WithPermission(s.entries[u], w)],
          counted |-> IF u = v THEN s.counted ELSE s.counted \ {<<"kernel", v>>},
          made |-> r.made, stopped |-> FALSE]
    ELSE [r EXCEPT !.stopped = TRUE]

(* Before the loop it looks for the tables of the first pages, and does    *)
(* nothing more unless it has both.                                        *)
Start(a, b) ==
  LET s == [entries |-> entry["kernel"], counted |-> counted, made |-> {}, stopped |-> FALSE]
      r == Created(s, T(b))
  IN  [r EXCEPT !.stopped = ~(Exists(s, T(a)) /\ Exists(r, T(b)))]

Turns(a, b, n, w) ==
  LET turn[k \in 0 .. n] ==
        IF k = 0 THEN Start(a, b) ELSE Turn(turn[k-1], a + k - 1, b + k - 1, w)
  IN  turn

ShareRangeWithPermissions(a, b, size, w) ==
  LET n == pagesRange(size)
      s == Turns(a, b, n, w)[n]
  IN
  /\ Command
  /\ Create(s.made)
  /\ entry' = [entry EXCEPT !["kernel"] = s.entries]
  /\ counted' = s.counted
  /\ UNCHANGED <<damaged, broken>>

Ranges == {r \in Pages["kernel"] \X Pages["kernel"] \X ShareSizes :
             \A i \in 0 .. pagesRange(r[3]) - 1 : {r[1] + i, r[2] + i} \subseteq Pages["kernel"]}

(* With a free list that leads nowhere, or a page table that is given away,*)
(* nothing more is said.                                                   *)
Done == broken /\ UNCHANGED vars

Next ==
  \/ \E v \in Pages["env"] : sys_allocate_page(v) \/ SysAllocatePageNoTable(v)
  \/ SysAllocatePageNoFrame
  \/ SysAllocatePageInvalid
  \/ \E v \in Pages["kernel"], f \in Frames : command_cvp(v, f) \/ ConnectPageToFrame(v, f)
  \/ \E v \in Pages["kernel"] : command_dvp(v)
  \/ \E r \in Ranges, w \in BOOLEAN : ShareRangeWithPermissions(r[1], r[2], r[3], w)
  \/ ClearUserSpace
  \/ Done

Spec == Init /\ [][Next]_vars
-----------------------------------------------------------------------------
(* The uses that hold a count of a frame: a page table, an entry that was  *)
(* counted, present or not, and the first frame for good.                  *)
TableUses(f) == {u \in Dirs \X UNION {Tables(d) : d \in Dirs} :
                   u[2] \in Tables(u[1]) /\ table[u[1]][u[2]] = f}
EntryUses(f) == {u \in counted : entry[u[1]][u[2]].frame = f}
Uses(f) == Cardinality(TableUses(f)) + Cardinality(EntryUses(f)) + IF f = Frame0 THEN 1 ELSE 0

(* A frame whose count nobody has damaged is never free while it is a page *)
(* table or stands in a counted entry, and its count is at least that of   *)
(* these uses, so that no later call frees it early.  What damages a count *)
(* damages that of one frame and no other: cvp of a free frame, map_frame  *)
(* over an entry that was not counted, and a call that fails for want of a *)
(* page table.  Hidden and replaced mappings, page tables taken in between,*)
(* cpf, srp and a cleared directory keep it.                               *)
NoFreeFrameInUse ==
  /\ \A f \in freeFrames \ damaged : Uses(f) = 0
  /\ \A f \in Frames \ damaged : references[f] >= Uses(f)

(* A use of f goes and leaves its count: a counted entry is written over   *)
(* while it is hidden, or by cpf or srp, or goes with its page table, and  *)
(* the page table with it.                                                 *)
Forgets(f) ==
  \/ \E u \in counted : LET e == entry[u[1]][u[2]] IN
       e.frame = f /\ (u \notin counted' \/ (~e.present /\ entry'[u[1]][u[2]].present))
  \/ \E d \in Dirs : \E t \in Tables(d) : table[d][t] = f /\ table'[d][t] # f

(* Frames that are neither free nor in use: nothing returns them.          *)
Lost == {f \in Frames \ freeFrames : Uses(f) = 0}

(* A frame that is not damaged gets lost in three ways only: in a          *)
(* sys_allocate_page that fails after it took the frame, in a step that    *)
(* forgets its use, or with the last use when one was forgotten before.    *)
LostOnlyInFailures ==
  [][\A f \in (Lost' \ Lost) \ damaged' :
       SysAllocatePageInvalid \/ Forgets(f) \/ references[f] > Uses(f)]_vars

(* The count of a frame that is not damaged changes with its uses, except  *)
(* where a use is forgotten, and then it is left too high.                 *)
CountsFollowUses ==
  [][\A f \in Frames \ damaged' :
       LET more == (references'[f] - Uses(f)') - (references[f] - Uses(f)) IN
       more = 0 \/ (more > 0 /\ Forgets(f))]_vars

(* fpa: the frame of a page.                                               *)
FindPhysicalAddress(v) ==
  IF table["kernel"][T(v)] # None /\ entry["kernel"][v].present
    THEN entry["kernel"][v].frame ELSE None

(* The same after srp, where s is what its loop has left.                  *)
Then(s, v) ==
  IF Exists(s, T(v)) /\ s.entries[v].present THEN s.entries[v].frame ELSE None

(* srp can come as far as page i: there are the source's page tables, and  *)
(* frames for those that the target's pages lack.                          *)
Reaches(a, b, i) ==
  /\ \A j \in 0 .. i : table["kernel"][T(a + j)] # None
  /\ Cardinality(Missing("kernel", {T(b + j) : j \in 0 .. i})) <= Cardinality(freeFrames)

(* After srp of some MB, in any state, the pages of the second range       *)
(* translate as those of the first did before, or do after it where the    *)
(* copy ran upwards into the range it was reading, and no other page       *)
(* translates differently, but for one: unless the size is a multiple of 4 *)
(* the page after the range asked for is overwritten as well.              *)
SharedRangesTranslateAlike ==
  \A r \in Ranges, w \in BOOLEAN :
    LET a == r[1]  b == r[2]  asked == r[3] * MB
        n == pagesRange(r[3])
        s == Turns(a, b, n, w)[n]
    IN  /\ \A i \in 0 .. asked - 1 : Reaches(a, b, i) =>
             Then(s, b + i) = IF a < b /\ b <= a + i THEN Then(s, a + i)
                                                     ELSE FindPhysicalAddress(a + i)
        /\ \A v \in Pages["kernel"] \ (b .. b + asked - 1) :
             Then(s, v) = FindPhysicalAddress(v) \/ (r[3] % 4 # 0 /\ v = b + asked)
=============================================================================

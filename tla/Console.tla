------------------------------ MODULE Console ------------------------------
(***************************************************************************)
(* The console of the lab kernel (kern/console.c): the serial line and the *)
(* keyboard feed one ring buffer, the kernel prompt empties it, and what   *)
(* is printed goes to a text screen that scrolls.                          *)
(*                                                                         *)
(* No trap handler calls serial_intr or kbd_intr: the devices are polled   *)
(* by cons_getc alone, each until it has nothing more.  A step is one turn *)
(* of those loops, or the end of one, or the removal of a character, or a  *)
(* character printed.                                                      *)
(*                                                                         *)
(* Keyboard, serial line and screen share no variable but the ring buffer, *)
(* so in a behaviour only one of them, `device', has anything to do.       *)
(***************************************************************************)
EXTENDS Integers, Sequences

CONSTANTS
  CONSBUFSIZE,         \* slots of the ring buffer
  CRT_COLS, CRT_ROWS,  \* the screen
  SerialData,          \* bytes of the serial line, NO for a zero
  KeySets,             \* the keys that are used in one behaviour
  MaxUnread,           \* bound on the characters received and not returned
  PaperRows            \* bound on the rows printed

CRT_SIZE == CRT_ROWS * CRT_COLS
NO      == "NO"        \* no character, 0
KEY_DEL == "DEL"

(* The keys, each with its scan code; the extended ones send E0 before it. *)
ScanCode == [lshift |-> 42, rshift |-> 54, lctl |-> 29, rctl |-> 29, lalt |-> 56,
             ralt |-> 56, caps |-> 58, a |-> 30, point |-> 83, del |-> 83]
Keys == DOMAIN ScanCode
Extended == {"rctl", "ralt", "del"}
SHIFTs == {"lshift", "rshift"}
CTLs   == {"lctl", "rctl"}
ALTs   == {"lalt", "ralt"}

ASSUME ConsoleAssumption ==
  /\ CONSBUFSIZE \in Nat \ {0}
  /\ CRT_COLS \in Nat \ {0} /\ CRT_ROWS \in Nat \ {0}
  /\ MaxUnread \in Nat
  /\ PaperRows \in Nat /\ PaperRows > CRT_ROWS
  /\ \A K \in KeySets : K \subseteq Keys

VARIABLES
  device,              \* the device that is in use in this behaviour
  keys,                \* the keys of it that are
  polling,             \* where cons_getc is: "serial", "keyboard", "take"
  buf, rpos, wpos,     \* cons
  unread,              \* the characters stored and not returned, oldest first
  shift,               \* kbd_proc_data's flags
  held,                \* the keys that are down, as far as the kernel was told
  sending,             \* after an E0, the key and direction that follow it
  rebooted,            \* the reset was written to port 0x92
  crt_buf, crt_pos,    \* the screen and the cursor
  paper, top           \* all that was printed, and the first row on the screen

cons     == <<buf, rpos, wpos, unread>>
keyboard == <<shift, held, sending, rebooted>>
screen   == <<crt_buf, crt_pos, paper, top>>
vars     == <<device, keys, polling, cons, keyboard, screen>>

None == <<>>
Cells == 0 .. CRT_SIZE - 1
PaperCells == 0 .. PaperRows * CRT_COLS - 1

(* The BIOS leaves its own text on the screen, and the cursor anywhere.    *)
Init ==
  /\ device \in {"serial", "keyboard", "screen"}
  /\ keys \in IF device = "keyboard" THEN KeySets ELSE {{}}
  /\ polling = "serial"
  /\ buf = [i \in 0 .. CONSBUFSIZE - 1 |-> NO]
  /\ rpos = 0 /\ wpos = 0
  /\ unread = <<>>
  /\ shift = {} /\ held = {} /\ sending = None
  /\ rebooted = FALSE
  /\ crt_buf = [i \in Cells |-> "bios"]
  /\ crt_pos \in IF device = "screen" THEN Cells ELSE {0}
  /\ paper = [i \in PaperCells |-> IF i \in Cells THEN "bios" ELSE "blank"]
  /\ top = 0
-----------------------------------------------------------------------------
(* Input.                                                                  *)

(* Fault: no place is skipped for a character that is 0.                   *)
FaultyStore(c) ==
  /\ buf' = [buf EXCEPT ![wpos] = c]
  /\ wpos' = (wpos + 1) % CONSBUFSIZE
  /\ unread' = IF c = NO THEN unread ELSE Append(unread, c)
  /\ UNCHANGED rpos

(* The body of cons_intr's loop: no test for a buffer that is full.        *)
Store(c) ==
  IF c = NO THEN UNCHANGED cons
  ELSE /\ buf' = [buf EXCEPT ![wpos] = c]
       /\ wpos' = (wpos + 1) % CONSBUFSIZE
       /\ unread' = Append(unread, c)
       /\ UNCHANGED rpos

SerialByte(c) ==
  /\ device = "serial" /\ polling = "serial"
  /\ Len(unread) < MaxUnread
  /\ Store(c)
  /\ UNCHANGED <<device, keys, polling, keyboard, screen>>

(* The line has nothing more, or there is no port.                         *)
SerialDone ==
  /\ device # "screen" /\ polling = "serial" /\ ~rebooted
  /\ polling' = "keyboard"
  /\ UNCHANGED <<device, keys, cons, keyboard, screen>>

(* The tables, for the keys above: 128 is added to an extended code.       *)
shiftcode(code) ==
  CASE code \in {42, 54}      -> {"SHIFT"}
    [] code \in {29, 29+128}  -> {"CTL"}
    [] code \in {56, 56+128}  -> {"ALT"}
    [] OTHER                  -> {}

togglecode(code) == IF code = 58 THEN {"CAPSLOCK"} ELSE {}

normalmap(code) ==
  CASE code = 30 -> "a" [] code = 83 -> "." [] code = 83+128 -> KEY_DEL [] OTHER -> NO
shiftmap(code) ==
  CASE code = 30 -> "A" [] code = 83 -> "." [] code = 83+128 -> KEY_DEL [] OTHER -> NO

(* Fault: the numeric pad's point is a delete key too.                     *)
FaultyCtlmap(code) ==
  CASE code = 30 -> "^A" [] code \in {83, 83+128} -> KEY_DEL [] OTHER -> NO

ctlmap(code) ==
  CASE code = 30 -> "^A" [] code = 83+128 -> KEY_DEL [] OTHER -> NO

charcode(flags, code) ==
  CASE "CTL" \in flags                        -> ctlmap(code)
    [] "SHIFT" \in flags /\ "CTL" \notin flags -> shiftmap(code)
    [] OTHER                                  -> normalmap(code)

Capital(c) == CASE c = "a" -> "A" [] c = "A" -> "a" [] OTHER -> c

SymmetricDifference(S, R) == (S \ R) \union (R \ S)

(* kbd_proc_data on the byte E0, on a release and on a press: the flags it *)
(* leaves and the character it returns.                                    *)
Escape == [flags |-> shift \union {"E0ESC"}, char |-> NO, reboot |-> FALSE]

(* Fault: the escape outlives the key it belongs to.                       *)
FaultyRelease(data) ==
  LET code == IF "E0ESC" \in shift THEN data ELSE data - 128
  IN  [flags |-> shift \ shiftcode(code), char |-> NO, reboot |-> FALSE]

Release(data) ==
  LET code == IF "E0ESC" \in shift THEN data ELSE data - 128
  IN  [flags |-> shift \ (shiftcode(code) \union {"E0ESC"}), char |-> NO, reboot |-> FALSE]

Press(data) ==
  LET code  == IF "E0ESC" \in shift THEN data + 128 ELSE data
      flags == SymmetricDifference((shift \ {"E0ESC"}) \union shiftcode(code), togglecode(code))
      c     == charcode(flags, code)
  IN  [flags |-> flags,
       char  |-> IF "CAPSLOCK" \in flags THEN Capital(c) ELSE c,
       reboot |-> {"CTL", "ALT"} \subseteq flags /\ c = KEY_DEL]

kbd_proc_data(data) ==
  CASE data = 224   -> Escape
    [] data < 128   -> Press(data)
    [] OTHER        -> Release(data)

(* What the keyboard can send: a key goes down, or repeats, or comes up.   *)
(* The machine is gone once the reset is written.                          *)
KeyEvents ==
  {<<k, TRUE>> : k \in keys} \union {<<k, FALSE>> : k \in held}

Byte(e) == IF e[2] THEN ScanCode[e[1]] ELSE ScanCode[e[1]] + 128

KeyboardByte(e) ==
  LET escape == sending = None /\ e[1] \in Extended
      got    == kbd_proc_data(IF escape THEN 224 ELSE Byte(e))
  IN
  /\ device = "keyboard" /\ polling = "keyboard" /\ ~rebooted
  /\ sending \in {None, e}
  /\ Len(unread) < MaxUnread
  /\ sending' = IF escape THEN e ELSE None
  /\ held' = IF escape THEN held ELSE IF e[2] THEN held \union {e[1]} ELSE held \ {e[1]}
  /\ shift' = got.flags
  /\ rebooted' = got.reboot
  /\ Store(got.char)
  /\ UNCHANGED <<device, keys, polling, screen>>

KeyboardDone ==
  /\ polling = "keyboard" /\ ~rebooted
  /\ polling' = "take"
  /\ UNCHANGED <<device, keys, cons, keyboard, screen>>

Waiting == (wpos - rpos + CONSBUFSIZE) % CONSBUFSIZE

(* The tail of cons_getc; with nothing in the buffer it returns 0 and      *)
(* getchar asks again.  What was overwritten is dropped from unread here.  *)
Take ==
  /\ polling = "take"
  /\ polling' = "serial"
  /\ IF rpos # wpos
       THEN /\ rpos' = (rpos + 1) % CONSBUFSIZE
            /\ unread' = SubSeq(unread, Len(unread) - Waiting + 2, Len(unread))
            /\ UNCHANGED <<buf, wpos>>
       ELSE UNCHANGED cons
  /\ UNCHANGED <<device, keys, keyboard, screen>>

Off == rebooted /\ UNCHANGED vars
-----------------------------------------------------------------------------
(* Output, on a screen s of cells and a cursor.                            *)
Chars == {"bs", "nl", "cr", "tab", "x"}

LineStart(pos) == pos - (pos % CRT_COLS)

(* Fault: the last row keeps what was in it.                               *)
FaultyScroll(s) ==
  IF s.pos < CRT_SIZE THEN s
  ELSE [cells |-> [i \in Cells |-> IF i < CRT_SIZE - CRT_COLS THEN s.cells[i + CRT_COLS]
                                                              ELSE s.cells[i]],
        pos   |-> s.pos - CRT_COLS]

Scroll(s) ==
  IF s.pos < CRT_SIZE THEN s
  ELSE [cells |-> [i \in Cells |-> IF i < CRT_SIZE - CRT_COLS THEN s.cells[i + CRT_COLS]
                                                              ELSE "blank"],
        pos   |-> s.pos - CRT_COLS]

Write(s, c) == [cells |-> [s.cells EXCEPT ![s.pos] = c], pos |-> s.pos + 1]

Blank(s) == Scroll(Write(s, "blank"))

cga_putc(s, c) ==
  Scroll(CASE c = "bs"  -> IF s.pos = 0 THEN s
                           ELSE [cells |-> [s.cells EXCEPT ![s.pos - 1] = "blank"], pos |-> s.pos - 1]
           [] c = "nl"  -> [s EXCEPT !.pos = LineStart(@ + CRT_COLS)]
           [] c = "cr"  -> [s EXCEPT !.pos = LineStart(@)]
           [] c = "tab" -> Blank(Blank(Blank(Blank(Blank(s)))))
           [] OTHER     -> Write(s, c))

(* The same on paper that never scrolls: only how far back the cursor may  *)
(* go depends on the rows that are in sight.                               *)
OnPaper(cells, pos, c) ==
  CASE c = "bs"  -> [cells |-> IF pos = top * CRT_COLS THEN cells
                               ELSE [cells EXCEPT ![pos - 1] = "blank"],
                     pos   |-> IF pos = top * CRT_COLS THEN pos ELSE pos - 1]
    [] c = "nl"  -> [cells |-> cells, pos |-> LineStart(pos) + CRT_COLS]
    [] c = "cr"  -> [cells |-> cells, pos |-> LineStart(pos)]
    [] c = "tab" -> [cells |-> [i \in PaperCells |-> IF i \in pos .. pos + 4 THEN "blank" ELSE cells[i]],
                     pos   |-> pos + 5]
    [] OTHER     -> [cells |-> [cells EXCEPT ![pos] = c], pos |-> pos + 1]

PaperPos == top * CRT_COLS + crt_pos

cons_putc(c) ==
  LET seen    == cga_putc([cells |-> crt_buf, pos |-> crt_pos], c)
      printed == OnPaper(paper, PaperPos, c)
      row     == printed.pos \div CRT_COLS
  IN
  /\ device = "screen"
  /\ row < PaperRows
  /\ crt_buf' = seen.cells
  /\ crt_pos' = seen.pos
  /\ paper' = printed.cells
  /\ top' = IF row - top < CRT_ROWS THEN top ELSE row - CRT_ROWS + 1
  /\ UNCHANGED <<device, keys, polling, cons, keyboard>>

Next ==
  \/ \E c \in SerialData : SerialByte(c)
  \/ SerialDone
  \/ \E e \in KeyEvents : KeyboardByte(e)
  \/ KeyboardDone
  \/ Take
  \/ Off
  \/ \E c \in Chars : cons_putc(c)

Spec == Init /\ [][Next]_vars
-----------------------------------------------------------------------------
(* The buffer holds the newest characters in the order they came, and how  *)
(* many of them is the number not yet returned modulo its size: up to one  *)
(* less than CONSBUFSIZE nothing is lost, one more and all of them are.    *)
BufferHoldsNewest ==
  /\ Waiting = Len(unread) % CONSBUFSIZE
  /\ \A i \in 1 .. Waiting :
       buf[(rpos + i - 1) % CONSBUFSIZE] = unread[Len(unread) - Waiting + i]

(* No modifier sticks: whatever keys go down, repeat and come up in        *)
(* between, left and right ones of a kind together, a flag is set only     *)
(* while a key of its kind is held, and the escape only between the E0 and *)
(* the code that belongs to it.                                            *)
ModifiersAreHeld ==
  /\ "SHIFT" \in shift => held \intersect SHIFTs # {}
  /\ "CTL" \in shift => held \intersect CTLs # {}
  /\ "ALT" \in shift => held \intersect ALTs # {}
  /\ "E0ESC" \in shift <=> sending # None

(* The machine is reset only by the delete key, not by the numeric pad's   *)
(* key of the same code, and with a control and an alt key down.           *)
RebootNeedsCtlAltDel ==
  [][rebooted' /\ ~rebooted =>
       /\ sending = <<"del", TRUE>>
       /\ held \intersect CTLs # {} /\ held \intersect ALTs # {}]_vars

(* The screen shows what was printed: its rows are those of the paper from *)
(* `top' on, and the cursor is on it, after any mixture of line ends,      *)
(* backspaces over them, tabs across several rows and scrolling.           *)
ScreenIsWindow ==
  /\ crt_pos \in Cells
  /\ \A i \in Cells : crt_buf[i] = paper[top * CRT_COLS + i]
=============================================================================

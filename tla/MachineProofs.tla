--------------------------- MODULE MachineProofs ---------------------------
(***************************************************************************)
(* Proofs about the parts next to the machine.  Console: the keyboard's    *)
(* flags, the reset, the ring buffer and the screen, for any size of the   *)
(* buffer and of the screen and any keys of the table.  Boot: what start-up*)
(* takes, maps and leaves free, in each of the three kernels and for any   *)
(* memory that is large enough.                                            *)
(***************************************************************************)
EXTENDS Console, Boot, FiniteSetTheorems, SequenceTheorems, TLAPS

-----------------------------------------------------------------------------
(* The keyboard.                                                           *)

(* The code that kbd_proc_data looks up for a key.                         *)
Code(k) == IF k \in Extended THEN ScanCode[k] + 128 ELSE ScanCode[k]

(* What the tables say of each key.                                        *)
LEMMA KeyTable ==
  ASSUME NEW k \in Keys
  PROVE  /\ ScanCode[k] \in 0 .. 95
         /\ k \in SHIFTs <=> "SHIFT" \in shiftcode(Code(k))
         /\ k \in CTLs <=> "CTL" \in shiftcode(Code(k))
         /\ k \in ALTs <=> "ALT" \in shiftcode(Code(k))
         /\ "E0ESC" \notin shiftcode(Code(k))
         /\ togglecode(Code(k)) \subseteq {"CAPSLOCK"}
         /\ ctlmap(Code(k)) = KEY_DEL <=> k = "del"
<1>1. Keys = {"lshift", "rshift", "lctl", "rctl", "lalt", "ralt", "caps", "a", "point", "del"}
  BY DEF Keys, ScanCode
<1>2. /\ ScanCode["lshift"] = 42 /\ ScanCode["rshift"] = 54 /\ ScanCode["lctl"] = 29
      /\ ScanCode["rctl"] = 29 /\ ScanCode["lalt"] = 56 /\ ScanCode["ralt"] = 56
      /\ ScanCode["caps"] = 58 /\ ScanCode["a"] = 30 /\ ScanCode["point"] = 83
      /\ ScanCode["del"] = 83
  BY DEF ScanCode
<1> HIDE DEF Keys, ScanCode
<1>3. ScanCode[k] \in 0 .. 95 /\ (k \in CTLs <=> ScanCode[k] = 29)
  BY <1>1, <1>2 DEF CTLs
<1>4. /\ k \in SHIFTs <=> Code(k) \in {42, 54}
      /\ k \in CTLs <=> Code(k) \in {29, 29+128}
      /\ k \in ALTs <=> Code(k) \in {56, 56+128}
      /\ k = "del" <=> Code(k) = 83+128
      /\ Code(k) \in Int
  BY <1>1, <1>2 DEF SHIFTs, CTLs, ALTs, Code, Extended
<1> DEFINE c == Code(k)
<1> HIDE DEF c
<1>5. /\ "SHIFT" \in shiftcode(c) <=> c \in {42, 54}
      /\ "CTL" \in shiftcode(c) <=> c \in {29, 29+128}
      /\ "ALT" \in shiftcode(c) <=> c \in {56, 56+128}
      /\ "E0ESC" \notin shiftcode(c)
  <2>1. CASE c \in {42, 54}
    BY <2>1 DEF shiftcode
  <2>2. CASE c \in {29, 29+128}
    BY <2>2 DEF shiftcode
  <2>3. CASE c \in {56, 56+128}
    BY <2>3 DEF shiftcode
  <2>4. CASE c \notin {42, 54} /\ c \notin {29, 29+128} /\ c \notin {56, 56+128}
    BY <2>4 DEF shiftcode
  <2> QED BY <2>1, <2>2, <2>3, <2>4
<1>6. ctlmap(c) = KEY_DEL <=> c = 83+128
  BY DEF ctlmap, KEY_DEL, NO
<1>7. togglecode(c) \subseteq {"CAPSLOCK"}
  BY DEF togglecode
<1> QED BY <1>3, <1>4, <1>5, <1>6, <1>7 DEF c

(* What is sent between the E0 and the code after it.                      *)
Sending ==
  sending = None \/ \E k \in Extended, down \in BOOLEAN : sending = <<k, down>>

KeyboardInv ==
  /\ keys \subseteq Keys
  /\ held \subseteq keys
  /\ Sending
  /\ ModifiersAreHeld

(* What one byte of a key does to the flags: the escape is set before it   *)
(* exactly if the key is an extended one.                                  *)
LEMMA PressIs ==
  ASSUME NEW k \in Keys, "E0ESC" \in shift <=> k \in Extended
  PROVE  LET got == kbd_proc_data(ScanCode[k]) IN
         /\ "SHIFT" \in got.flags <=> "SHIFT" \in shift \/ k \in SHIFTs
         /\ "CTL" \in got.flags <=> "CTL" \in shift \/ k \in CTLs
         /\ "ALT" \in got.flags <=> "ALT" \in shift \/ k \in ALTs
         /\ "E0ESC" \notin got.flags
         /\ got.reboot => k = "del" /\ {"CTL", "ALT"} \subseteq got.flags
<1>1. kbd_proc_data(ScanCode[k]) = Press(ScanCode[k])
  BY KeyTable DEF kbd_proc_data
<1>2. (IF "E0ESC" \in shift THEN ScanCode[k] + 128 ELSE ScanCode[k]) = Code(k)
  BY DEF Code
<1> DEFINE flags == SymmetricDifference((shift \ {"E0ESC"}) \union shiftcode(Code(k)),
                                        togglecode(Code(k)))
<1>3. /\ Press(ScanCode[k]).flags = flags
      /\ Press(ScanCode[k]).reboot
           = ({"CTL", "ALT"} \subseteq flags /\ charcode(flags, Code(k)) = KEY_DEL)
  BY <1>2 DEF Press
<1>4. /\ "SHIFT" \in flags <=> "SHIFT" \in shift \/ k \in SHIFTs
      /\ "CTL" \in flags <=> "CTL" \in shift \/ k \in CTLs
      /\ "ALT" \in flags <=> "ALT" \in shift \/ k \in ALTs
      /\ "E0ESC" \notin flags
  BY KeyTable DEF SymmetricDifference
<1> HIDE DEF flags
<1>5. "CTL" \in flags => charcode(flags, Code(k)) = ctlmap(Code(k))
  BY DEF charcode
<1> QED BY <1>1, <1>3, <1>4, <1>5, KeyTable

LEMMA ReleaseIs ==
  ASSUME NEW k \in Keys, "E0ESC" \in shift <=> k \in Extended
  PROVE  LET got == kbd_proc_data(ScanCode[k] + 128) IN
         /\ "SHIFT" \in got.flags <=> "SHIFT" \in shift /\ k \notin SHIFTs
         /\ "CTL" \in got.flags <=> "CTL" \in shift /\ k \notin CTLs
         /\ "ALT" \in got.flags <=> "ALT" \in shift /\ k \notin ALTs
         /\ "E0ESC" \notin got.flags
         /\ ~got.reboot
<1>1. kbd_proc_data(ScanCode[k] + 128) = Release(ScanCode[k] + 128)
  BY KeyTable DEF kbd_proc_data
<1>2. (IF "E0ESC" \in shift THEN ScanCode[k] + 128 ELSE (ScanCode[k] + 128) - 128) = Code(k)
  BY KeyTable DEF Code
<1>3. Release(ScanCode[k] + 128)
        = [flags |-> shift \ (shiftcode(Code(k)) \union {"E0ESC"}), char |-> NO, reboot |-> FALSE]
  BY <1>2 DEF Release
<1> QED BY <1>1, <1>3, KeyTable

LEMMA KeyboardStep ==
  ASSUME KeyboardInv, NEW e \in KeyEvents, KeyboardByte(e)
  PROVE  /\ KeyboardInv'
         /\ rebooted' => /\ sending = <<"del", TRUE>>
                         /\ held \intersect CTLs # {} /\ held \intersect ALTs # {}
<1> USE DEF KeyboardInv
<1>1. PICK k \in keys, down \in BOOLEAN : e = <<k, down>>
  BY DEF KeyEvents
<1>2. k \in Keys /\ e[1] = k /\ e[2] = down /\ e # None
  BY <1>1 DEF None
<1> DEFINE escape == sending = None /\ k \in Extended
           got == kbd_proc_data(IF escape THEN 224 ELSE Byte(e))
<1>3. /\ sending \in {None, e}
      /\ sending' = IF escape THEN e ELSE None
      /\ held' = IF escape THEN held ELSE IF down THEN held \union {k} ELSE held \ {k}
      /\ shift' = got.flags
      /\ rebooted' = got.reboot
      /\ keys' = keys
  BY <1>1, <1>2 DEF KeyboardByte
<1>4. keys' \subseteq Keys /\ held' \subseteq keys' /\ Sending'
  BY <1>1, <1>3 DEF Sending
<1>5. CASE escape
  <2>1. got = [flags |-> shift \union {"E0ESC"}, char |-> NO, reboot |-> FALSE]
    BY <1>5 DEF kbd_proc_data, Escape
  <2> HIDE DEF got
  <2> QED BY <1>2, <1>3, <1>4, <1>5, <2>1 DEF ModifiersAreHeld
<1>6. CASE ~escape
  <2>1. "E0ESC" \in shift <=> k \in Extended
    <3>1. sending = e => k \in Extended
      BY <1>1, <1>2 DEF Sending
    <3> QED BY <1>2, <1>3, <1>6, <3>1 DEF ModifiersAreHeld
  <2>2. CASE down
    <3>1. got = kbd_proc_data(ScanCode[k])
      BY <1>2, <1>6, <2>2 DEF Byte
    <3>2. /\ "SHIFT" \in got.flags <=> "SHIFT" \in shift \/ k \in SHIFTs
          /\ "CTL" \in got.flags <=> "CTL" \in shift \/ k \in CTLs
          /\ "ALT" \in got.flags <=> "ALT" \in shift \/ k \in ALTs
          /\ "E0ESC" \notin got.flags
          /\ got.reboot => k = "del" /\ {"CTL", "ALT"} \subseteq got.flags
      BY <1>2, <2>1, <3>1, PressIs
    <3> HIDE DEF got
    <3>3. ModifiersAreHeld'
      BY <1>3, <1>6, <2>2, <3>2 DEF ModifiersAreHeld
    <3>4. ASSUME rebooted'
          PROVE  /\ sending = <<"del", TRUE>>
                 /\ held \intersect CTLs # {} /\ held \intersect ALTs # {}
      <4>1. k = "del" /\ "CTL" \in got.flags /\ "ALT" \in got.flags
        BY <1>3, <3>2, <3>4
      <4>2. sending = e
        BY <1>3, <1>6, <4>1 DEF Extended
      <4>3. sending = <<"del", TRUE>>
        BY <1>1, <2>2, <4>1, <4>2
      <4> QED BY <3>2, <4>1, <4>3 DEF ModifiersAreHeld, CTLs, ALTs
    <3> QED BY <1>4, <3>3, <3>4
  <2>3. CASE ~down
    <3>1. got = kbd_proc_data(ScanCode[k] + 128)
      BY <1>2, <1>6, <2>3 DEF Byte
    <3>2. /\ "SHIFT" \in got.flags <=> "SHIFT" \in shift /\ k \notin SHIFTs
          /\ "CTL" \in got.flags <=> "CTL" \in shift /\ k \notin CTLs
          /\ "ALT" \in got.flags <=> "ALT" \in shift /\ k \notin ALTs
          /\ "E0ESC" \notin got.flags
          /\ ~got.reboot
      BY <1>2, <2>1, <3>1, ReleaseIs
    <3> HIDE DEF got
    <3> QED BY <1>3, <1>4, <1>6, <2>3, <3>2 DEF ModifiersAreHeld
  <2> QED BY <2>2, <2>3
<1> QED BY <1>5, <1>6

LEMMA KeyboardRest ==
  ASSUME KeyboardInv, [Next]_vars, \A e \in KeyEvents : ~KeyboardByte(e)
  PROVE  KeyboardInv' /\ rebooted' = rebooted
<1>1. UNCHANGED <<keys, keyboard>>
  BY DEF Next, SerialByte, SerialDone, KeyboardDone, Take, Off, cons_putc, vars, keyboard
<1> QED BY <1>1 DEF KeyboardInv, Sending, ModifiersAreHeld, keyboard

LEMMA InitKeyboard == Init => KeyboardInv
BY ConsoleAssumption DEF Init, KeyboardInv, Sending, ModifiersAreHeld

(* No modifier sticks, and the escape marks exactly the code after an E0,  *)
(* for any keys of the table pressed in any order (console.c:301-345).     *)
THEOREM NoModifierSticks == Spec => []ModifiersAreHeld
<1>1. KeyboardInv /\ [Next]_vars => KeyboardInv'
  BY KeyboardStep, KeyboardRest
<1>2. KeyboardInv => ModifiersAreHeld
  BY DEF KeyboardInv
<1> QED BY <1>1, <1>2, InitKeyboard, PTL DEF Spec

(* Nothing but the delete key resets the machine, and that only with a     *)
(* control and an alt key held (console.c:339-343).                        *)
THEOREM ResetIsCtlAltDel == Spec => RebootNeedsCtlAltDel
<1> DEFINE A == rebooted' /\ ~rebooted =>
                  /\ sending = <<"del", TRUE>>
                  /\ held \intersect CTLs # {} /\ held \intersect ALTs # {}
<1>1. KeyboardInv /\ [Next]_vars => KeyboardInv'
  BY KeyboardStep, KeyboardRest
<1>2. KeyboardInv /\ [Next]_vars => [A]_vars
  <2> SUFFICES ASSUME KeyboardInv, [Next]_vars PROVE A
    OBVIOUS
  <2>1. CASE \E e \in KeyEvents : KeyboardByte(e)
    BY <2>1, KeyboardStep
  <2>2. CASE \A e \in KeyEvents : ~KeyboardByte(e)
    BY <2>2, KeyboardRest
  <2> QED BY <2>1, <2>2
<1>3. RebootNeedsCtlAltDel <=> [][A]_vars
  BY DEF RebootNeedsCtlAltDel
<1> HIDE DEF A
<1> QED BY <1>1, <1>2, <1>3, InitKeyboard, PTL DEF Spec
-----------------------------------------------------------------------------
(* The ring buffer.                                                        *)
KeyChars == {"a", "A", "^A", ".", KEY_DEL, NO}
Bytes == SerialData \union KeyChars
Slots == 0 .. CONSBUFSIZE - 1

BufferInv ==
  /\ rpos \in Slots /\ wpos \in Slots
  /\ buf \in [Slots -> Bytes]
  /\ unread \in Seq(Bytes)
  /\ BufferHoldsNewest

LEMMA Remainder ==
  ASSUME NEW k \in Nat \ {0}, NEW x \in Int, NEW q \in Int, NEW r \in 0 .. k-1, x = k * q + r
  PROVE  x % k = r
<1> DEFINE p == x \div k
           m == x % k
<1>1. p \in Int /\ m \in 0 .. k-1 /\ x = k * p + m
  OBVIOUS
<1> HIDE DEF p, m
<1> DEFINE d == q - p
<1>2. d \in Int /\ k * q = k * p + k * d
  BY <1>1
<1>3. k * d = m - r
  BY <1>1, <1>2
<1> HIDE DEF d
<1>4. d >= 1 => k * d >= k
  BY <1>2
<1>5. d <= -1 => k * d <= -k
  BY <1>2
<1>6. d = 0
  BY <1>1, <1>2, <1>3, <1>4, <1>5
<1> QED BY <1>1, <1>3, <1>6 DEF m

(* What wraps round, on a ring of k places.                                *)
LEMMA Wrap ==
  ASSUME NEW k \in Nat \ {0}
  PROVE  /\ \A x \in 0 .. 2*k - 1 : x % k = IF x < k THEN x ELSE x - k
         /\ \A x \in Nat : x % k \in 0 .. k-1
         /\ \A x \in Nat : (x + 1) % k = IF x % k = k-1 THEN 0 ELSE (x % k) + 1
<1>1. \A x \in 0 .. 2*k - 1 : x % k = IF x < k THEN x ELSE x - k
  OBVIOUS
<1>2. \A x \in Nat : x % k \in 0 .. k-1
  OBVIOUS
<1>3. ASSUME NEW x \in Nat
      PROVE  (x + 1) % k = IF x % k = k-1 THEN 0 ELSE (x % k) + 1
  <2> DEFINE q == x \div k
             r == IF x % k = k-1 THEN 0 ELSE (x % k) + 1
             d == IF x % k = k-1 THEN q + 1 ELSE q
  <2>1. q \in Int /\ x = k * q + (x % k) /\ x % k \in 0 .. k-1
    OBVIOUS
  <2>2. k * (q + 1) = k * q + k
    BY <2>1
  <2>3. d \in Int /\ r \in 0 .. k-1 /\ x + 1 = k * d + r
    BY <2>1, <2>2
  <2> HIDE DEF q, r, d
  <2>4. x + 1 \in Int
    OBVIOUS
  <2> QED BY <2>3, <2>4, Remainder DEF r
<1> QED BY <1>1, <1>2, <1>3

LEMMA KeyCharIs ==
  ASSUME NEW data
  PROVE  kbd_proc_data(data).char \in KeyChars
<1>1. \A flags, code : charcode(flags, code) \in KeyChars
  BY DEF charcode, ctlmap, shiftmap, normalmap, KeyChars
<1>2. \A c \in KeyChars : Capital(c) \in KeyChars
  BY DEF Capital, KeyChars, KEY_DEL, NO
<1>3. Press(data).char \in KeyChars
  BY <1>1, <1>2 DEF Press
<1>4. Escape.char \in KeyChars /\ Release(data).char \in KeyChars
  BY DEF Escape, Release, KeyChars
<1> QED BY <1>3, <1>4 DEF kbd_proc_data

(* The same for the ring buffer, under a name the solver does not expand.  *)
Mod(x) == x % CONSBUFSIZE

LEMMA ModIs ==
  /\ CONSBUFSIZE \in Nat \ {0}
  /\ \A x \in 0 .. 2*CONSBUFSIZE - 1 :
       Mod(x) = IF x < CONSBUFSIZE THEN x ELSE x - CONSBUFSIZE
  /\ \A x \in Nat : Mod(x) \in 0 .. CONSBUFSIZE - 1 /\ Mod(x) <= x
  /\ \A x \in Nat : Mod(x + 1) = IF Mod(x) = CONSBUFSIZE - 1 THEN 0 ELSE Mod(x) + 1
<1>1. CONSBUFSIZE \in Nat \ {0}
  BY ConsoleAssumption
<1>2. \A x \in 0 .. 2*CONSBUFSIZE - 1 :
        Mod(x) = IF x < CONSBUFSIZE THEN x ELSE x - CONSBUFSIZE
  BY <1>1, Wrap DEF Mod
<1>3. \A x \in Nat : Mod(x) \in 0 .. CONSBUFSIZE - 1
  BY <1>1, Wrap DEF Mod
<1>4. \A x \in Nat : Mod(x) <= x
  BY <1>1, <1>2, <1>3
<1>5. \A x \in Nat : Mod(x + 1) = IF Mod(x) = CONSBUFSIZE - 1 THEN 0 ELSE Mod(x) + 1
  BY <1>1, Wrap DEF Mod
<1> QED BY <1>1, <1>2, <1>3, <1>4, <1>5

LEMMA NewestIs ==
  /\ Waiting = Mod(wpos - rpos + CONSBUFSIZE)
  /\ Waiting' = Mod(wpos' - rpos' + CONSBUFSIZE)
  /\ BufferHoldsNewest <=>
       /\ Waiting = Mod(Len(unread))
       /\ \A i \in 1 .. Waiting : buf[Mod(rpos + i - 1)] = unread[Len(unread) - Waiting + i]
  /\ BufferHoldsNewest' <=>
       /\ Waiting' = Mod(Len(unread'))
       /\ \A i \in 1 .. Waiting' :
            buf'[Mod(rpos' + i - 1)] = unread'[Len(unread') - Waiting' + i]
<1>1. Waiting = Mod(wpos - rpos + CONSBUFSIZE) /\ Waiting' = Mod(wpos' - rpos' + CONSBUFSIZE)
  BY DEF Waiting, Mod
<1> HIDE DEF Waiting
<1>2. BufferHoldsNewest <=>
        /\ Waiting = Mod(Len(unread))
        /\ \A i \in 1 .. Waiting : buf[Mod(rpos + i - 1)] = unread[Len(unread) - Waiting + i]
  BY DEF BufferHoldsNewest, Mod
<1>3. BufferHoldsNewest' <=>
        /\ Waiting' = Mod(Len(unread'))
        /\ \A i \in 1 .. Waiting' :
             buf'[Mod(rpos' + i - 1)] = unread'[Len(unread') - Waiting' + i]
  BY DEF BufferHoldsNewest, Mod
<1> QED BY <1>1, <1>2, <1>3

(* Where the buffer's positions and the number of waiting characters go.   *)
Gap(r, w) == Mod(w - r + CONSBUFSIZE)

LEMMA StoredIs ==
  ASSUME NEW r \in Slots, NEW w \in Slots
  PROVE  /\ Mod(w + 1) \in Slots
         /\ Gap(r, w) \in Slots
         /\ Gap(r, Mod(w + 1)) = IF Gap(r, w) = CONSBUFSIZE - 1 THEN 0 ELSE Gap(r, w) + 1
         /\ Mod(r + Gap(r, w)) = w
         /\ \A i \in 1 .. Gap(r, w) : Mod(r + i - 1) \in Slots \ {w}
<1>1. Gap(r, w) = IF w < r THEN w - r + CONSBUFSIZE ELSE w - r
  BY ModIs DEF Gap, Slots
<1>2. Mod(w + 1) = IF w = CONSBUFSIZE - 1 THEN 0 ELSE w + 1
  BY ModIs DEF Slots
<1>3. Mod(w + 1) \in Slots
  BY <1>2, ModIs DEF Slots
<1>4. Gap(r, Mod(w + 1)) = IF Mod(w + 1) < r THEN Mod(w + 1) - r + CONSBUFSIZE ELSE Mod(w + 1) - r
  BY <1>3, ModIs DEF Gap, Slots
<1>5. Mod(r + Gap(r, w)) = w
  BY <1>1, ModIs DEF Slots
<1>6. ASSUME NEW i \in 1 .. Gap(r, w) PROVE Mod(r + i - 1) \in Slots \ {w}
  BY <1>1, ModIs DEF Slots
<1>7. Gap(r, w) \in Slots
  BY <1>1, ModIs DEF Slots
<1>8. Gap(r, Mod(w + 1)) = IF Gap(r, w) = CONSBUFSIZE - 1 THEN 0 ELSE Gap(r, w) + 1
  <2>1. CONSBUFSIZE \in Nat \ {0} /\ r \in 0 .. CONSBUFSIZE - 1 /\ w \in 0 .. CONSBUFSIZE - 1
    BY ModIs DEF Slots
  <2>2. CASE w = CONSBUFSIZE - 1
    BY ONLY <1>1, <1>2, <1>4, <2>1, <2>2
  <2>3. CASE w # CONSBUFSIZE - 1
    BY ONLY <1>1, <1>2, <1>4, <2>1, <2>3
  <2> QED BY <2>2, <2>3
<1> QED BY ONLY <1>3, <1>5, <1>6, <1>7, <1>8

LEMMA TakenIs ==
  ASSUME NEW r \in Slots, NEW w \in Slots, r # w
  PROVE  /\ Mod(r + 1) \in Slots
         /\ Gap(r, w) \in 1 .. CONSBUFSIZE - 1
         /\ Gap(Mod(r + 1), w) = Gap(r, w) - 1
         /\ \A i \in 1 .. Gap(r, w) - 1 : Mod(Mod(r + 1) + i - 1) = Mod(r + (i+1) - 1)
<1>1. Gap(r, w) = IF w < r THEN w - r + CONSBUFSIZE ELSE w - r
  BY ModIs DEF Gap, Slots
<1>2. Mod(r + 1) = IF r = CONSBUFSIZE - 1 THEN 0 ELSE r + 1
  BY ModIs DEF Slots
<1>3. Mod(r + 1) \in Slots
  BY <1>2, ModIs DEF Slots
<1>4. Gap(Mod(r + 1), w) = IF w < Mod(r + 1) THEN w - Mod(r + 1) + CONSBUFSIZE ELSE w - Mod(r + 1)
  BY <1>3, ModIs DEF Gap, Slots
<1>5. ASSUME NEW i \in 1 .. Gap(r, w) - 1 PROVE Mod(Mod(r + 1) + i - 1) = Mod(r + (i+1) - 1)
  <2>1. Mod(r + 1) + i - 1 = IF r = CONSBUFSIZE - 1 THEN i - 1 ELSE r + i
    BY <1>2 DEF Slots
  <2>2. r + (i+1) - 1 = r + i /\ r + i \in 0 .. 2*CONSBUFSIZE - 1
    BY <1>1, ModIs DEF Slots
  <2>3. i - 1 \in 0 .. CONSBUFSIZE - 1
    BY <1>1, ModIs DEF Slots
  <2>4. CASE r = CONSBUFSIZE - 1
    BY <2>1, <2>2, <2>3, <2>4, ModIs
  <2>5. CASE r # CONSBUFSIZE - 1
    BY <2>1, <2>2, <2>5
  <2> QED BY <2>4, <2>5
<1>6. Gap(r, w) \in 1 .. CONSBUFSIZE - 1
  BY ONLY <1>1, r \in Slots, w \in Slots, r # w, ModIs DEF Slots
<1>7. Gap(Mod(r + 1), w) = Gap(r, w) - 1
  BY ONLY <1>1, <1>2, <1>4, r \in Slots, w \in Slots, r # w, ModIs DEF Slots
<1> QED BY ONLY <1>3, <1>5, <1>6, <1>7

LEMMA StoreKeepsNewest ==
  ASSUME BufferInv, NEW c \in Bytes, Store(c)
  PROVE  BufferInv'
<1> USE DEF BufferInv
<1>1. CASE c = NO
  BY <1>1 DEF Store, cons, BufferHoldsNewest, Waiting
<1>2. CASE c # NO
  <2>1. /\ buf' = [buf EXCEPT ![wpos] = c]
        /\ wpos' = Mod(wpos + 1)
        /\ unread' = Append(unread, c)
        /\ rpos' = rpos
    BY <1>2 DEF Store, Mod
  <2>2. /\ wpos' \in Slots
        /\ Waiting \in 0 .. CONSBUFSIZE - 1
        /\ Waiting' = IF Waiting = CONSBUFSIZE - 1 THEN 0 ELSE Waiting + 1
        /\ Mod(rpos + Waiting) = wpos
        /\ \A i \in 1 .. Waiting : Mod(rpos + i - 1) \in Slots \ {wpos}
    <3>1. Waiting = Gap(rpos, wpos) /\ Waiting' = Gap(rpos, Mod(wpos + 1))
      BY <2>1, NewestIs DEF Gap
    <3> HIDE DEF Waiting
    <3>2. Waiting \in 0 .. CONSBUFSIZE - 1 /\ wpos' \in Slots
      BY <2>1, <3>1, StoredIs DEF Slots
    <3> QED BY <3>1, <3>2, StoredIs
  <2>3. /\ unread' \in Seq(Bytes)
        /\ Len(unread) \in Nat /\ Len(unread') = Len(unread) + 1
        /\ \A i \in 1 .. Len(unread) : unread'[i] = unread[i]
        /\ unread'[Len(unread) + 1] = c
    BY <2>1
  <2>4. Waiting' = Mod(Len(unread'))
    BY <2>2, <2>3, ModIs, NewestIs
  <2>5. ASSUME NEW i \in 1 .. Waiting'
        PROVE  buf'[Mod(rpos + i - 1)] = unread'[Len(unread') - Waiting' + i]
    <3>1. Waiting' = Waiting + 1 /\ i \in 1 .. Waiting + 1 /\ Waiting <= Len(unread)
      <4>1. Waiting <= Len(unread)
        BY <2>2, <2>3, ModIs, NewestIs
      <4> QED BY <2>2, <2>5, <4>1
    <3>2. CASE i = Waiting + 1
      <4>1. rpos + i - 1 = rpos + Waiting
        BY ONLY rpos \in Slots, <2>2, <3>2, ModIs DEF Slots
      <4>2. Len(unread') - Waiting' + i = Len(unread) + 1
        BY ONLY <2>2, <2>3, <3>1, <3>2
      <4> QED BY <2>1, <2>2, <2>3, <4>1, <4>2
    <3>3. CASE i \in 1 .. Waiting
      <4>1. /\ Len(unread') - Waiting' + i = Len(unread) - Waiting + i
            /\ Len(unread) - Waiting + i \in 1 .. Len(unread)
        BY <2>2, <2>3, <3>1, <3>3
      <4>2. buf[Mod(rpos + i - 1)] = unread[Len(unread) - Waiting + i]
        BY <3>3, NewestIs
      <4>3. buf'[Mod(rpos + i - 1)] = buf[Mod(rpos + i - 1)]
        BY <2>1, <2>2, <3>3
      <4> QED BY <2>3, <4>1, <4>2, <4>3
    <3> QED BY <2>2, <3>1, <3>2, <3>3
  <2>6. buf' \in [Slots -> Bytes] /\ rpos' \in Slots
    BY <2>1
  <2>7. BufferHoldsNewest'
    BY <2>1, <2>4, <2>5, NewestIs
  <2> QED BY <2>2, <2>3, <2>6, <2>7
<1> QED BY <1>1, <1>2

LEMMA TakeKeepsNewest ==
  ASSUME BufferInv, Take
  PROVE  BufferInv'
<1> USE DEF BufferInv
<1>1. CASE rpos = wpos
  BY <1>1 DEF Take, cons, BufferHoldsNewest, Waiting
<1>2. CASE rpos # wpos
  <2>1. /\ rpos' = Mod(rpos + 1)
        /\ unread' = SubSeq(unread, Len(unread) - Waiting + 2, Len(unread))
        /\ UNCHANGED <<buf, wpos>>
    BY <1>2 DEF Take, Mod
  <2>2. /\ rpos' \in Slots
        /\ Waiting \in 1 .. CONSBUFSIZE - 1
        /\ Waiting' = Waiting - 1
        /\ \A i \in 1 .. Waiting' :
              Mod(rpos' + i - 1) = Mod(rpos + (i+1) - 1)
    BY <1>2, <2>1, TakenIs, NewestIs DEF Gap
  <2>3. Len(unread) \in Nat /\ Waiting <= Len(unread)
    BY <2>2, ModIs, NewestIs
  <2>4. /\ unread' \in Seq(Bytes)
        /\ Len(unread') = Waiting - 1
        /\ \A i \in 1 .. Waiting - 1 : unread'[i] = unread[Len(unread) - Waiting + 1 + i]
    <3> DEFINE m == Len(unread) - Waiting + 2
    <3>1. m \in 1 .. Len(unread) + 1 /\ m \in Int /\ Len(unread) - m + 1 = Waiting - 1
      BY <2>2, <2>3
    <3>2. unread' = SubSeq(unread, m, Len(unread))
      BY <2>1
    <3>3. \A i \in 1 .. Waiting - 1 : m + i - 1 = Len(unread) - Waiting + 1 + i
      BY <2>2, <2>3
    <3> HIDE DEF m
    <3> QED BY <2>2, <2>3, <3>1, <3>2, <3>3
  <2>5. Waiting' = Mod(Len(unread'))
    BY <2>2, <2>4, ModIs
  <2>6. ASSUME NEW i \in 1 .. Waiting'
        PROVE  buf'[Mod(rpos' + i - 1)] = unread'[Len(unread') - Waiting' + i]
    <3>1. i + 1 \in 1 .. Waiting /\ Len(unread') - Waiting' + i = i
      BY <2>2, <2>4
    <3>2. buf[Mod(rpos + (i+1) - 1)] = unread[Len(unread) - Waiting + (i+1)]
      BY <3>1, NewestIs
    <3>3. Len(unread) - Waiting + (i+1) = Len(unread) - Waiting + 1 + i
      BY <2>2, <2>3
    <3> QED BY <2>1, <2>2, <2>4, <3>1, <3>2, <3>3
  <2>7. BufferHoldsNewest'
    BY <2>1, <2>5, <2>6, NewestIs
  <2> QED BY <2>1, <2>2, <2>4, <2>7
<1> QED BY <1>1, <1>2

(* The buffer holds the newest characters in their order, and as many as   *)
(* the unread ones modulo its size, for a buffer of any size               *)
(* (console.c:361-410).                                                    *)
THEOREM RingHoldsNewest == Spec => []BufferHoldsNewest
<1>1. Init => BufferInv
  <2> SUFFICES ASSUME Init PROVE BufferInv
    OBVIOUS
  <2>1. Waiting = 0
    BY ConsoleAssumption, Wrap DEF Init, Waiting
  <2>2. 0 % CONSBUFSIZE = 0
    BY ConsoleAssumption, Wrap
  <2>3. buf \in [Slots -> Bytes] /\ unread \in Seq(Bytes) /\ Len(unread) = 0
    BY DEF Init, Slots, Bytes, KeyChars
  <2> QED BY <2>1, <2>2, <2>3, ConsoleAssumption DEF Init, BufferInv, BufferHoldsNewest, Slots
<1>2. BufferInv /\ [Next]_vars => BufferInv'
  <2> SUFFICES ASSUME BufferInv, [Next]_vars PROVE BufferInv'
    OBVIOUS
  <2>1. ASSUME NEW c \in SerialData, SerialByte(c) PROVE BufferInv'
    BY <2>1, StoreKeepsNewest DEF SerialByte, Bytes
  <2>2. ASSUME NEW e \in KeyEvents, KeyboardByte(e) PROVE BufferInv'
    <3>1. PICK data : Store(kbd_proc_data(data).char)
      BY <2>2 DEF KeyboardByte
    <3> QED BY <3>1, KeyCharIs, StoreKeepsNewest DEF Bytes
  <2>3. CASE Take
    BY <2>3, TakeKeepsNewest
  <2>4. CASE UNCHANGED cons
    BY <2>4 DEF cons, BufferInv, BufferHoldsNewest, Waiting
  <2> QED BY <2>1, <2>2, <2>3, <2>4
          DEF Next, SerialDone, KeyboardDone, Off, cons_putc, vars
<1>3. BufferInv => BufferHoldsNewest
  BY DEF BufferInv
<1> QED BY <1>1, <1>2, <1>3, PTL DEF Spec
-----------------------------------------------------------------------------
(* The screen.                                                             *)

(* Division by the width of the screen: Rest is what a remainder is, under *)
(* names the solver does not expand.                                       *)
Width == CRT_COLS
Times(k) == k * Width

LEMMA WidthIs ==
  /\ Width \in Nat \ {0}
  /\ Times(0) = 0 /\ Times(1) = Width
  /\ \A k \in Int : Times(k) \in Int /\ Times(k + 1) = Times(k) + Width
  /\ \A j, k \in Int : Times(j + k) = Times(j) + Times(k)
  /\ \A j, k \in Int : j < k => Times(j) + Width <= Times(k)
<1>1. Width \in Nat \ {0}
  BY ConsoleAssumption DEF Width
<1>2. \A k \in Int : Times(k) \in Int /\ Times(k + 1) = Times(k) + Width
  BY <1>1 DEF Times
<1>3. \A j, k \in Int : Times(j + k) = Times(j) + Times(k)
  BY <1>1 DEF Times
<1>4. ASSUME NEW d \in Nat PROVE Times(d) >= 0
  BY <1>1, <1>4 DEF Times
<1>5. ASSUME NEW j \in Int, NEW k \in Int, j < k PROVE Times(j) + Width <= Times(k)
  <2>1. k - j - 1 \in Nat /\ k = (j + 1) + (k - j - 1)
    BY <1>5
  <2>2. Times(k) = Times(j + 1) + Times(k - j - 1)
    BY <1>3, <2>1
  <2> QED BY <1>1, <1>2, <1>4, <2>1, <2>2
<1> QED BY <1>1, <1>2, <1>3, <1>5 DEF Times

LEMMA TimesNat ==
  ASSUME NEW k \in Nat
  PROVE  Times(k) \in Nat /\ Times(k + 1) = Times(k) + Width
<1>1. Width \in Nat
  BY WidthIs
<1>2. \A w \in Nat : k * w \in Nat
  OBVIOUS
<1>3. k \in Int
  OBVIOUS
<1>4. Times(k + 1) = Times(k) + Width
  BY <1>3, WidthIs
<1> QED BY <1>1, <1>2, <1>4 DEF Times

LEMMA DivisionIs ==
  ASSUME NEW n \in Nat
  PROVE  /\ n \div CRT_COLS \in Nat
         /\ n % CRT_COLS \in 0 .. Width-1
         /\ n = Times(n \div CRT_COLS) + (n % CRT_COLS)
<1>1. ASSUME NEW k \in Nat \ {0}
      PROVE  n \div k \in Nat /\ n % k \in 0 .. k-1 /\ n = (n \div k) * k + (n % k)
  OBVIOUS
<1>2. CRT_COLS \in Nat \ {0}
  BY ConsoleAssumption
<1> QED BY <1>1, <1>2 DEF Times, Width

LEMMA RowIs ==
  ASSUME NEW n \in Nat, NEW m \in Int, Times(m) <= n, n < Times(m) + Width
  PROVE  n \div CRT_COLS = m /\ LineStart(n) = Times(m)
<1> DEFINE q == n \div CRT_COLS
           r == n % CRT_COLS
<1>1. q \in Int /\ r \in 0 .. Width-1 /\ n = Times(q) + r
  BY DivisionIs
<1> HIDE DEF q, r
<1>2. Times(q) \in Int /\ Times(m) \in Int /\ Width \in Nat
  BY <1>1, WidthIs
<1>3. q < m => Times(q) + Width <= Times(m)
  BY <1>1, WidthIs
<1>4. m < q => Times(m) + Width <= Times(q)
  BY <1>1, WidthIs
<1>5. q = m
  BY <1>1, <1>2, <1>3, <1>4
<1>6. LineStart(n) = n - r
  BY DEF LineStart, r
<1>7. LineStart(n) = Times(m)
  BY <1>1, <1>2, <1>5, <1>6
<1> QED BY <1>5, <1>7 DEF q

LEMMA InARow ==
  ASSUME NEW n \in Nat
  PROVE  \E m \in Nat : Times(m) <= n /\ n < Times(m) + Width /\ LineStart(n) = Times(m)
<1> DEFINE q == n \div CRT_COLS
           r == n % CRT_COLS
<1>1. q \in Nat /\ r \in 0 .. Width-1 /\ n = Times(q) + r
  BY DivisionIs
<1> HIDE DEF q, r
<1>2. Times(q) \in Int /\ Width \in Nat
  BY <1>1, WidthIs
<1>3. Times(q) <= n /\ n < Times(q) + Width
  BY <1>1, <1>2
<1>4. LineStart(n) = Times(q)
  BY <1>1, <1>3, RowIs
<1> QED BY <1>1, <1>3, <1>4

(* The start of a line in sight, seen from the first row in sight.         *)
LEMMA LineStartInSight ==
  ASSUME NEW k \in Nat, NEW x \in Nat
  PROVE  LineStart(Times(k) + x) = Times(k) + LineStart(x)
<1>1. PICK m \in Nat : Times(m) <= x /\ x < Times(m) + Width /\ LineStart(x) = Times(m)
  BY InARow
<1>2. Times(k + m) = Times(k) + Times(m) /\ k + m \in Int
  BY WidthIs
<1>3. Times(k) \in Nat /\ Times(m) \in Nat /\ Width \in Nat
  BY TimesNat, WidthIs
<1>4. /\ Times(k) + x \in Nat /\ Times(k + m) <= Times(k) + x
      /\ Times(k) + x < Times(k + m) + Width
  BY <1>1, <1>2, <1>3
<1>5. LineStart(Times(k) + x) = Times(k + m)
  BY <1>2, <1>4, RowIs
<1> QED BY <1>1, <1>2, <1>3, <1>5

(* The screen as a window of a tape that has no end: from row k on, with   *)
(* the cursor at cell n of the tape.                                       *)
Window(Q, k, n) == [cells |-> [i \in Cells |-> Q[Times(k) + i]], pos |-> n - Times(k)]

(* The window is where it was, or has moved just so far that the cursor is *)
(* in its last row; and nothing was printed beyond it.                     *)
InSight(Q, k, n) ==
  /\ Q = [j \in Nat |-> Q[j]]
  /\ k \in Nat /\ n \in Nat /\ top \in Nat
  /\ top <= k /\ Times(k) <= n /\ n < Times(k) + CRT_SIZE
  /\ k = top \/ n >= Times(k) + CRT_SIZE - Width
  /\ \A j \in Nat : j >= Times(k) + CRT_SIZE => Q[j] = "blank"

LEMMA SizeIs ==
  /\ CRT_SIZE = Times(CRT_ROWS) /\ CRT_SIZE \in Nat
  /\ Width <= CRT_SIZE
  /\ CRT_ROWS \in Nat \ {0} /\ Width \in Nat \ {0} /\ Width = CRT_COLS
<1>1. CRT_ROWS \in Nat \ {0} /\ CRT_COLS \in Nat \ {0}
  BY ConsoleAssumption
<1>2. CRT_SIZE = Times(CRT_ROWS)
  BY DEF CRT_SIZE, Times, Width
<1>3. Times(0) + Width <= Times(CRT_ROWS) /\ Times(0) = 0
  BY <1>1, WidthIs
<1>4. Times(CRT_ROWS) \in Nat /\ Width \in Nat \ {0}
  BY <1>1, TimesNat, WidthIs
<1>5. Width <= CRT_SIZE
  BY <1>2, <1>3, <1>4
<1> QED BY <1>1, <1>2, <1>4, <1>5 DEF Width

(* Scrolling moves the window down by a row.                               *)
LEMMA ScrollIs ==
  ASSUME NEW Q, NEW k \in Nat, NEW n \in Nat,
         \A j \in Nat : j >= Times(k) + CRT_SIZE => Q[j] = "blank"
  PROVE  Scroll(Window(Q, k, n))
           = Window(Q, IF n - Times(k) < CRT_SIZE THEN k ELSE k + 1, n)
<1> DEFINE s == Window(Q, k, n)
<1>1. s.pos = n - Times(k) /\ s.cells = [i \in Cells |-> Q[Times(k) + i]]
  BY DEF Window
<1>2. Times(k) \in Nat /\ Times(k+1) = Times(k) + Width
  BY TimesNat
<1>3. CASE n - Times(k) < CRT_SIZE
  BY <1>1, <1>3 DEF Scroll
<1>4. CASE ~(n - Times(k) < CRT_SIZE)
  <2>1. ASSUME NEW i \in Cells
        PROVE  (IF i < CRT_SIZE - CRT_COLS THEN s.cells[i + CRT_COLS] ELSE "blank")
                 = Q[Times(k+1) + i]
    <3>1. i \in Nat /\ i < CRT_SIZE
      BY SizeIs DEF Cells
    <3>2. CASE i < CRT_SIZE - CRT_COLS
      <4>1. i + CRT_COLS \in Cells
        BY <3>1, <3>2, SizeIs DEF Cells
      <4>2. Times(k) + (i + CRT_COLS) = Times(k+1) + i
        BY <1>2, <3>1, SizeIs
      <4> HIDE DEF s
      <4> QED BY <1>1, <3>2, <4>1, <4>2
    <3>3. CASE ~(i < CRT_SIZE - CRT_COLS)
      <4>1. Times(k+1) + i \in Nat /\ Times(k+1) + i >= Times(k) + CRT_SIZE
        BY <1>2, <3>1, <3>3, SizeIs
      <4> QED BY <3>3, <4>1
    <3> QED BY <3>2, <3>3
  <2>2. s.pos - CRT_COLS = n - Times(k+1)
    BY <1>1, <1>2, SizeIs
  <2>3. Scroll(s) = [cells |-> [i \in Cells |-> IF i < CRT_SIZE - CRT_COLS THEN s.cells[i + CRT_COLS]
                                                                           ELSE "blank"],
                     pos   |-> s.pos - CRT_COLS]
    BY <1>1, <1>4 DEF Scroll
  <2> HIDE DEF s
  <2>4. Scroll(s) = [cells |-> [i \in Cells |-> Q[Times(k+1) + i]], pos |-> n - Times(k+1)]
    BY <2>1, <2>2, <2>3
  <2> QED BY <1>4, <2>4 DEF Window, s
<1> QED BY <1>3, <1>4

(* A character written and scrolled for is written on the tape.            *)
LEMMA WriteIs ==
  ASSUME NEW Q, NEW k, NEW n, NEW c, InSight(Q, k, n)
  PROVE  \E m : /\ InSight([Q EXCEPT ![n] = c], m, n + 1)
                /\ Scroll(Write(Window(Q, k, n), c)) = Window([Q EXCEPT ![n] = c], m, n + 1)
<1> DEFINE R == [Q EXCEPT ![n] = c]
           m == IF n + 1 - Times(k) < CRT_SIZE THEN k ELSE k + 1
<1>1. /\ k \in Nat /\ n \in Nat /\ Times(k) \in Nat /\ Times(k+1) = Times(k) + Width
      /\ Times(k) <= n /\ n < Times(k) + CRT_SIZE
      /\ CRT_SIZE \in Nat /\ Width \in Nat \ {0} /\ Width <= CRT_SIZE
  BY TimesNat, SizeIs DEF InSight
<1>2. R = [j \in Nat |-> IF j = n THEN c ELSE Q[j]]
  BY <1>1 DEF InSight
<1> HIDE DEF R
<1>3. Write(Window(Q, k, n), c) = Window(R, k, n + 1)
  <2>1. n - Times(k) \in Cells
    BY <1>1 DEF Cells
  <2>2. \A i \in Cells : Times(k) + i \in Nat /\ (Times(k) + i = n <=> i = n - Times(k))
    BY <1>1 DEF Cells
  <2>3. \A i \in Cells : R[Times(k) + i] = IF i = n - Times(k) THEN c ELSE Q[Times(k) + i]
    BY <1>2, <2>2
  <2>4. [[i \in Cells |-> Q[Times(k) + i]] EXCEPT ![n - Times(k)] = c]
          = [i \in Cells |-> IF i = n - Times(k) THEN c ELSE Q[Times(k) + i]]
    OBVIOUS
  <2>5. (n - Times(k)) + 1 = (n + 1) - Times(k)
    BY <1>1
  <2> QED BY <2>3, <2>4, <2>5 DEF Write, Window
<1>4. \A j \in Nat : j >= Times(k) + CRT_SIZE => R[j] = "blank"
  BY <1>1, <1>2 DEF InSight
<1>5. Scroll(Window(R, k, n + 1)) = Window(R, m, n + 1)
  BY <1>1, <1>4, ScrollIs
<1>6. InSight(R, m, n + 1)
  <2>1. R = [j \in Nat |-> R[j]]
    BY <1>2
  <2>2. top <= k /\ (k = top \/ n >= Times(k) + CRT_SIZE - Width) /\ top \in Int
    BY DEF InSight
  <2>3. CASE n + 1 - Times(k) < CRT_SIZE
    BY <1>1, <1>4, <2>1, <2>2, <2>3 DEF InSight
  <2>4. CASE ~(n + 1 - Times(k) < CRT_SIZE)
    <3>1. \A j \in Nat : j >= Times(k+1) + CRT_SIZE => R[j] = "blank"
      BY <1>1, <1>4
    <3> QED BY <1>1, <3>1, <2>1, <2>2, <2>4 DEF InSight
  <2> QED BY <2>3, <2>4
<1> QED BY <1>3, <1>5, <1>6 DEF R

(* The paper as a tape, and what the code does to it for each character.   *)
Tape == [j \in Nat |-> IF j \in PaperCells THEN paper[j] ELSE "blank"]

Printed(n, c) ==
  \E R, m :
     /\ InSight(R, m, OnPaper(paper, n, c).pos)
     /\ cga_putc(Window(Tape, top, n), c) = Window(R, m, OnPaper(paper, n, c).pos)
     /\ OnPaper(paper, n, c).cells = [j \in PaperCells |-> R[j]]

LEMMA PaperIs ==
  /\ PaperCells \subseteq Nat
  /\ \A j \in Nat : j \in PaperCells <=> j < Times(PaperRows)
  /\ Times(PaperRows) \in Nat
<1>1. PaperRows \in Nat
  BY ConsoleAssumption
<1>2. Times(PaperRows) \in Nat /\ Times(PaperRows) = PaperRows * CRT_COLS
  BY <1>1, TimesNat DEF Times, Width
<1> QED BY <1>2 DEF PaperCells

LEMMA InSightIs ==
  ASSUME NEW Q, NEW k, NEW n, InSight(Q, k, n)
  PROVE  /\ k \in Nat /\ n \in Nat /\ top \in Nat /\ Times(k) \in Nat
         /\ Times(k) <= n /\ n < Times(k) + CRT_SIZE
         /\ n - Times(k) \in Cells
<1>1. k \in Nat /\ n \in Nat /\ top \in Nat /\ Times(k) <= n /\ n < Times(k) + CRT_SIZE
  BY DEF InSight
<1>2. Times(k) \in Nat /\ CRT_SIZE \in Nat
  BY <1>1, TimesNat, SizeIs
<1> QED BY <1>1, <1>2 DEF Cells

LEMMA PrintsOther ==
  ASSUME paper = [j \in PaperCells |-> paper[j]], NEW n, InSight(Tape, top, n)
  PROVE  Printed(n, "x")
<1> DEFINE R == [Tape EXCEPT ![n] = "x"]
<1>1. PICK m : /\ InSight(R, m, n + 1)
               /\ Scroll(Write(Window(Tape, top, n), "x")) = Window(R, m, n + 1)
  BY WriteIs
<1>2. OnPaper(paper, n, "x") = [cells |-> [paper EXCEPT ![n] = "x"], pos |-> n + 1]
  BY DEF OnPaper
<1>3. cga_putc(Window(Tape, top, n), "x") = Scroll(Write(Window(Tape, top, n), "x"))
  BY DEF cga_putc
<1>4. [paper EXCEPT ![n] = "x"] = [j \in PaperCells |-> R[j]]
  BY PaperIs, InSightIs DEF Tape
<1> HIDE DEF R
<1> QED BY <1>1, <1>2, <1>3, <1>4 DEF Printed

(* The two characters that only move the cursor.                           *)
LEMMA CursorIs ==
  ASSUME NEW f, NEW x
  PROVE  /\ cga_putc([cells |-> f, pos |-> x], "cr")
              = Scroll([cells |-> f, pos |-> LineStart(x)])
         /\ cga_putc([cells |-> f, pos |-> x], "nl")
              = Scroll([cells |-> f, pos |-> LineStart(x + CRT_COLS)])
<1>1. \A y : [[cells |-> f, pos |-> x] EXCEPT !.pos = y] = [cells |-> f, pos |-> y]
  OBVIOUS
<1>2. [cells |-> f, pos |-> x].pos = x
  OBVIOUS
<1> DEFINE s == [cells |-> f, pos |-> x]
<1>3. cga_putc(s, "cr") = Scroll([s EXCEPT !.pos = LineStart(s.pos)])
  BY DEF cga_putc
<1>4. cga_putc(s, "nl") = Scroll([s EXCEPT !.pos = LineStart(s.pos + CRT_COLS)])
  BY DEF cga_putc
<1>5. s.pos = x /\ \A y : [s EXCEPT !.pos = y] = [cells |-> f, pos |-> y]
  BY <1>1
<1> HIDE DEF s
<1>6. cga_putc(s, "cr") = Scroll([cells |-> f, pos |-> LineStart(x)])
  BY <1>3, <1>5
<1>7. cga_putc(s, "nl") = Scroll([cells |-> f, pos |-> LineStart(x + CRT_COLS)])
  BY <1>4, <1>5
<1> QED BY <1>6, <1>7 DEF s

LEMMA PrintsReturn ==
  ASSUME paper = [j \in PaperCells |-> paper[j]], NEW n, InSight(Tape, top, n)
  PROVE  Printed(n, "cr")
<1> DEFINE x == n - Times(top)
           p == Times(top) + LineStart(x)
           f == [i \in Cells |-> Tape[Times(top) + i]]
<1>1. /\ n \in Nat /\ top \in Nat /\ Times(top) \in Nat
      /\ Times(top) <= n /\ n < Times(top) + CRT_SIZE /\ CRT_SIZE \in Nat
  BY InSightIs, SizeIs
<1>2. x \in Nat /\ x < CRT_SIZE /\ n = Times(top) + x
  BY <1>1
<1> HIDE DEF x
<1>3. LineStart(x) \in Nat /\ LineStart(x) <= x
  <2>1. PICK k \in Nat : Times(k) <= x /\ LineStart(x) = Times(k)
    BY <1>2, InARow
  <2> QED BY <2>1, TimesNat
<1>4. LineStart(n) = p
  BY <1>1, <1>2, LineStartInSight
<1>5. /\ p \in Nat /\ p - Times(top) = LineStart(x)
      /\ p - Times(top) < CRT_SIZE /\ Times(top) <= p /\ p < Times(top) + CRT_SIZE
  BY <1>1, <1>2, <1>3
<1> HIDE DEF p
<1>6. InSight(Tape, top, p)
  BY <1>1, <1>5 DEF InSight
<1>7. Scroll(Window(Tape, top, p)) = Window(Tape, top, p)
  BY <1>1, <1>5, <1>6, ScrollIs DEF InSight
<1>8. Window(Tape, top, n) = [cells |-> f, pos |-> x] /\ Window(Tape, top, p) = [cells |-> f, pos |-> LineStart(x)]
  BY <1>5 DEF Window, x
<1> HIDE DEF f
<1>9. cga_putc(Window(Tape, top, n), "cr") = Window(Tape, top, p)
  BY <1>7, <1>8, CursorIs
<1>10. OnPaper(paper, n, "cr") = [cells |-> paper, pos |-> p]
  BY <1>4 DEF OnPaper
<1>11. paper = [j \in PaperCells |-> Tape[j]]
  BY PaperIs DEF Tape
<1>12. OnPaper(paper, n, "cr").pos = p /\ OnPaper(paper, n, "cr").cells = paper
  BY <1>10
<1> QED BY <1>6, <1>9, <1>11, <1>12 DEF Printed

LEMMA PrintsNewline ==
  ASSUME paper = [j \in PaperCells |-> paper[j]], NEW n, InSight(Tape, top, n)
  PROVE  Printed(n, "nl")
<1> DEFINE x == n - Times(top)
           p == Times(top) + LineStart(x) + Width
           f == [i \in Cells |-> Tape[Times(top) + i]]
           m == IF p - Times(top) < CRT_SIZE THEN top ELSE top + 1
<1>1. /\ n \in Nat /\ top \in Nat /\ Times(top) \in Nat
      /\ Times(top) <= n /\ n < Times(top) + CRT_SIZE /\ CRT_SIZE \in Nat
  BY InSightIs, SizeIs
<1>2. x \in Nat /\ x < CRT_SIZE /\ n = Times(top) + x
  BY <1>1
<1> HIDE DEF x
<1>3. LineStart(x) \in Nat /\ LineStart(x) + Width <= CRT_SIZE
  <2>1. PICK k \in Nat : Times(k) <= x /\ LineStart(x) = Times(k)
    BY <1>2, InARow
  <2>2. Times(k) \in Nat /\ Times(CRT_ROWS) = CRT_SIZE /\ CRT_ROWS \in Nat /\ Width \in Nat
    BY <2>1, TimesNat, SizeIs
  <2>3. k < CRT_ROWS => Times(k) + Width <= Times(CRT_ROWS)
    BY <2>2, WidthIs
  <2>4. CRT_ROWS < k => Times(CRT_ROWS) + Width <= Times(k)
    BY <2>2, WidthIs
  <2>5. k < CRT_ROWS
    BY <1>1, <1>2, <2>1, <2>2, <2>4
  <2> QED BY <2>1, <2>2, <2>3, <2>5
<1>4. LineStart(x + CRT_COLS) = LineStart(x) + Width
  <2>1. Times(1) = Width
    BY WidthIs
  <2>2. LineStart(Times(1) + x) = Times(1) + LineStart(x)
    BY <1>2, LineStartInSight
  <2>3. Times(1) + x = x + CRT_COLS
    BY <1>2, <2>1, SizeIs
  <2> QED BY <1>3, <2>1, <2>2, <2>3, SizeIs
<1>5. LineStart(n) + CRT_COLS = p
  BY <1>1, <1>2, LineStartInSight, SizeIs
<1>6. Width \in Nat \ {0} /\ Width <= CRT_SIZE /\ Times(top + 1) = Times(top) + Width
  BY <1>1, SizeIs, TimesNat
<1>7. /\ p \in Nat /\ p - Times(top) = LineStart(x + CRT_COLS)
      /\ p - Times(top) <= CRT_SIZE /\ Times(top) <= p
  BY <1>1, <1>2, <1>3, <1>4, <1>6
<1> HIDE DEF p
<1>8. InSight(Tape, m, p)
  <2>1. CASE p - Times(top) < CRT_SIZE
    BY <1>1, <1>7, <2>1 DEF InSight
  <2>2. CASE ~(p - Times(top) < CRT_SIZE)
    <3>1. m = top + 1 /\ m \in Nat /\ p = Times(top) + CRT_SIZE
      BY <1>1, <1>7, <2>2
    <3>2. \A j \in Nat : j >= Times(top + 1) + CRT_SIZE => Tape[j] = "blank"
      BY <1>1, <1>6 DEF InSight
    <3> QED BY <1>1, <1>6, <1>7, <3>1, <3>2 DEF InSight
  <2> QED BY <2>1, <2>2
<1>9. Scroll(Window(Tape, top, p)) = Window(Tape, m, p)
  BY <1>1, <1>7, ScrollIs DEF InSight
<1>10. Window(Tape, top, n) = [cells |-> f, pos |-> x] /\ Window(Tape, top, p) = [cells |-> f, pos |-> LineStart(x + CRT_COLS)]
  BY <1>7 DEF Window, x
<1> HIDE DEF f, m
<1>11. cga_putc(Window(Tape, top, n), "nl") = Window(Tape, m, p)
  BY <1>9, <1>10, CursorIs
<1>12. OnPaper(paper, n, "nl") = [cells |-> paper, pos |-> p]
  BY <1>5 DEF OnPaper
<1>13. paper = [j \in PaperCells |-> Tape[j]]
  BY PaperIs DEF Tape
<1>14. OnPaper(paper, n, "nl").pos = p /\ OnPaper(paper, n, "nl").cells = paper
  BY <1>12
<1> QED BY <1>8, <1>11, <1>13, <1>14 DEF Printed

LEMMA PrintsBackspace ==
  ASSUME paper = [j \in PaperCells |-> paper[j]], NEW n, InSight(Tape, top, n)
  PROVE  Printed(n, "bs")
<1> DEFINE x == n - Times(top)
           w == Window(Tape, top, n)
<1>1. /\ n \in Nat /\ top \in Nat /\ Times(top) \in Nat
      /\ Times(top) <= n /\ n < Times(top) + CRT_SIZE /\ CRT_SIZE \in Nat
  BY InSightIs, SizeIs
<1>2. top * CRT_COLS = Times(top)
  BY DEF Times, Width
<1>3. w.pos = x /\ w.cells = [i \in Cells |-> Tape[Times(top) + i]]
  BY DEF Window
<1>4. paper = [j \in PaperCells |-> Tape[j]]
  BY PaperIs DEF Tape
<1>5. CASE n = Times(top)
  <2>1. cga_putc(w, "bs") = Scroll(w)
    BY <1>1, <1>3, <1>5 DEF cga_putc
  <2>2. Scroll(w) = w
    BY <1>1, <1>3 DEF Scroll
  <2>3. OnPaper(paper, n, "bs") = [cells |-> paper, pos |-> n]
    BY <1>2, <1>5 DEF OnPaper
  <2>4. OnPaper(paper, n, "bs").pos = n /\ OnPaper(paper, n, "bs").cells = paper
    BY <2>3
  <2> HIDE DEF w
  <2>5. cga_putc(w, "bs") = Window(Tape, top, n)
    BY <2>1, <2>2 DEF w
  <2>6. /\ InSight(Tape, top, OnPaper(paper, n, "bs").pos)
        /\ cga_putc(w, "bs") = Window(Tape, top, OnPaper(paper, n, "bs").pos)
        /\ OnPaper(paper, n, "bs").cells = [j \in PaperCells |-> Tape[j]]
    BY <1>4, <2>4, <2>5
  <2>7. \E S, m : /\ InSight(S, m, OnPaper(paper, n, "bs").pos)
                  /\ cga_putc(w, "bs") = Window(S, m, OnPaper(paper, n, "bs").pos)
                  /\ OnPaper(paper, n, "bs").cells = [j \in PaperCells |-> S[j]]
    BY <2>6
  <2> QED BY <2>7 DEF Printed, w
<1>6. CASE n # Times(top)
  <2> DEFINE R == [Tape EXCEPT ![n - 1] = "blank"]
  <2>1. /\ x \in Nat /\ x # 0 /\ x - 1 \in Cells /\ n - 1 \in Nat
        /\ Times(top) <= n - 1 /\ n - 1 < Times(top) + CRT_SIZE
        /\ (n - 1) - Times(top) = x - 1
    BY <1>1, <1>6 DEF Cells
  <2>2. R = [j \in Nat |-> IF j = n - 1 THEN "blank" ELSE Tape[j]]
    BY <2>1 DEF Tape
  <2>3. \A i \in Cells : Times(top) + i \in Nat /\ (Times(top) + i = n - 1 <=> i = x - 1)
    BY <1>1, <2>1 DEF Cells
  <2>4. [paper EXCEPT ![n - 1] = "blank"] = [j \in PaperCells |-> R[j]]
    BY <2>2, PaperIs DEF Tape
  <2> HIDE DEF R
  <2>5. InSight(R, top, n - 1)
    <3>1. R = [j \in Nat |-> R[j]]
      BY <2>2
    <3>2. \A j \in Nat : j >= Times(top) + CRT_SIZE => R[j] = "blank"
      BY <2>2 DEF InSight
    <3> QED BY <1>1, <2>1, <3>1, <3>2 DEF InSight
  <2>6. \A i \in Cells : R[Times(top) + i] = IF i = x - 1 THEN "blank" ELSE Tape[Times(top) + i]
    BY <2>2, <2>3
  <2>7. [w.cells EXCEPT ![x - 1] = "blank"] = [i \in Cells |-> R[Times(top) + i]]
    BY <1>3, <2>6
  <2>8. cga_putc(w, "bs") = Scroll([cells |-> [w.cells EXCEPT ![w.pos - 1] = "blank"], pos |-> w.pos - 1])
    BY <1>3, <2>1 DEF cga_putc
  <2>9. cga_putc(w, "bs") = Scroll(Window(R, top, n - 1))
    BY <1>3, <2>1, <2>7, <2>8 DEF Window
  <2>10. Scroll(Window(R, top, n - 1)) = Window(R, top, n - 1)
    BY <1>1, <2>1 DEF Scroll, Window
  <2> DEFINE g == [paper EXCEPT ![n - 1] = "blank"]
  <2>11. OnPaper(paper, n, "bs") = [cells |-> g, pos |-> n - 1]
    BY <1>2, <1>6 DEF OnPaper
  <2>12. g = [j \in PaperCells |-> R[j]]
    BY <2>4
  <2> HIDE DEF g, w
  <2>13. OnPaper(paper, n, "bs").pos = n - 1 /\ OnPaper(paper, n, "bs").cells = g
    BY <2>11
  <2>14. \E S, m : /\ InSight(S, m, OnPaper(paper, n, "bs").pos)
                   /\ cga_putc(w, "bs") = Window(S, m, OnPaper(paper, n, "bs").pos)
                   /\ OnPaper(paper, n, "bs").cells = [j \in PaperCells |-> S[j]]
    BY ONLY <2>5, <2>9, <2>10, <2>12, <2>13
  <2> QED BY <2>14 DEF Printed, w
<1> QED BY <1>5, <1>6

LEMMA BlankIs ==
  ASSUME NEW Q, NEW k, NEW n, InSight(Q, k, n)
  PROVE  \E m : /\ InSight([Q EXCEPT ![n] = "blank"], m, n + 1)
                /\ Blank(Window(Q, k, n)) = Window([Q EXCEPT ![n] = "blank"], m, n + 1)
BY WriteIs DEF Blank

LEMMA PrintsTab ==
  ASSUME paper = [j \in PaperCells |-> paper[j]], NEW n, InSight(Tape, top, n)
  PROVE  Printed(n, "tab")
<1> DEFINE w0 == Window(Tape, top, n)
           Q1 == [Tape EXCEPT ![n] = "blank"]
           Q2 == [Q1 EXCEPT ![n+1] = "blank"]
           Q3 == [Q2 EXCEPT ![n+1+1] = "blank"]
           Q4 == [Q3 EXCEPT ![n+1+1+1] = "blank"]
           Q5 == [Q4 EXCEPT ![n+1+1+1+1] = "blank"]
<1>1. n \in Nat
  BY InSightIs
<1>2. /\ Q1 = [j \in Nat |-> IF j = n THEN "blank" ELSE Tape[j]]
      /\ Q2 = [j \in Nat |-> IF j = n+1 THEN "blank" ELSE Q1[j]]
      /\ Q3 = [j \in Nat |-> IF j = n+1+1 THEN "blank" ELSE Q2[j]]
      /\ Q4 = [j \in Nat |-> IF j = n+1+1+1 THEN "blank" ELSE Q3[j]]
      /\ Q5 = [j \in Nat |-> IF j = n+1+1+1+1 THEN "blank" ELSE Q4[j]]
  BY <1>1 DEF Tape
<1> HIDE DEF Q1, Q2, Q3, Q4, Q5
<1>3. PICK m1 : InSight(Q1, m1, n+1) /\ Blank(w0) = Window(Q1, m1, n+1)
  BY BlankIs DEF Q1
<1>4. PICK m2 : InSight(Q2, m2, n+1+1) /\ Blank(Window(Q1, m1, n+1)) = Window(Q2, m2, n+1+1)
  BY <1>3, BlankIs DEF Q2
<1>5. PICK m3 : InSight(Q3, m3, n+1+1+1) /\ Blank(Window(Q2, m2, n+1+1)) = Window(Q3, m3, n+1+1+1)
  BY <1>4, BlankIs DEF Q3
<1>6. PICK m4 : InSight(Q4, m4, n+1+1+1+1) /\ Blank(Window(Q3, m3, n+1+1+1)) = Window(Q4, m4, n+1+1+1+1)
  BY <1>5, BlankIs DEF Q4
<1>7. PICK m5 : InSight(Q5, m5, n+1+1+1+1+1) /\ Blank(Window(Q4, m4, n+1+1+1+1)) = Window(Q5, m5, n+1+1+1+1+1)
  BY <1>6, BlankIs DEF Q5
<1>8. n+1+1+1+1+1 = n + 5
  BY <1>1
<1>9. cga_putc(w0, "tab") = Scroll(Window(Q5, m5, n + 5))
  <2>1. cga_putc(w0, "tab") = Scroll(Blank(Blank(Blank(Blank(Blank(w0))))))
    BY DEF cga_putc
  <2> HIDE DEF w0
  <2> QED BY <1>3, <1>4, <1>5, <1>6, <1>7, <1>8, <2>1
<1>10. Scroll(Window(Q5, m5, n + 5)) = Window(Q5, m5, n + 5)
  <2>1. Times(m5) \in Nat /\ n + 5 \in Nat /\ n + 5 < Times(m5) + CRT_SIZE /\ CRT_SIZE \in Nat
    BY <1>7, <1>8, InSightIs, SizeIs
  <2>2. (n + 5) - Times(m5) < CRT_SIZE
    BY <2>1
  <2>3. Window(Q5, m5, n + 5).pos = (n + 5) - Times(m5)
    BY DEF Window
  <2> QED BY <2>2, <2>3 DEF Scroll
<1>11. OnPaper(paper, n, "tab")
         = [cells |-> [j \in PaperCells |-> IF j \in n .. n + 4 THEN "blank" ELSE paper[j]], pos |-> n + 5]
  BY DEF OnPaper
<1>12. \A j \in PaperCells : Q5[j] = IF j \in n .. n + 4 THEN "blank" ELSE paper[j]
  <2>1. \A j \in Nat : Q5[j] = IF j \in n .. n + 4 THEN "blank" ELSE Tape[j]
    BY <1>1, <1>2
  <2> QED BY <2>1, PaperIs DEF Tape
<1>13. /\ OnPaper(paper, n, "tab").pos = n + 5
       /\ OnPaper(paper, n, "tab").cells = [j \in PaperCells |-> Q5[j]]
  BY <1>11, <1>12
<1>14. InSight(Q5, m5, n + 5) /\ cga_putc(w0, "tab") = Window(Q5, m5, n + 5)
  BY <1>7, <1>8, <1>9, <1>10
<1> HIDE DEF w0
<1>15. \E S, m : /\ InSight(S, m, OnPaper(paper, n, "tab").pos)
                 /\ cga_putc(w0, "tab") = Window(S, m, OnPaper(paper, n, "tab").pos)
                 /\ OnPaper(paper, n, "tab").cells = [j \in PaperCells |-> S[j]]
  BY ONLY <1>13, <1>14
<1> QED BY <1>15 DEF Printed, w0

LEMMA PrintsAny ==
  ASSUME paper = [j \in PaperCells |-> paper[j]], NEW n, InSight(Tape, top, n), NEW c \in Chars
  PROVE  Printed(n, c)
BY PrintsOther, PrintsReturn, PrintsNewline, PrintsBackspace, PrintsTab DEF Chars

(* The screen is the window of the paper at `top', and the paper is blank  *)
(* below it.                                                               *)
ScreenInv ==
  /\ top \in 0 .. PaperRows - CRT_ROWS
  /\ crt_pos \in Cells
  /\ paper = [j \in PaperCells |-> paper[j]]
  /\ crt_buf = [i \in Cells |-> paper[Times(top) + i]]
  /\ \A j \in PaperCells : j >= Times(top) + CRT_SIZE => paper[j] = "blank"

(* What is in sight from a row of the paper is on it.                      *)
LEMMA OnThePaper ==
  ASSUME NEW k \in 0 .. PaperRows - CRT_ROWS
  PROVE  /\ k \in Nat /\ Times(k) \in Nat /\ Times(k) + CRT_SIZE <= Times(PaperRows)
         /\ \A i \in Cells : Times(k) + i \in PaperCells
<1>1. PaperRows \in Nat /\ CRT_ROWS \in Nat /\ CRT_SIZE = Times(CRT_ROWS) /\ k \in Nat
  BY ConsoleAssumption, SizeIs
<1>2. Times(k + CRT_ROWS) = Times(k) + Times(CRT_ROWS)
  BY <1>1, WidthIs
<1>3. k + CRT_ROWS < PaperRows => Times(k + CRT_ROWS) + Width <= Times(PaperRows)
  BY <1>1, WidthIs
<1>4. Times(k) \in Nat /\ CRT_SIZE \in Nat /\ Width \in Nat /\ Times(PaperRows) \in Nat
  BY <1>1, TimesNat, SizeIs, PaperIs
<1>5. Times(k) + CRT_SIZE <= Times(PaperRows)
  <2>1. CASE k + CRT_ROWS < PaperRows
    BY <1>1, <1>2, <1>3, <1>4, <2>1
  <2>2. CASE k + CRT_ROWS = PaperRows
    BY <1>1, <1>2, <1>4, <2>2
  <2> QED BY <1>1, <2>1, <2>2
<1>6. \A i \in Cells : Times(k) + i \in Nat /\ Times(k) + i < Times(PaperRows)
  BY <1>4, <1>5 DEF Cells
<1> QED BY <1>1, <1>4, <1>5, <1>6, PaperIs

(* The row of a cursor in sight, and the window the model computes from it. *)
LEMMA RowInSight ==
  ASSUME NEW R, NEW m, NEW p, InSight(R, m, p)
  PROVE  LET row == p \div CRT_COLS IN
         /\ (IF row - top < CRT_ROWS THEN top ELSE row - CRT_ROWS + 1) = m
         /\ row < PaperRows /\ top + CRT_ROWS <= PaperRows => m \in 0 .. PaperRows - CRT_ROWS
<1> DEFINE row == p \div CRT_COLS
           r == p % CRT_COLS
<1>1. row \in Nat /\ r \in 0 .. Width-1 /\ p = Times(row) + r
  BY InSightIs, DivisionIs
<1> HIDE DEF row, r
<1>2. /\ m \in Nat /\ top \in Nat /\ top <= m /\ Times(m) <= p /\ p < Times(m) + CRT_SIZE
      /\ m = top \/ p >= Times(m) + CRT_SIZE - Width
      /\ PaperRows \in Nat
  BY ConsoleAssumption DEF InSight
<1>3. /\ CRT_ROWS \in Nat \ {0} /\ Width \in Nat \ {0} /\ CRT_SIZE \in Nat
      /\ Times(m + CRT_ROWS) = Times(m) + CRT_SIZE
      /\ Times(m) \in Nat /\ Times(row) \in Nat /\ Times(m + CRT_ROWS) \in Nat
  BY <1>1, <1>2, SizeIs, TimesNat, WidthIs
<1>4. row < m + CRT_ROWS
  <2>1. m + CRT_ROWS \in Nat
    BY <1>2, <1>3
  <2>2. m + CRT_ROWS < row => Times(m + CRT_ROWS) + Width <= Times(row)
    BY <1>1, <2>1, WidthIs
  <2> QED BY <1>1, <1>2, <1>3, <2>1, <2>2
<1>5. m # top => row = m + CRT_ROWS - 1
  <2>1. SUFFICES ASSUME m # top PROVE row >= m + CRT_ROWS - 1
    BY <1>1, <1>2, <1>3, <1>4
  <2> DEFINE l == m + CRT_ROWS - 1
  <2>2. l \in Nat /\ l + 1 = m + CRT_ROWS
    BY <1>2, <1>3
  <2> HIDE DEF l
  <2>3. Times(l) \in Nat /\ Times(l + 1) = Times(l) + Width
    BY <2>2, TimesNat
  <2>4. row < l => Times(row) + Width <= Times(l)
    BY <1>1, <2>2, WidthIs
  <2>5. p >= Times(l)
    BY <1>2, <1>3, <2>1, <2>2, <2>3
  <2>6. ~(row < l)
    BY <1>1, <1>3, <2>3, <2>4, <2>5
  <2> QED BY <1>1, <2>2, <2>6 DEF l
<1>6. (IF row - top < CRT_ROWS THEN top ELSE row - CRT_ROWS + 1) = m
  BY <1>1, <1>2, <1>3, <1>4, <1>5
<1>7. row < PaperRows /\ top + CRT_ROWS <= PaperRows => m \in 0 .. PaperRows - CRT_ROWS
  BY <1>1, <1>2, <1>3, <1>5
<1> QED BY <1>6, <1>7 DEF row

LEMMA ScreenStep ==
  ASSUME ScreenInv, NEW c \in Chars, cons_putc(c)
  PROVE  ScreenInv'
<1> DEFINE n == Times(top) + crt_pos
           p == OnPaper(paper, n, c).pos
<1>1. /\ top \in 0 .. PaperRows - CRT_ROWS /\ top \in Nat /\ Times(top) \in Nat
      /\ crt_pos \in Cells /\ crt_pos \in Nat /\ crt_pos < CRT_SIZE /\ CRT_SIZE \in Nat
      /\ CRT_ROWS \in Nat /\ PaperRows \in Nat
  BY OnThePaper, SizeIs, ConsoleAssumption DEF ScreenInv, Cells
<1>2. paper = [j \in PaperCells |-> paper[j]]
  BY DEF ScreenInv
<1>3. InSight(Tape, top, n)
  <2>1. n \in Nat /\ Times(top) <= n /\ n < Times(top) + CRT_SIZE
    BY <1>1
  <2>2. Tape = [j \in Nat |-> Tape[j]]
    BY DEF Tape
  <2>3. \A j \in Nat : j >= Times(top) + CRT_SIZE => Tape[j] = "blank"
    BY DEF Tape, ScreenInv
  <2> HIDE DEF n
  <2> QED BY <1>1, <2>1, <2>2, <2>3 DEF InSight
<1>4. [cells |-> crt_buf, pos |-> crt_pos] = Window(Tape, top, n)
  <2>1. \A i \in Cells : Tape[Times(top) + i] = paper[Times(top) + i]
    BY <1>1, OnThePaper, PaperIs DEF Tape
  <2>2. n - Times(top) = crt_pos
    BY <1>1
  <2>3. crt_buf = [i \in Cells |-> Tape[Times(top) + i]]
    BY <2>1 DEF ScreenInv
  <2> QED BY <2>2, <2>3 DEF Window
<1>5. PaperPos = n
  BY DEF PaperPos, Times, Width
<1> HIDE DEF n
<1>6. PICK R, m : /\ InSight(R, m, p)
                  /\ cga_putc(Window(Tape, top, n), c) = Window(R, m, p)
                  /\ OnPaper(paper, n, c).cells = [j \in PaperCells |-> R[j]]
  BY <1>2, <1>3, PrintsAny DEF Printed
<1>7. /\ p \div CRT_COLS < PaperRows
      /\ crt_buf' = Window(R, m, p).cells /\ crt_pos' = Window(R, m, p).pos
      /\ paper' = [j \in PaperCells |-> R[j]]
      /\ top' = IF p \div CRT_COLS - top < CRT_ROWS THEN top ELSE p \div CRT_COLS - CRT_ROWS + 1
  BY <1>4, <1>5, <1>6 DEF cons_putc
<1> HIDE DEF p
<1>8. top' = m /\ m \in 0 .. PaperRows - CRT_ROWS
  BY <1>1, <1>6, <1>7, RowInSight
<1>9. crt_pos' \in Cells
  BY <1>6, <1>7, InSightIs DEF Window
<1>10. crt_buf' = [i \in Cells |-> paper'[Times(top') + i]]
  BY <1>7, <1>8, OnThePaper DEF Window
<1>11. \A j \in PaperCells : j >= Times(m) + CRT_SIZE => paper'[j] = "blank"
  BY <1>6, <1>7, PaperIs DEF InSight
<1>12. paper' = [j \in PaperCells |-> paper'[j]]
  BY <1>7
<1> QED BY <1>8, <1>9, <1>10, <1>11, <1>12 DEF ScreenInv, Times, Width, Cells, CRT_SIZE, PaperCells

(* The screen always shows the rows of the paper that are in sight: what   *)
(* kern/console.c's cga_putc keeps in its buffer is what was printed, for  *)
(* any size of the screen and any sequence of characters.                  *)
THEOREM ScreenShowsPaper == Spec => []ScreenIsWindow
<1>1. Init => ScreenInv
  <2> SUFFICES ASSUME Init PROVE ScreenInv
    OBVIOUS
  <2>1. /\ PaperRows \in Nat /\ CRT_ROWS \in Nat /\ PaperRows > CRT_ROWS
        /\ CRT_SIZE \in Nat /\ CRT_SIZE # 0 /\ Times(0) = 0
    BY ConsoleAssumption, SizeIs, WidthIs
  <2>2. top \in 0 .. PaperRows - CRT_ROWS /\ top = 0
    BY <2>1 DEF Init
  <2>3. crt_pos \in Cells
    BY <2>1 DEF Init, Cells
  <2>4. paper = [i \in PaperCells |-> IF i \in Cells THEN "bios" ELSE "blank"]
    BY DEF Init
  <2>5. crt_buf = [i \in Cells |-> "bios"]
    BY DEF Init
  <2>6. \A i \in Cells : Times(top) + i = i /\ i \in PaperCells
    <3>1. \A i \in Cells : Times(top) + i \in PaperCells /\ i \in Int
      BY <2>2, OnThePaper DEF Cells
    <3> QED BY <2>1, <2>2, <3>1
  <2>7. \A j \in PaperCells : j >= Times(top) + CRT_SIZE => j \notin Cells
    BY <2>1, <2>2, PaperIs DEF Cells
  <2> QED BY <2>2, <2>3, <2>4, <2>5, <2>6, <2>7 DEF ScreenInv
<1>2. ScreenInv /\ [Next]_vars => ScreenInv'
  <2> SUFFICES ASSUME ScreenInv, [Next]_vars PROVE ScreenInv'
    OBVIOUS
  <2>1. CASE \E c \in Chars : cons_putc(c)
    BY <2>1, ScreenStep
  <2>2. CASE UNCHANGED screen
    BY <2>2 DEF screen, ScreenInv, Times, Width, Cells, CRT_SIZE, PaperCells
  <2> QED BY <2>1, <2>2
       DEF Next, vars, SerialByte, SerialDone, KeyboardByte, KeyboardDone, Take, Off
<1>3. ScreenInv => ScreenIsWindow
  BY DEF ScreenInv, ScreenIsWindow, Times, Width
<1> QED BY <1>1, <1>2, <1>3, PTL DEF Spec

-----------------------------------------------------------------------------
(* Start-up: the inductive invariant.                                      *)

(* The page tables that have a page of their own.                          *)
Own == Tables \ {0, UVPT, VPT}

Lab == tree = "lab"
ImageEnd == PageUp(image)

(* The pages from v on are mapped to the memory from pa on.                *)
Mapped(v, pages, pa) == \A w \in v .. v + pages - 1 :
  w \div PT \in Own /\ dir[w \div PT] # Absent /\ check_va2pa(w) = pa + w - v

(* Which step is done tells its index; most are the same in both trees.    *)
PhysicalMapped == next_step > IF Lab THEN 3 ELSE 9

StepOK ==
  /\ tree \in {"lab", "fos", "fos_flat"} /\ image \in Images
  /\ ext \in {PageDown(e) : e \in ExtSizes}
  /\ next_step \in 1 .. Len(Steps) + 1
  /\ ptr_free_mem \in Nat
  /\ ~failed
  /\ (mode = "low") <=> (next_step = IF Lab THEN 11 ELSE 12)
  /\ (mode = "flat") <=> (next_step > IF Lab THEN 11 ELSE 12)

(* What has been taken: the steps in their order.                          *)
Taken(k) ==
  (IF k > 1 THEN 1 ELSE 0) + (IF k > 2 THEN 1 ELSE 0)
    + (IF k > 3 THEN KernelTables ELSE 0)
    + (IF k > 4 THEN PageUp(number_of_frames) ELSE 0)
    + (IF k > 5 THEN IF Lab THEN 1 ELSE PageUp(DiskSize) ELSE 0)
    + (IF k > 7 THEN PageUp(EnvsSize) ELSE 0)
    + (IF k > 8 THEN 1 ELSE 0)

SpaceOK == FirstFree = ImageEnd + Taken(next_step)

(* Which entries of the directory are there.                               *)
Present(d) ==
  \/ d = STACK /\ next_step > 2
  \/ d \in Kernel /\ next_step > 3
  \/ d = READ_ONLY_FRAMES_INFO /\ Lab /\ next_step > 5
  \/ d \in {VPT, UVPT} /\ next_step > 6
  \/ d = UENVS /\ next_step > 8
  \/ d = 0 /\ mode = "low"

Placed ==
  /\ dir \in [Tables -> Frames \cup {Absent}]
  /\ \A d \in Own : dir[d] # Absent => dir[d] \in ImageEnd .. FirstFree - 1
  /\ \A d, e \in Own : dir[d] = dir[e] /\ dir[d] # Absent => d = e

DirOK ==
  /\ Placed
  /\ \A d \in Tables : dir[d] # Absent <=> Present(d)
  /\ mode = "low" => dir[0] = dir[KERNEL_BASE]

BlocksOK ==
  /\ \A b \in blocks : /\ b.first \in Nat /\ b.pages \in Nat
                       /\ ImageEnd <= b.first /\ b.first + b.pages <= FirstFree
  /\ \A b, c \in blocks : b = c \/ BlockPages(b) \cap BlockPages(c) = {}
  /\ \A p \in ImageEnd .. FirstFree - 1 : \E b \in blocks : p \in BlockPages(b)

(* The blocks that are asked for by their name.                            *)
Named(what, pages) == \E b \in blocks : /\ b.what = what /\ b.pages = pages
                                        /\ \A c \in blocks : c.what = what => c = b

NamesOK ==
  /\ IF next_step > 1 THEN Named("directory", 1) ELSE \A b \in blocks : b.what # "directory"
  /\ IF next_step > 4 THEN Named("frames_info", PageUp(number_of_frames))
                      ELSE \A b \in blocks : b.what # "frames_info"
  /\ IF next_step > 7 THEN Named("envs", PageUp(EnvsSize)) ELSE \A b \in blocks : b.what # "envs"

StackMapped == Mapped((STACK + 1) * PT - StackPages, StackPages, ptr_stack_bottom)
KernelMapped(n) == Mapped(KERNEL_BASE * PT, n, 0)
KernelPages == IF tree = "fos" THEN FirstFree ELSE KernelTables * PT
FramesMapped ==
  Mapped(READ_ONLY_FRAMES_INFO * PT, PageUp(number_of_frames), Where("frames_info"))
EnvsMapped == Mapped(UENVS * PT, PageUp(EnvsSize), Where("envs"))

MapsOK ==
  /\ pt \in [Frames -> [0 .. PT-1 -> Int]]
  /\ next_step > 2 => StackMapped
  /\ PhysicalMapped => KernelMapped(KernelPages)
  /\ Lab /\ next_step > 5 => FramesMapped
  /\ next_step > 8 => EnvsMapped

BootInv == StepOK /\ SpaceOK /\ DirOK /\ BlocksOK /\ NamesOK /\ MapsOK /\ FreeListIsTheRest

-----------------------------------------------------------------------------
(* Arithmetic of pages and tables.                                         *)
LEMMA Quotient ==
  ASSUME NEW k \in Nat \ {0}, NEW q \in Int, NEW r \in 0 .. k-1
  PROVE  (q * k + r) \div k = q /\ (q * k + r) % k = r
<1> DEFINE x == q * k + r
           p == x \div k
           m == x % k
<1>1. q * k \in Int
  OBVIOUS
<1>2. x \in Int
  BY <1>1
<1> HIDE DEF x
<1>3. p \in Int /\ m \in 0 .. k-1 /\ x = p * k + m
  BY <1>2
<1> HIDE DEF p, m
<1> DEFINE d == q - p
<1>4. d \in Int /\ q * k = p * k + d * k
  BY <1>3
<1>5. d * k = m - r
  BY <1>1, <1>3, <1>4 DEF x
<1> HIDE DEF d
<1>6. d >= 1 => d * k >= k
  BY <1>4
<1>7. d <= -1 => d * k <= -k
  BY <1>4
<1>8. d = 0
  BY <1>3, <1>4, <1>5, <1>6, <1>7
<1>9. q = p
  BY <1>3, <1>8 DEF d
<1>10. r = m
  BY <1>3, <1>5, <1>8
<1> QED BY <1>9, <1>10 DEF p, m, x

LEMMA Division ==
  ASSUME NEW k \in Nat \ {0}, NEW n \in Nat
  PROVE  n \div k \in Nat /\ n % k \in 0 .. k-1 /\ n = (n \div k) * k + (n % k)
OBVIOUS

LEMMA PageUpIs ==
  ASSUME NEW a \in Nat
  PROVE  PageUp(a) \in Nat /\ (a > 0 => PageUp(a) >= 1)
<1> DEFINE n == a + PAGE - 1
           q == n \div PAGE
<1>1. PAGE \in Nat \ {0} /\ n \in Nat
  BY BootAssumption
<1>2. q \in Nat /\ n % PAGE \in 0 .. PAGE-1 /\ n = q * PAGE + (n % PAGE)
  BY <1>1, Division
<1>3. q = 0 => q * PAGE = 0
  BY <1>1
<1>4. a > 0 => q # 0
  BY <1>1, <1>2, <1>3
<1> QED BY <1>2, <1>4 DEF PageUp

(* A block begins at the beginning of a page.                              *)
LEMMA PageUpSum ==
  ASSUME NEW f \in Nat, NEW a \in Nat
  PROVE  f * PAGE + a \in Nat /\ PageUp(f * PAGE + a) = f + PageUp(a)
<1> DEFINE n == a + PAGE - 1
           q == n \div PAGE
           r == n % PAGE
<1>1. PAGE \in Nat \ {0} /\ n \in Nat
  BY BootAssumption
<1>2. q \in Nat /\ r \in 0 .. PAGE-1 /\ n = q * PAGE + r
  BY <1>1, Division
<1>3. PageUp(a) = q
  BY DEF PageUp
<1>4. f * PAGE \in Nat /\ q * PAGE \in Nat
  BY <1>1, <1>2
<1> HIDE DEF q, r
<1>5. (f + q) * PAGE = f * PAGE + q * PAGE
  BY <1>1, <1>2
<1>6. f * PAGE + a + PAGE - 1 = (f + q) * PAGE + r
  BY <1>1, <1>2, <1>4, <1>5
<1>7. ((f + q) * PAGE + r) \div PAGE = f + q
  BY <1>1, <1>2, Quotient
<1>8. PageUp(f * PAGE + a) = f + q
  BY <1>6, <1>7 DEF PageUp
<1> QED BY <1>3, <1>4, <1>8

(* The pages of a table, and the table of a page.                          *)
LEMMA TableOfPage ==
  ASSUME NEW t \in Nat, NEW i \in 0 .. PT-1
  PROVE  t * PT + i \in Nat /\ (t * PT + i) \div PT = t /\ (t * PT + i) % PT = i
<1>1. PT \in Nat \ {0} /\ t \in Int
  BY BootAssumption DEF StackPages
<1>2. t * PT \in Nat
  BY <1>1
<1> QED BY <1>1, <1>2, Quotient

LEMMA PageOfTable ==
  ASSUME NEW w \in Nat
  PROVE  w \div PT \in Nat /\ w % PT \in 0 .. PT-1 /\ w = (w \div PT) * PT + (w % PT)
<1>1. PT \in Nat \ {0}
  BY BootAssumption DEF StackPages
<1> QED BY <1>1, Division

LEMMA SamePage ==
  ASSUME NEW v \in Nat, NEW w \in Nat, v \div PT = w \div PT, v % PT = w % PT
  PROVE  v = w
<1>1. v = (v \div PT) * PT + (v % PT) /\ w = (w \div PT) * PT + (w % PT)
  BY PageOfTable
<1> QED BY <1>1

(* A range that begins in a table and does not leave it.                   *)
LEMMA RangeInTable ==
  ASSUME NEW t \in Nat, NEW o \in Nat, NEW n \in Nat, o + n <= PT,
         NEW w \in t * PT + o .. t * PT + o + n - 1
  PROVE  w \in Nat /\ w \div PT = t
<1>1. PT \in Nat
  BY BootAssumption DEF StackPages
<1>2. t * PT \in Nat
  BY <1>1
<1> DEFINE i == w - t * PT
<1>3. i \in 0 .. PT-1 /\ w = t * PT + i
  BY <1>1, <1>2
<1> HIDE DEF i
<1> QED BY <1>3, TableOfPage

(* The kernel's part of the address space.                                 *)
LEMMA RangeOfKernel ==
  ASSUME NEW n \in Nat, n <= KernelTables * PT,
         NEW w \in KERNEL_BASE * PT .. KERNEL_BASE * PT + n - 1
  PROVE  w \in Nat /\ w \div PT \in Kernel
<1> DEFINE q == w \div PT
<1>1. PT \in Nat \ {0} /\ KernelTables \in Nat /\ KERNEL_BASE = 6
  BY BootAssumption DEF StackPages, KERNEL_BASE
<1>2. 6 * PT \in Nat /\ KernelTables * PT \in Nat
  BY <1>1
<1>3. w \in Nat /\ 6 * PT <= w /\ w < 6 * PT + KernelTables * PT
  BY <1>1, <1>2
<1>4. q \in Nat /\ w % PT \in 0 .. PT-1 /\ w = q * PT + (w % PT)
  BY <1>3, PageOfTable
<1> HIDE DEF q
<1>5. \A d \in Nat : d * PT \in Nat /\ (d + 1) * PT = d * PT + PT
  BY <1>1
<1>6. \A d, e \in Nat : d < e => d * PT + PT <= e * PT
  <2> SUFFICES ASSUME NEW d \in Nat, NEW e \in Nat, d < e PROVE d * PT + PT <= e * PT
    OBVIOUS
  <2> DEFINE c == e - d - 1
  <2>1. c \in Nat /\ e = d + 1 + c
    OBVIOUS
  <2> HIDE DEF c
  <2>2. e * PT = d * PT + PT + c * PT
    BY <1>1, <2>1
  <2> QED BY <1>1, <1>5, <2>1, <2>2
<1>7. (6 + KernelTables) * PT = 6 * PT + KernelTables * PT
  BY <1>1
<1>8. ~(q < 6)
  BY <1>1, <1>3, <1>4, <1>5, <1>6
<1>9. ~(6 + KernelTables <= q)
  <2>1. 6 + KernelTables = q => 6 * PT + KernelTables * PT = q * PT
    BY <1>7
  <2>2. 6 + KernelTables < q => 6 * PT + KernelTables * PT + PT <= q * PT
    BY <1>1, <1>4, <1>6, <1>7
  <2> QED BY <1>1, <1>2, <1>3, <1>4, <1>5, <2>1, <2>2
<1>10. q \in Kernel
  BY <1>1, <1>4, <1>8, <1>9 DEF Kernel, KERNEL_BASE
<1> QED BY <1>3, <1>10 DEF q

LEMMA KernelIsWhole ==
  ASSUME NEW d \in Kernel
  PROVE  \E w \in KERNEL_BASE * PT .. KERNEL_BASE * PT + KernelTables * PT - 1 : w \div PT = d
<1>1. PT \in Nat \ {0} /\ KernelTables \in Nat /\ KERNEL_BASE = 6
  BY BootAssumption DEF StackPages, KERNEL_BASE
<1>2. d \in Nat /\ 6 <= d /\ d < 6 + KernelTables
  BY <1>1 DEF Kernel
<1> DEFINE a == d - 6
           b == 6 + KernelTables - d - 1
<1>3. a \in Nat /\ b \in Nat /\ d = 6 + a /\ KernelTables = a + 1 + b
  BY <1>1, <1>2
<1> HIDE DEF a, b
<1>4. /\ d * PT = 6 * PT + a * PT
      /\ KernelTables * PT = a * PT + PT + b * PT
      /\ a * PT \in Nat /\ b * PT \in Nat /\ 6 * PT \in Nat
  BY <1>1, <1>3
<1>5. d * PT \in 6 * PT .. 6 * PT + KernelTables * PT - 1
  BY <1>1, <1>4
<1>6. (d * PT + 0) \div PT = d /\ d * PT \in Nat /\ d * PT + 0 = d * PT
  BY <1>1, <1>2, TableOfPage
<1> QED BY <1>1, <1>5, <1>6

-----------------------------------------------------------------------------
(* What the assumption says of a machine.                                  *)
nf == number_of_frames

LEMMA Sizes ==
  ASSUME StepOK
  PROVE  /\ PT \in Nat \ {0} /\ KernelTables \in Nat \ {0} /\ PAGE \in Nat \ {0}
         /\ nf \in Nat \ {0} /\ PageUp(nf) \in 1 .. PT
         /\ KernelTables * PT \in Nat /\ nf <= KernelTables * PT
         /\ ImageEnd \in ExtPage .. PT /\ IOPage \in 3 .. ExtPage /\ ExtPage \in Nat
         /\ EnvsSize \in Nat /\ PageUp(EnvsSize) \in 1 .. PT
         /\ DiskSize \in Nat /\ PageUp(DiskSize) \in Nat
         /\ ImageEnd + 4 + KernelTables + PageUp(nf) + PageUp(DiskSize) + PageUp(EnvsSize) <= nf
<1>1. /\ PT \in Nat \ {0} /\ KernelTables \in Nat \ {0} /\ PAGE \in Nat \ {0}
      /\ IOPage \in 3 .. ExtPage /\ ExtPage \in Nat
      /\ EnvsSize \in Nat \ {0} /\ PageUp(EnvsSize) <= PT /\ DiskSize \in Nat
  BY BootAssumption DEF StackPages
<1>2. image \in Images /\ image \in Nat /\ ImageEnd \in ExtPage .. PT
  BY BootAssumption DEF StepOK, ImageEnd
<1>3. PICK x \in ExtSizes : ext = PageDown(x)
  BY DEF StepOK
<1>4. x \in Nat /\ ext # 0
  BY <1>3, BootAssumption
<1>5. ext \in Nat
  BY <1>1, <1>3, <1>4, Division DEF PageDown
<1>6. nf = ExtPage + ext
  BY <1>4 DEF nf, number_of_frames, maxpa
<1>7. /\ PageUp(nf) <= PT /\ nf <= KernelTables * PT
      /\ ImageEnd + 4 + KernelTables + PageUp(nf) + PageUp(DiskSize) + PageUp(EnvsSize) <= nf
  BY <1>2, <1>3, <1>6, BootAssumption DEF ImageEnd
<1>8. nf \in Nat \ {0}
  BY <1>1, <1>4, <1>5, <1>6
<1>9. /\ PageUp(nf) \in Nat /\ PageUp(nf) >= 1 /\ PageUp(DiskSize) \in Nat
      /\ PageUp(EnvsSize) \in Nat /\ PageUp(EnvsSize) >= 1
  BY <1>1, <1>8, PageUpIs
<1>10. KernelTables * PT \in Nat
  BY <1>1
<1> QED BY <1>1, <1>2, <1>7, <1>8, <1>9, <1>10

LEMMA TakenFits ==
  ASSUME StepOK, NEW k \in Nat
  PROVE  Taken(k) \in Nat /\ ImageEnd + Taken(k) <= nf
<1> DEFINE f == PageUp(nf)
           d == PageUp(DiskSize)
           e == PageUp(EnvsSize)
<1>1. /\ KernelTables \in Nat /\ f \in Nat /\ d \in Nat /\ e \in Nat /\ ImageEnd \in Nat
      /\ nf \in Nat /\ ImageEnd + 4 + KernelTables + f + d + e <= nf
  BY Sizes
<1>2. number_of_frames = nf
  BY DEF nf
<1> HIDE DEF f, d, e
<1> QED BY <1>1, <1>2 DEF Taken, f, d, e

LEMMA FramesAre ==
  ASSUME StepOK
  PROVE  0 .. nf-1 \subseteq Frames /\ Absent \notin Frames /\ Garbage \notin Frames /\ Frames \subseteq Nat
<1>1. KernelTables * PT \in Nat /\ nf \in Nat /\ nf <= KernelTables * PT
  BY Sizes
<1> QED BY <1>1 DEF Frames, Absent, Garbage

(* The place of every step.                                                *)
LEMMA StepsAre ==
  /\ Len(LabSteps) = 12 /\ Len(FosSteps) = 13
  /\ LabSteps[1] = "directory" /\ LabSteps[2] = "stack" /\ LabSteps[3] = "physical"
  /\ LabSteps[4] = "frames_info" /\ LabSteps[5] = "view_frames" /\ LabSteps[6] = "listing"
  /\ LabSteps[7] = "envs" /\ LabSteps[8] = "view_envs" /\ LabSteps[9] = "check"
  /\ LabSteps[10] = "low" /\ LabSteps[11] = "flat" /\ LabSteps[12] = "paging"
  /\ FosSteps[1] = "directory" /\ FosSteps[2] = "stack" /\ FosSteps[3] = "tables"
  /\ FosSteps[4] = "frames_info" /\ FosSteps[5] = "disk" /\ FosSteps[6] = "listing"
  /\ FosSteps[7] = "envs" /\ FosSteps[8] = "view_envs" /\ FosSteps[9] = "physical"
  /\ FosSteps[10] = "check" /\ FosSteps[11] = "low" /\ FosSteps[12] = "flat"
  /\ FosSteps[13] = "paging"
<1>1. Len(LabSteps) = 12 /\ Len(FosSteps) = 13
  BY DEF LabSteps, FosSteps
<1>2. /\ LabSteps[1] = "directory" /\ LabSteps[2] = "stack" /\ LabSteps[3] = "physical"
      /\ LabSteps[4] = "frames_info" /\ LabSteps[5] = "view_frames" /\ LabSteps[6] = "listing"
      /\ LabSteps[7] = "envs" /\ LabSteps[8] = "view_envs" /\ LabSteps[9] = "check"
      /\ LabSteps[10] = "low" /\ LabSteps[11] = "flat" /\ LabSteps[12] = "paging"
  BY DEF LabSteps
<1>3. /\ FosSteps[1] = "directory" /\ FosSteps[2] = "stack" /\ FosSteps[3] = "tables"
      /\ FosSteps[4] = "frames_info" /\ FosSteps[5] = "disk" /\ FosSteps[6] = "listing"
      /\ FosSteps[7] = "envs" /\ FosSteps[8] = "view_envs" /\ FosSteps[9] = "physical"
      /\ FosSteps[10] = "check" /\ FosSteps[11] = "low" /\ FosSteps[12] = "flat"
      /\ FosSteps[13] = "paging"
  BY DEF FosSteps
<1> QED BY <1>1, <1>2, <1>3

LEMMA LengthIs == Len(Steps) = IF Lab THEN 12 ELSE 13
BY StepsAre DEF Steps, Lab

LEMMA PlaceOfStep ==
  ASSUME StepOK
  PROVE  /\ Do("directory") => next_step = 1
         /\ Do("stack") => next_step = 2
         /\ Do("tables") => ~Lab /\ next_step = 3
         /\ Do("physical") => next_step = IF Lab THEN 3 ELSE 9
         /\ Do("frames_info") => next_step = 4
         /\ Do("view_frames") => Lab /\ next_step = 5
         /\ Do("disk") => ~Lab /\ next_step = 5
         /\ Do("listing") => next_step = 6
         /\ Do("envs") => next_step = 7
         /\ Do("view_envs") => next_step = 8
         /\ Do("check") => next_step = IF Lab THEN 9 ELSE 10
         /\ Do("low") => next_step = IF Lab THEN 10 ELSE 11
         /\ Do("flat") => next_step = IF Lab THEN 11 ELSE 12
         /\ Do("paging") => next_step = IF Lab THEN 12 ELSE 13
<1>1. \A s : Do(s) => next_step \in 1 .. Len(Steps) /\ Steps[next_step] = s
  BY LengthIs DEF Do, Booted, StepOK
<1>2. CASE Lab
  <2>1. \A s : Do(s) => /\ next_step \in 1 .. 12
                        /\ LabSteps[next_step] = s
    BY <1>1, <1>2, LengthIs DEF Steps, Lab
  <2>2. \A k \in 1 .. 12 : \/ k = 1 /\ LabSteps[k] = "directory"
                           \/ k = 2 /\ LabSteps[k] = "stack"
                           \/ k = 3 /\ LabSteps[k] = "physical"
                           \/ k = 4 /\ LabSteps[k] = "frames_info"
                           \/ k = 5 /\ LabSteps[k] = "view_frames"
                           \/ k = 6 /\ LabSteps[k] = "listing"
                           \/ k = 7 /\ LabSteps[k] = "envs"
                           \/ k = 8 /\ LabSteps[k] = "view_envs"
                           \/ k = 9 /\ LabSteps[k] = "check"
                           \/ k = 10 /\ LabSteps[k] = "low"
                           \/ k = 11 /\ LabSteps[k] = "flat"
                           \/ k = 12 /\ LabSteps[k] = "paging"
    BY StepsAre
  <2> QED BY <1>2, <2>1, <2>2
<1>3. CASE ~Lab
  <2>1. \A s : Do(s) => /\ next_step \in 1 .. 13
                        /\ FosSteps[next_step] = s
    BY <1>1, <1>3, LengthIs DEF Steps, Lab
  <2>2. \A k \in 1 .. 13 : \/ k = 1 /\ FosSteps[k] = "directory"
                           \/ k = 2 /\ FosSteps[k] = "stack"
                           \/ k = 3 /\ FosSteps[k] = "tables"
                           \/ k = 4 /\ FosSteps[k] = "frames_info"
                           \/ k = 5 /\ FosSteps[k] = "disk"
                           \/ k = 6 /\ FosSteps[k] = "listing"
                           \/ k = 7 /\ FosSteps[k] = "envs"
                           \/ k = 8 /\ FosSteps[k] = "view_envs"
                           \/ k = 9 /\ FosSteps[k] = "physical"
                           \/ k = 10 /\ FosSteps[k] = "check"
                           \/ k = 11 /\ FosSteps[k] = "low"
                           \/ k = 12 /\ FosSteps[k] = "flat"
                           \/ k = 13 /\ FosSteps[k] = "paging"
    BY StepsAre
  <2> QED BY <1>3, <2>1, <2>2
<1> QED BY <1>2, <1>3

(* What every step does.                                                   *)
LEMMA StepDone ==
  ASSUME StepOK, NEW s, Do(s)
  PROVE  /\ next_step' = next_step + 1 /\ next_step' \in 1 .. Len(Steps) + 1
         /\ UNCHANGED <<tree, image, ext>>
         /\ Lab' = Lab /\ ImageEnd' = ImageEnd /\ nf' = nf /\ number_of_frames' = number_of_frames
         /\ Steps' = Steps /\ ptr_stack_bottom' = ptr_stack_bottom /\ ~Booted
         /\ next_step \in 1 .. Len(Steps)
<1>1. UNCHANGED <<tree, image, ext>> /\ next_step' = next_step + 1 /\ ~Booted
  BY DEF Do, machine
<1>2. next_step \in 1 .. Len(Steps) /\ next_step' \in 1 .. Len(Steps) + 1
  BY <1>1, LengthIs DEF Booted, StepOK
<1> QED BY <1>1, <1>2 DEF Lab, ImageEnd, nf, number_of_frames, maxpa, Steps, ptr_stack_bottom

-----------------------------------------------------------------------------
(* What the two ways to take memory do.                                    *)
LEMMA PageUpWhole ==
  ASSUME NEW f \in Nat
  PROVE  f * PAGE \in Nat /\ PageUp(f * PAGE) = f
<1>1. PAGE \in Nat \ {0} /\ PAGE - 1 \in 0 .. PAGE-1 /\ f \in Int
  BY BootAssumption
<1>2. (f * PAGE + (PAGE - 1)) \div PAGE = f
  BY ONLY <1>1, Quotient
<1>3. f * PAGE \in Nat
  BY <1>1
<1>4. f * PAGE + (PAGE - 1) = f * PAGE + PAGE - 1
  BY ONLY <1>1, <1>3
<1> QED BY <1>2, <1>3, <1>4 DEF PageUp

LEMMA BlockAdded ==
  ASSUME BlocksOK, FirstFree \in Nat, ImageEnd \in Nat, ImageEnd <= FirstFree, ImageEnd' = ImageEnd,
         NEW what, NEW n \in Nat, FirstFree' = FirstFree + n,
         blocks' = blocks \union {[what |-> what, first |-> FirstFree, pages |-> n]}
  PROVE  BlocksOK'
<1> DEFINE new == [what |-> what, first |-> FirstFree, pages |-> n]
<1>1. new.first = FirstFree /\ new.pages = n /\ BlockPages(new) = FirstFree .. FirstFree + n - 1
  BY DEF BlockPages
<1>2. \A b \in blocks' : b \in blocks \/ b = new
  OBVIOUS
<1>3. \A b \in blocks : b \in blocks' 
  OBVIOUS
<1>4. new \in blocks'
  OBVIOUS
<1> HIDE DEF new
<1>5. \A b \in blocks : /\ b.first \in Nat /\ b.pages \in Nat
                        /\ ImageEnd <= b.first /\ b.first + b.pages <= FirstFree
  BY DEF BlocksOK
<1>6. \A b \in blocks' : /\ b.first \in Nat /\ b.pages \in Nat
                         /\ ImageEnd <= b.first /\ b.first + b.pages <= FirstFree + n
  BY <1>1, <1>2, <1>5
<1>7. \A b \in blocks : BlockPages(b) \cap BlockPages(new) = {}
  BY <1>1, <1>5 DEF BlockPages
<1>8. \A b, c \in blocks' : b = c \/ BlockPages(b) \cap BlockPages(c) = {}
  BY <1>2, <1>7 DEF BlocksOK
<1>9. ASSUME NEW p \in ImageEnd .. FirstFree + n - 1
      PROVE  \E b \in blocks' : p \in BlockPages(b)
  <2>1. CASE p < FirstFree
    <3>1. p \in ImageEnd .. FirstFree - 1
      BY <2>1
    <3> QED BY <1>3, <3>1 DEF BlocksOK
  <2>2. CASE FirstFree <= p
    <3>1. p \in BlockPages(new)
      BY <1>1, <2>2
    <3> QED BY <1>4, <3>1
  <2> QED BY <2>1, <2>2
<1>12. ASSUME NEW b \in blocks'
       PROVE  /\ b.first \in Nat /\ b.pages \in Nat
              /\ ImageEnd' <= b.first /\ b.first + b.pages <= FirstFree'
  BY <1>6
<1>13. ASSUME NEW p \in ImageEnd' .. FirstFree' - 1 PROVE \E b \in blocks' : p \in BlockPages(b)
  <2>1. p \in ImageEnd .. FirstFree + n - 1
    BY ONLY p \in ImageEnd' .. FirstFree' - 1, ImageEnd' = ImageEnd, FirstFree' = FirstFree + n,
            ImageEnd \in Nat, FirstFree \in Nat
  <2> QED BY ONLY <1>9, <2>1
<1> QED BY ONLY <1>8, <1>12, <1>13 DEF BlocksOK, BlockPages

LEMMA TablesAdded ==
  ASSUME BlocksOK, FirstFree \in Nat, ImageEnd \in Nat, ImageEnd <= FirstFree, ImageEnd' = ImageEnd,
         NEW n \in Nat, FirstFree' = FirstFree + n,
         blocks' = blocks \union
           {[what |-> "table", first |-> FirstFree + k, pages |-> 1] : k \in 0 .. n-1}
  PROVE  BlocksOK'
<1> DEFINE new(k) == [what |-> "table", first |-> FirstFree + k, pages |-> 1]
<1>1. \A k \in 0 .. n-1 : /\ new(k).first = FirstFree + k /\ new(k).pages = 1
                          /\ BlockPages(new(k)) = {FirstFree + k}
  BY DEF BlockPages
<1>2. \A b \in blocks' : b \in blocks \/ \E k \in 0 .. n-1 : b = new(k)
  OBVIOUS
<1>3. \A b \in blocks : b \in blocks' 
  OBVIOUS
<1>4. \A k \in 0 .. n-1 : new(k) \in blocks'
  OBVIOUS
<1> HIDE DEF new
<1>5. \A b \in blocks : /\ b.first \in Nat /\ b.pages \in Nat
                        /\ ImageEnd <= b.first /\ b.first + b.pages <= FirstFree
  BY DEF BlocksOK
<1>6. \A b \in blocks' : /\ b.first \in Nat /\ b.pages \in Nat
                         /\ ImageEnd <= b.first /\ b.first + b.pages <= FirstFree + n
  BY <1>1, <1>2, <1>5
<1>7. \A b \in blocks, k \in 0 .. n-1 : BlockPages(b) \cap BlockPages(new(k)) = {}
  BY <1>1, <1>5 DEF BlockPages
<1>8. \A j, k \in 0 .. n-1 : j = k \/ BlockPages(new(j)) \cap BlockPages(new(k)) = {}
  BY <1>1
<1>9. ASSUME NEW b \in blocks', NEW c \in blocks'
      PROVE  b = c \/ BlockPages(b) \cap BlockPages(c) = {}
  <2>1. CASE b \in blocks /\ c \in blocks
    BY <2>1 DEF BlocksOK
  <2>2. CASE \E k \in 0 .. n-1 : b = new(k)
    BY ONLY <1>2, <1>7, <1>8, <2>2, b \in blocks', c \in blocks'
  <2>3. CASE \E k \in 0 .. n-1 : c = new(k)
    BY ONLY <1>2, <1>7, <1>8, <2>3, b \in blocks', c \in blocks'
  <2> QED BY ONLY <1>2, <2>1, <2>2, <2>3, b \in blocks', c \in blocks'
<1>10. ASSUME NEW p \in ImageEnd .. FirstFree + n - 1
       PROVE  \E b \in blocks' : p \in BlockPages(b)
  <2>1. CASE p < FirstFree
    <3>1. p \in ImageEnd .. FirstFree - 1
      BY <2>1
    <3> QED BY <1>3, <3>1 DEF BlocksOK
  <2>2. CASE FirstFree <= p
    <3>1. p - FirstFree \in 0 .. n-1 /\ p = FirstFree + (p - FirstFree)
      BY <2>2
    <3> QED BY <1>1, <1>4, <3>1
  <2> QED BY <2>1, <2>2
<1>12. ASSUME NEW b \in blocks'
       PROVE  /\ b.first \in Nat /\ b.pages \in Nat
              /\ ImageEnd' <= b.first /\ b.first + b.pages <= FirstFree'
  BY <1>6
<1>13. ASSUME NEW p \in ImageEnd' .. FirstFree' - 1 PROVE \E b \in blocks' : p \in BlockPages(b)
  <2>1. p \in ImageEnd .. FirstFree + n - 1
    BY ONLY p \in ImageEnd' .. FirstFree' - 1, ImageEnd' = ImageEnd, FirstFree' = FirstFree + n,
            ImageEnd \in Nat, FirstFree \in Nat
  <2> QED BY ONLY <1>10, <2>1
<1> QED BY ONLY <1>9, <1>12, <1>13 DEF BlocksOK, BlockPages

(* A block keeps its name while others are added.                          *)
LEMMA NamedKept ==
  ASSUME NEW what, NEW n, Named(what, n),
         blocks \subseteq blocks', \A b \in blocks' : b \in blocks \/ b.what # what
  PROVE  Named(what, n)' /\ Where(what)' = Where(what)
<1>1. PICK b \in blocks : /\ b.what = what /\ b.pages = n
                          /\ \A c \in blocks : c.what = what => c = b
  BY DEF Named
<1>2. b \in blocks' /\ \A c \in blocks' : c.what = what => c = b
  BY <1>1
<1>3. (CHOOSE c \in blocks : c.what = what) = b
  BY <1>1
<1>4. (CHOOSE c \in blocks' : c.what = what) = b
  BY <1>1, <1>2
<1> QED BY <1>1, <1>2, <1>3, <1>4 DEF Named, Where

LEMMA WhereIs ==
  ASSUME NEW what, NEW n, Named(what, n), BlocksOK
  PROVE  /\ Where(what) \in Nat /\ Size(what) = n
         /\ ImageEnd <= Where(what) /\ Where(what) + n <= FirstFree
<1>1. PICK b \in blocks : /\ b.what = what /\ b.pages = n
                          /\ \A c \in blocks : c.what = what => c = b
  BY DEF Named
<1>2. (CHOOSE c \in blocks : c.what = what) = b
  BY <1>1
<1> QED BY <1>1, <1>2 DEF Where, Size, BlocksOK

(* boot_allocate_space.                                                    *)
LEMMA AllocateIs ==
  ASSUME StepOK, SpaceOK, BlocksOK, ImageEnd' = ImageEnd,
         NEW what, NEW a \in Nat, Allocate(what, a)
  PROVE  /\ ptr_free_mem' \in Nat /\ FirstFree' = FirstFree + PageUp(a)
         /\ BlocksOK'
         /\ (\A b \in blocks : b.what # what) => Named(what, PageUp(a))'
         /\ blocks \subseteq blocks' /\ \A b \in blocks' : b \in blocks \/ b.what = what
<1>1. FirstFree \in Nat /\ ImageEnd \in Nat /\ ImageEnd <= FirstFree
  <2>1. next_step \in Nat
    BY DEF StepOK
  <2>2. Taken(next_step) \in Nat
    BY <2>1, TakenFits
  <2> QED BY <2>2, Sizes DEF SpaceOK
<1>2. PageUp(a) \in Nat
  BY PageUpIs
<1> DEFINE new == [what |-> what, first |-> FirstFree, pages |-> PageUp(a)]
<1>3. ptr_free_mem' = FirstFree * PAGE + a /\ blocks' = blocks \union {new}
  BY DEF Allocate
<1>4. ptr_free_mem' \in Nat /\ PageUp(FirstFree * PAGE + a) = FirstFree + PageUp(a)
  BY <1>1, <1>3, PageUpSum
<1>5. FirstFree' = FirstFree + PageUp(a)
  BY <1>3, <1>4 DEF FirstFree
<1>6. BlocksOK'
  BY <1>1, <1>2, <1>3, <1>5, BlockAdded
<1>7. new.what = what /\ new.pages = PageUp(a)
  OBVIOUS
<1> HIDE DEF new
<1>8. (\A b \in blocks : b.what # what) => Named(what, PageUp(a))'
  BY <1>3, <1>7 DEF Named
<1>10. blocks \subseteq blocks' /\ \A b \in blocks' : b \in blocks \/ b.what = what
  BY <1>3, <1>7
<1> QED BY <1>4, <1>5, <1>6, <1>8, <1>10

-----------------------------------------------------------------------------
(* boot_get_page_table.                                                    *)
LEMMA TablesAre ==
  ASSUME StepOK
  PROVE  /\ Tables \subseteq Nat /\ Kernel \subseteq Own /\ Own \subseteq Tables
         /\ STACK \in Own /\ UENVS \in Own /\ READ_ONLY_FRAMES_INFO \in Own
         /\ VPT \in Tables \ Own /\ UVPT \in Tables \ Own /\ 0 \in Tables \ Own
         /\ KERNEL_BASE \in Kernel
         /\ {STACK, UENVS, READ_ONLY_FRAMES_INFO} \cap Kernel = {}
         /\ Kernel = KERNEL_BASE .. KERNEL_BASE + KernelTables - 1
         /\ KERNEL_BASE = 6 /\ STACK = 4 /\ UENVS = 1 /\ READ_ONLY_FRAMES_INFO = 2
         /\ VPT = 5 /\ UVPT = 3
<1>1. KernelTables \in Nat \ {0}
  BY Sizes
<1> QED BY <1>1 DEF Tables, Kernel, Own, STACK, UENVS, READ_ONLY_FRAMES_INFO, VPT, UVPT, KERNEL_BASE

LEMMA SpaceIs ==
  ASSUME StepOK, SpaceOK
  PROVE  /\ FirstFree \in Nat /\ ImageEnd \in Nat /\ ImageEnd <= FirstFree
         /\ FirstFree <= nf /\ nf \in Nat
<1>1. next_step \in Nat
  BY DEF StepOK
<1>2. Taken(next_step) \in Nat /\ ImageEnd + Taken(next_step) <= nf
  BY <1>1, TakenFits
<1>3. ImageEnd \in Nat /\ nf \in Nat
  BY Sizes
<1> QED BY <1>2, <1>3 DEF SpaceOK

(* The missing tables are those of an interval.                            *)
LEMMA PlacesAre ==
  ASSUME NEW a \in Nat, NEW n \in Nat, NEW d \in a .. a+n-1
  PROVE  Cardinality({e \in a .. a+n-1 : e < d}) = d - a
<1>1. {e \in a .. a+n-1 : e < d} = a .. d-1
  OBVIOUS
<1>2. a \in Int /\ d-1 \in Int /\ d - a >= 0
  OBVIOUS
<1>3. Cardinality(a .. d-1) = IF a > d-1 THEN 0 ELSE d-1-a+1
  BY ONLY <1>2, FS_Interval
<1>4. IF a > d-1 THEN d - a = 0 ELSE d - a = d-1-a+1
  OBVIOUS
<1>5. Cardinality(a .. d-1) = d - a
  BY ONLY <1>3, <1>4
<1> QED BY <1>1, <1>5

LEMMA CountIs ==
  ASSUME NEW a \in Nat, NEW n \in Nat
  PROVE  Cardinality(a .. a+n-1) = n
<1>1. a \in Int /\ a+n-1 \in Int
  OBVIOUS
<1>2. Cardinality(a .. a+n-1) = IF a > a+n-1 THEN 0 ELSE a+n-1-a+1
  BY ONLY <1>1, FS_Interval
<1> QED BY <1>2

(* The tables of a range of pages, and those of them that are missing.     *)
Span(v, n) == v .. v + n - 1
TablesOf(v, n) == {w \div PT : w \in Span(v, n)}
Missing(ds) == {d \in ds : dir[d] = Absent}

LEMMA TablesCreated ==
  ASSUME StepOK, SpaceOK, Placed, BlocksOK, ptr_free_mem \in Nat, ImageEnd' = ImageEnd,
         NEW ds \in SUBSET Own, NEW a \in Nat, NEW n \in Nat,
         Missing(ds) = a .. a+n-1, FirstFree + n <= nf,
         boot_get_page_tables(ds)
  PROVE  /\ ptr_free_mem' \in Nat /\ FirstFree' = FirstFree + n
         /\ n = 0 => ptr_free_mem' = ptr_free_mem
         /\ Placed' /\ BlocksOK'
         /\ blocks \subseteq blocks' /\ \A b \in blocks' : b \in blocks \/ b.what = "table"
         /\ \A d \in Tables : dir'[d] # Absent <=> dir[d] # Absent \/ d \in ds
         /\ \A d \in Tables : dir[d] # Absent \/ d \notin ds => dir'[d] = dir[d]
<1> DEFINE missing == {d \in ds : dir[d] = Absent}
           at == [d \in missing |-> FirstFree + Cardinality({e \in missing : e < d})]
<1>1. /\ FirstFree \in Nat /\ ImageEnd \in Nat /\ ImageEnd <= FirstFree
      /\ FirstFree <= nf /\ nf \in Nat
  BY SpaceIs
<1>2. /\ dir' = [d \in Tables |-> IF d \in missing THEN at[d] ELSE dir[d]]
      /\ ptr_free_mem' = IF missing = {} THEN ptr_free_mem
                         ELSE (FirstFree + Cardinality(missing)) * PAGE
      /\ blocks' = blocks \union
           {[what |-> "table", first |-> at[d], pages |-> 1] : d \in missing}
  BY DEF boot_get_page_tables
<1>3. missing = a .. a+n-1 /\ missing \subseteq ds
  BY DEF Missing
<1>4. Cardinality(missing) = n
  BY <1>3, CountIs
<1>5. \A d \in missing : at[d] = FirstFree + (d - a)
  BY <1>3, PlacesAre
<1> HIDE DEF missing, at
<1>6. missing = {} <=> n = 0
  BY <1>3
<1>7. ptr_free_mem' \in Nat /\ FirstFree' = FirstFree + n /\ (n = 0 => ptr_free_mem' = ptr_free_mem)
  <2>1. CASE n = 0
    <3>1. ptr_free_mem' = ptr_free_mem
      BY <1>2, <1>6, <2>1
    <3> QED BY <1>1, <2>1, <3>1 DEF FirstFree
  <2>2. CASE n # 0
    <3>1. ptr_free_mem' = (FirstFree + n) * PAGE
      BY <1>2, <1>4, <1>6, <2>2
    <3>2. FirstFree + n \in Nat
      BY <1>1
    <3>5. ptr_free_mem' \in Nat /\ PageUp(ptr_free_mem') = FirstFree + n
      BY ONLY <3>1, <3>2, PageUpWhole
    <3> QED BY <2>2, <3>5 DEF FirstFree
  <2> QED BY <2>1, <2>2
<1>8. {[what |-> "table", first |-> at[d], pages |-> 1] : d \in missing}
        = {[what |-> "table", first |-> FirstFree + k, pages |-> 1] : k \in 0 .. n-1}
  <2>1. \A d \in missing : d - a \in 0 .. n-1 /\ at[d] = FirstFree + (d - a)
    BY <1>3, <1>5
  <2>2. \A k \in 0 .. n-1 : a + k \in missing /\ at[a + k] = FirstFree + k
    BY <1>1, <1>3, <1>5
  <2> QED BY <2>1, <2>2
<1>9. blocks' = blocks \union
        {[what |-> "table", first |-> FirstFree + k, pages |-> 1] : k \in 0 .. n-1}
  BY <1>2, <1>8
<1>10. BlocksOK'
  BY <1>1, <1>7, <1>9, TablesAdded
<1>11. blocks \subseteq blocks' /\ \A b \in blocks' : b \in blocks \/ b.what = "table"
  BY <1>2
<1>12. \A d \in missing : d \in Own /\ d \in Tables /\ dir[d] = Absent
  BY <1>3, TablesAre DEF missing
<1>13. \A d \in missing : dir'[d] \in FirstFree .. FirstFree + n - 1 /\ dir'[d] = FirstFree + (d - a)
  BY <1>1, <1>2, <1>3, <1>5, <1>12
<1>14. 0 .. nf-1 \subseteq Frames /\ Absent \notin Frames /\ Frames \subseteq Nat
  BY FramesAre
<1>15. \A d \in missing : dir'[d] \in Frames /\ dir'[d] # Absent
  BY <1>1, <1>13, <1>14
<1>16. \A d \in Tables : d \notin missing => dir'[d] = dir[d]
  BY <1>2
<1>17. dir' \in [Tables -> Frames \cup {Absent}]
  BY <1>2, <1>15, <1>16 DEF Placed
<1>18. \A d \in Tables : dir'[d] # Absent <=> dir[d] # Absent \/ d \in ds
  BY <1>15, <1>16 DEF missing
<1>19. \A d \in Tables : dir[d] # Absent \/ d \notin ds => dir'[d] = dir[d]
  BY <1>16 DEF missing
<1>20. \A d \in Own : d \in Tables
  BY TablesAre
<1>21. \A d \in Own : dir'[d] # Absent => dir'[d] \in ImageEnd .. FirstFree + n - 1
  <2> SUFFICES ASSUME NEW d \in Own, dir'[d] # Absent
               PROVE  dir'[d] \in ImageEnd .. FirstFree + n - 1
    OBVIOUS
  <2>1. CASE d \in missing
    BY <1>1, <1>13, <2>1
  <2>2. CASE d \notin missing
    <3>1. dir[d] \in ImageEnd .. FirstFree - 1 /\ dir'[d] = dir[d]
      BY <1>16, <1>20, <2>2 DEF Placed
    <3> QED BY <1>1, <3>1
  <2> QED BY <2>1, <2>2
<1>22. ASSUME NEW d \in Own, NEW e \in Own, dir'[d] = dir'[e], dir'[d] # Absent PROVE d = e
  <2>1. \A c \in Own : c \notin missing => dir'[c] = dir[c]
    BY <1>16, <1>20
  <2>2. CASE d \notin missing /\ e \notin missing
    BY <1>22, <2>1, <2>2 DEF Placed
  <2>3. CASE d \in missing /\ e \in missing
    <3>1. d \in Nat /\ e \in Nat
      BY <1>3, <2>3
    <3>2. FirstFree + (d - a) = FirstFree + (e - a)
      BY <1>13, <1>22, <2>3
    <3> QED BY <1>1, <3>1, <3>2
  <2>4. \A c \in Own : c \notin missing /\ dir'[c] # Absent => dir'[c] \in ImageEnd .. FirstFree - 1
    BY <2>1 DEF Placed
  <2>5. CASE d \in missing /\ e \notin missing
    BY <1>1, <1>13, <1>22, <2>4, <2>5
  <2>6. CASE d \notin missing /\ e \in missing
    BY <1>1, <1>13, <1>22, <2>4, <2>6
  <2> QED BY <2>2, <2>3, <2>5, <2>6
<1>23. \A d \in Own : dir'[d] # Absent => dir'[d] \in ImageEnd' .. FirstFree' - 1
  <2>1. FirstFree' - 1 = FirstFree + n - 1
    BY <1>1, <1>7
  <2> QED BY <1>21, <2>1
<1>24. Placed'
  BY ONLY <1>17, <1>22, <1>23 DEF Placed, Own, Tables, Frames, Absent
<1> QED BY <1>7, <1>10, <1>11, <1>18, <1>19, <1>24

-----------------------------------------------------------------------------
(* boot_map_range.                                                         *)
(* What it needs: the tables it creates are the n from a on.               *)
MapsRange(v, pages, pa, a, n) ==
  /\ v \in Nat /\ pages \in Nat /\ pa \in Int /\ a \in Nat /\ n \in Nat
  /\ TablesOf(v, pages) \subseteq Own
  /\ Missing(TablesOf(v, pages)) = a .. a+n-1 /\ FirstFree + n <= nf
  /\ boot_map_range(v, pages, pa)

LEMMA RangeMapped ==
  ASSUME StepOK, SpaceOK, Placed, BlocksOK, ptr_free_mem \in Nat, ImageEnd' = ImageEnd,
         pt \in [Frames -> [0 .. PT-1 -> Int]],
         NEW v, NEW pages, NEW pa, NEW a, NEW n, MapsRange(v, pages, pa, a, n)
  PROVE  /\ ptr_free_mem' \in Nat /\ FirstFree' = FirstFree + n
         /\ n = 0 => ptr_free_mem' = ptr_free_mem
         /\ Placed' /\ BlocksOK'
         /\ blocks \subseteq blocks' /\ \A b \in blocks' : b \in blocks \/ b.what = "table"
         /\ \A d \in Tables : dir'[d] # Absent <=> dir[d] # Absent \/ d \in TablesOf(v, pages)
         /\ pt' \in [Frames -> [0 .. PT-1 -> Int]]
         /\ Mapped(v, pages, pa)'
         /\ \A x \in Nat \ (v .. v + pages - 1) :
              x \div PT \in Own /\ dir[x \div PT] # Absent => check_va2pa(x)' = check_va2pa(x)
<1>0. /\ v \in Nat /\ pages \in Nat /\ pa \in Int /\ a \in Nat /\ n \in Nat
      /\ boot_map_range(v, pages, pa) /\ FirstFree + n <= nf
  BY DEF MapsRange
<1> USE <1>0
<1> PICK ds \in SUBSET Own : ds = TablesOf(v, pages) /\ Missing(ds) = a .. a+n-1
  BY DEF MapsRange
<1> DEFINE range == v .. v + pages - 1
           hit(f, i) == {w \in range : dir'[w \div PT] = f /\ w % PT = i}
           page(f, i) == CHOOSE w \in hit(f, i) : TRUE
<1>1. /\ boot_get_page_tables(ds)
      /\ pt' = [f \in Frames |-> [i \in 0 .. PT-1 |->
                  IF hit(f, i) = {} THEN pt[f][i] ELSE pa + page(f, i) - v]]
  BY DEF boot_map_range, TablesOf, Span
<1>2. /\ ptr_free_mem' \in Nat /\ FirstFree' = FirstFree + n
      /\ n = 0 => ptr_free_mem' = ptr_free_mem
      /\ Placed' /\ BlocksOK'
      /\ blocks \subseteq blocks' /\ \A b \in blocks' : b \in blocks \/ b.what = "table"
      /\ \A d \in Tables : dir'[d] # Absent <=> dir[d] # Absent \/ d \in ds
      /\ \A d \in Tables : dir[d] # Absent \/ d \notin ds => dir'[d] = dir[d]
  BY <1>1, TablesCreated
<1>3. \A w \in range : w \in Nat /\ w \div PT \in ds
  BY DEF TablesOf, Span
<1> HIDE DEF range
<1>5. \A d \in Own : d \in Tables /\ d \in Own'
  BY TablesAre DEF Own
<1>6. /\ dir' \in [Tables -> Frames \cup {Absent}]
      /\ \A d, e \in Own : dir'[d] = dir'[e] /\ dir'[d] # Absent => d = e
  BY <1>2, <1>5 DEF Placed
<1>7. \A w \in range : dir'[w \div PT] # Absent /\ dir'[w \div PT] \in Frames
  BY <1>2, <1>3, <1>5, <1>6
<1>8. \A w \in Nat : w % PT \in 0 .. PT-1
  BY PageOfTable
<1>9. \A f \in Frames, i \in 0 .. PT-1 : hit(f, i) \subseteq range
  OBVIOUS
<1>10. \A w \in range, x \in Nat :
         /\ x \div PT \in Own /\ dir'[x \div PT] = dir'[w \div PT] /\ x % PT = w % PT => x = w
  <2> SUFFICES ASSUME NEW w \in range, NEW x \in Nat, x \div PT \in Own,
                      dir'[x \div PT] = dir'[w \div PT], x % PT = w % PT
               PROVE  x = w
    OBVIOUS
  <2>1. x \div PT = w \div PT /\ w \in Nat
    BY <1>3, <1>6, <1>7
  <2> QED BY ONLY <2>1, x \in Nat, x % PT = w % PT, SamePage
<1>11. ASSUME NEW f \in Frames, NEW i \in 0 .. PT-1
       PROVE  pt'[f][i] = IF hit(f, i) = {} THEN pt[f][i]
                          ELSE pa + page(f, i) - v
  BY <1>1
<1>12. ASSUME NEW f \in Frames, NEW i \in 0 .. PT-1, hit(f, i) # {}
       PROVE  page(f, i) \in range
  BY <1>9, <1>12
<1>18. ASSUME NEW f \in Frames, NEW i \in 0 .. PT-1, NEW w, hit(f, i) = {w}
       PROVE  page(f, i) = w
  BY <1>18
<1> HIDE DEF hit, page
<1>13. pt' \in [Frames -> [0 .. PT-1 -> Int]]
  <2>1. \A f \in Frames, i \in 0 .. PT-1 :
          (IF hit(f, i) = {} THEN pt[f][i] ELSE pa + page(f, i) - v) \in Int
    <3> TAKE f \in Frames, i \in 0 .. PT-1
    <3>1. CASE hit(f, i) = {}
      BY <3>1
    <3>2. CASE hit(f, i) # {}
      <4>1. page(f, i) \in range
        BY <1>12, <3>2
      <4>2. page(f, i) \in Int
        BY <1>3, <4>1
      <4> QED BY <3>2, <4>2
    <3> QED BY <3>1, <3>2
  <2> QED BY <1>1, <2>1
<1>14. ASSUME NEW w \in range
       PROVE  w \div PT \in Own /\ dir'[w \div PT] # Absent /\ check_va2pa(w)' = pa + w - v
  <2> DEFINE f == dir'[w \div PT]
             i == w % PT
  <2>1. f \in Frames /\ i \in 0 .. PT-1 /\ w \in Nat
    BY <1>3, <1>7, <1>8
  <2>2. hit(f, i) = {w}
    <3>1. w \in hit(f, i)
      BY DEF hit
    <3>2. \A x \in hit(f, i) : x = w
      BY <1>3, <1>10 DEF hit
    <3> QED BY <3>1, <3>2
  <2>3. pt'[f][i] = pa + w - v
    BY <1>11, <1>18, <2>1, <2>2
  <2>4. check_va2pa(w)' = pt'[f][i]
    BY <2>1 DEF check_va2pa
  <2> QED BY <1>3, <1>7, <2>3, <2>4
<1>15. Mapped(v, pages, pa)'
  BY <1>14 DEF Mapped, Own, Tables, Absent, range
<1>16. ASSUME NEW x \in Nat, x \notin range, x \div PT \in Own, dir[x \div PT] # Absent
       PROVE  check_va2pa(x)' = check_va2pa(x)
  <2> DEFINE f == dir[x \div PT]
             i == x % PT
  <2>1. dir'[x \div PT] = f /\ f \in Frames /\ i \in 0 .. PT-1
    BY <1>2, <1>5, <1>8, <1>16 DEF Placed
  <2>2. hit(f, i) = {}
    <3> SUFFICES ASSUME NEW w \in hit(f, i) PROVE FALSE
      OBVIOUS
    <3>1. w \in range /\ dir'[w \div PT] = f /\ w % PT = i
      BY DEF hit
    <3>2. x = w
      BY <1>10, <1>16, <2>1, <3>1
    <3> QED BY <1>16, <3>1, <3>2
  <2>3. pt'[f][i] = pt[f][i]
    BY <1>11, <2>1, <2>2
  <2> QED BY <2>1, <2>3 DEF check_va2pa
<1>17. \A x \in Nat \ (v .. v + pages - 1) :
         x \div PT \in Own /\ dir[x \div PT] # Absent => check_va2pa(x)' = check_va2pa(x)
  BY <1>16 DEF range
<1>19. \A d \in Tables : dir'[d] # Absent <=> dir[d] # Absent \/ d \in TablesOf(v, pages)
  BY <1>2
<1> QED BY ONLY <1>2, <1>13, <1>15, <1>17, <1>19

-----------------------------------------------------------------------------
(* What the steps have in common.                                          *)
LEMMA StepKept ==
  ASSUME StepOK, NEW s, Do(s), ptr_free_mem' \in Nat, ~failed', UNCHANGED mode,
         next_step \notin IF Lab THEN {10, 11} ELSE {11, 12}
  PROVE  StepOK'
<1>1. /\ next_step' = next_step + 1 /\ next_step' \in 1 .. Len(Steps) + 1
      /\ UNCHANGED <<tree, image, ext>> /\ Lab' = Lab /\ Steps' = Steps
  BY StepDone
<1>2. next_step \in Int
  BY LengthIs DEF StepOK
<1>3. (mode = "low") <=> (next_step' = IF Lab THEN 11 ELSE 12)
  BY <1>1, <1>2 DEF StepOK
<1>4. (mode = "flat") <=> (next_step' > IF Lab THEN 11 ELSE 12)
  BY <1>1, <1>2 DEF StepOK
<1> QED BY <1>1, <1>3, <1>4 DEF StepOK

LEMMA NotYetBooted ==
  ASSUME StepOK, NEW s, Do(s), next_step < IF Lab THEN 12 ELSE 13
  PROVE  FreeListIsTheRest'
<1>1. next_step' = next_step + 1 /\ Lab' = Lab /\ Steps' = Steps /\ next_step \in Nat
  BY StepDone DEF StepOK
<1>2. ~Booted'
  BY <1>1, LengthIs DEF Booted
<1> QED BY <1>2 DEF FreeListIsTheRest

LEMMA NameKept ==
  ASSUME NEW what, NEW n, NEW k \in Nat, next_step \in Nat, next_step' = next_step + 1, next_step # k,
         IF next_step > k THEN Named(what, n) ELSE \A b \in blocks : b.what # what,
         blocks \subseteq blocks', \A b \in blocks' : b \in blocks \/ b.what # what
  PROVE  /\ IF next_step' > k THEN Named(what, n)' ELSE \A b \in blocks' : b.what # what
         /\ next_step > k => Where(what)' = Where(what)
<1>1. next_step' > k <=> next_step > k
  OBVIOUS
<1>2. CASE next_step > k
  BY <1>1, <1>2, NamedKept
<1>3. CASE ~(next_step > k)
  BY <1>1, <1>3
<1> QED BY <1>2, <1>3

LEMMA NamesKept ==
  ASSUME StepOK, NamesOK, NEW s, Do(s), next_step \notin {1, 4, 7},
         blocks \subseteq blocks',
         \A b \in blocks' : b \in blocks \/ b.what \notin {"directory", "frames_info", "envs"}
  PROVE  /\ NamesOK'
         /\ next_step > 1 => Where("directory")' = Where("directory")
         /\ next_step > 4 => Where("frames_info")' = Where("frames_info")
         /\ next_step > 7 => Where("envs")' = Where("envs")
<1>1. next_step \in Nat /\ next_step' = next_step + 1 /\ number_of_frames' = number_of_frames
  BY StepDone DEF StepOK
<1>2. /\ IF next_step' > 1 THEN Named("directory", 1)' ELSE \A b \in blocks' : b.what # "directory"
      /\ next_step > 1 => Where("directory")' = Where("directory")
  BY <1>1, NameKept DEF NamesOK
<1>3. /\ IF next_step' > 4 THEN Named("frames_info", PageUp(number_of_frames))'
                           ELSE \A b \in blocks' : b.what # "frames_info"
      /\ next_step > 4 => Where("frames_info")' = Where("frames_info")
  BY <1>1, NameKept DEF NamesOK
<1>4. /\ IF next_step' > 7 THEN Named("envs", PageUp(EnvsSize))'
                           ELSE \A b \in blocks' : b.what # "envs"
      /\ next_step > 7 => Where("envs")' = Where("envs")
  BY <1>1, NameKept DEF NamesOK
<1>5. NamesOK'
  BY <1>1, <1>2, <1>3, <1>4 DEF NamesOK
<1> QED BY <1>2, <1>3, <1>4, <1>5

(* The tables of the four mappings.                                        *)
StackBase == (STACK + 1) * PT - StackPages

LEMMA RangeOfTable ==
  ASSUME StepOK, NEW t \in Nat, NEW o \in Nat, NEW n \in Nat \ {0}, o + n <= PT
  PROVE  t * PT + o \in Nat /\ TablesOf(t * PT + o, n) = {t}
<1>1. PT \in Nat
  BY Sizes
<1>2. t * PT \in Nat
  BY <1>1
<1> DEFINE v == t * PT + o
<1>3. v \in Nat /\ v \in Span(v, n)
  BY <1>2 DEF Span
<1>4. \A w \in Span(v, n) : w \div PT = t
  BY RangeInTable DEF Span
<1> HIDE DEF v
<1>5. TablesOf(v, n) = {t}
  BY <1>3, <1>4 DEF TablesOf
<1> QED BY <1>3, <1>5 DEF v

LEMMA StackRange ==
  ASSUME StepOK
  PROVE  StackBase \in Nat /\ StackPages \in Nat /\ TablesOf(StackBase, StackPages) = {STACK}
<1>1. PT \in Nat /\ PT >= 2 /\ StackPages = 2 /\ STACK = 4
  BY BootAssumption DEF StackPages, STACK
<1>2. StackBase = STACK * PT + (PT - 2)
  BY <1>1 DEF StackBase
<1>3. STACK \in Nat /\ PT - 2 \in Nat /\ 2 \in Nat \ {0} /\ PT - 2 + 2 <= PT
  BY <1>1
<1>4. STACK * PT + (PT - 2) \in Nat /\ TablesOf(STACK * PT + (PT - 2), 2) = {STACK}
  BY <1>3, RangeOfTable
<1> QED BY <1>1, <1>2, <1>4

LEMMA ViewRange ==
  ASSUME StepOK, NEW t \in Nat, NEW n \in 1 .. PT
  PROVE  t * PT \in Nat /\ TablesOf(t * PT, n) = {t}
<1>1. PT \in Nat /\ t * PT \in Nat
  BY Sizes
<1>2. n \in Nat \ {0} /\ 0 \in Nat /\ 0 + n <= PT /\ t * PT + 0 = t * PT
  BY <1>1
<1>3. TablesOf(t * PT + 0, n) = {t}
  BY <1>2, RangeOfTable
<1> QED BY <1>1, <1>2, <1>3

LEMMA KernelRange ==
  ASSUME StepOK, NEW n \in Nat, n <= KernelTables * PT
  PROVE  /\ KERNEL_BASE * PT \in Nat /\ TablesOf(KERNEL_BASE * PT, n) \subseteq Kernel
         /\ n = KernelTables * PT => TablesOf(KERNEL_BASE * PT, n) = Kernel
<1>1. KERNEL_BASE * PT \in Nat
  BY Sizes DEF KERNEL_BASE
<1>2. \A w \in Span(KERNEL_BASE * PT, n) : w \div PT \in Kernel
  BY RangeOfKernel DEF Span
<1>3. TablesOf(KERNEL_BASE * PT, n) \subseteq Kernel
  BY <1>2 DEF TablesOf
<1>4. ASSUME n = KernelTables * PT, NEW d \in Kernel PROVE d \in TablesOf(KERNEL_BASE * PT, n)
  <2>1. PICK w \in KERNEL_BASE * PT .. KERNEL_BASE * PT + KernelTables * PT - 1 : w \div PT = d
    BY KernelIsWhole
  <2>2. w \in Span(KERNEL_BASE * PT, n)
    BY <1>4, <2>1 DEF Span
  <2> QED BY <2>1, <2>2 DEF TablesOf
<1> QED BY <1>1, <1>3, <1>4

LEMMA MapsKept ==
  ASSUME StepOK, NEW ds, UNCHANGED <<image, ext>>,
         \A d \in Own : dir[d] # Absent => dir'[d] # Absent,
         \A x \in Nat : x \div PT \in Own \ ds /\ dir[x \div PT] # Absent
                          => check_va2pa(x)' = check_va2pa(x)
  PROVE  /\ StackMapped /\ STACK \notin ds => StackMapped'
         /\ \A n \in Nat : n <= KernelTables * PT /\ KernelMapped(n) /\ ds \cap Kernel = {}
              => KernelMapped(n)'
         /\ FramesMapped /\ READ_ONLY_FRAMES_INFO \notin ds /\ Where("frames_info")' = Where("frames_info")
              => FramesMapped'
         /\ EnvsMapped /\ UENVS \notin ds /\ Where("envs")' = Where("envs") => EnvsMapped'
<1>1. ASSUME NEW v \in Nat, NEW n \in Nat, TablesOf(v, n) \cap ds = {}
      PROVE  \A pa : Mapped(v, n, pa) => /\ \A w \in v .. v + n - 1 :
                                              /\ w \div PT \in Own /\ dir'[w \div PT] # Absent
                                              /\ check_va2pa(w)' = pa + w - v
  <2> SUFFICES ASSUME NEW pa, Mapped(v, n, pa), NEW w \in v .. v + n - 1
               PROVE  /\ w \div PT \in Own /\ dir'[w \div PT] # Absent
                      /\ check_va2pa(w)' = pa + w - v
    OBVIOUS
  <2>1. w \in Nat /\ w \div PT \notin ds
    BY <1>1 DEF TablesOf, Span
  <2>2. w \div PT \in Own /\ dir[w \div PT] # Absent /\ check_va2pa(w) = pa + w - v
    BY DEF Mapped
  <2> QED BY <2>1, <2>2
<1>2. Own' = Own /\ Absent' = Absent
  BY DEF Own
<1>3. StackMapped /\ STACK \notin ds => StackMapped'
  <2> SUFFICES ASSUME StackMapped, STACK \notin ds PROVE StackMapped'
    OBVIOUS
  <2>1. StackBase \in Nat /\ StackPages \in Nat /\ TablesOf(StackBase, StackPages) \cap ds = {}
    BY StackRange
  <2>2. Mapped(StackBase, StackPages, ptr_stack_bottom)
    BY DEF StackMapped, StackBase
  <2>3. \A w \in StackBase .. StackBase + StackPages - 1 :
          /\ w \div PT \in Own /\ dir'[w \div PT] # Absent
          /\ check_va2pa(w)' = ptr_stack_bottom + w - StackBase
    BY <1>1, <2>1, <2>2
  <2>4. ptr_stack_bottom' = ptr_stack_bottom
    BY DEF ptr_stack_bottom
  <2>5. Mapped(StackBase, StackPages, ptr_stack_bottom)'
    BY <2>3, <2>4 DEF Mapped, Own, Tables, Absent
  <2> QED BY <2>5 DEF StackMapped, StackBase
<1>4. ASSUME NEW n \in Nat, n <= KernelTables * PT, KernelMapped(n), ds \cap Kernel = {}
      PROVE  KernelMapped(n)'
  <2>1. KERNEL_BASE * PT \in Nat /\ TablesOf(KERNEL_BASE * PT, n) \cap ds = {}
    BY <1>4, KernelRange
  <2>2. Mapped(KERNEL_BASE * PT, n, 0)
    BY <1>4 DEF KernelMapped
  <2> HIDE DEF KERNEL_BASE
  <2>3. \A w \in KERNEL_BASE * PT .. KERNEL_BASE * PT + n - 1 :
          /\ w \div PT \in Own /\ dir'[w \div PT] # Absent
          /\ check_va2pa(w)' = 0 + w - KERNEL_BASE * PT
    BY <1>1, <2>1, <2>2
  <2>4. Mapped(KERNEL_BASE * PT, n, 0)'
    BY <2>3 DEF Mapped, Own, Tables, Absent
  <2> QED BY <2>4 DEF KernelMapped
<1>5. /\ READ_ONLY_FRAMES_INFO \in Nat /\ UENVS \in Nat
      /\ PageUp(number_of_frames) \in 1 .. PT /\ PageUp(EnvsSize) \in 1 .. PT
      /\ number_of_frames' = number_of_frames
  BY Sizes DEF READ_ONLY_FRAMES_INFO, UENVS, nf, number_of_frames, maxpa
<1>6. /\ FramesMapped /\ READ_ONLY_FRAMES_INFO \notin ds /\ Where("frames_info")' = Where("frames_info")
        => FramesMapped'
  <2> SUFFICES ASSUME FramesMapped, READ_ONLY_FRAMES_INFO \notin ds,
                      Where("frames_info")' = Where("frames_info")
               PROVE  FramesMapped'
    OBVIOUS
  <2> DEFINE v == READ_ONLY_FRAMES_INFO * PT
             n == PageUp(number_of_frames)
  <2>1. v \in Nat /\ n \in Nat /\ TablesOf(v, n) \cap ds = {} /\ n' = n
    BY <1>5, ViewRange
  <2>2. Mapped(v, n, Where("frames_info"))
    BY DEF FramesMapped
  <2> HIDE DEF v, n
  <2>3. \A w \in v .. v + n - 1 :
          /\ w \div PT \in Own /\ dir'[w \div PT] # Absent
          /\ check_va2pa(w)' = Where("frames_info") + w - v
    BY <1>1, <2>1, <2>2
  <2>4. Mapped(v, n, Where("frames_info"))'
    BY <2>1, <2>3 DEF Mapped, Own, Tables, Absent
  <2> QED BY <2>4 DEF FramesMapped, v, n
<1>7. EnvsMapped /\ UENVS \notin ds /\ Where("envs")' = Where("envs") => EnvsMapped'
  <2> SUFFICES ASSUME EnvsMapped, UENVS \notin ds, Where("envs")' = Where("envs")
               PROVE  EnvsMapped'
    OBVIOUS
  <2> DEFINE v == UENVS * PT
             n == PageUp(EnvsSize)
  <2>1. v \in Nat /\ n \in Nat /\ TablesOf(v, n) \cap ds = {}
    BY <1>5, ViewRange
  <2>2. Mapped(v, n, Where("envs"))
    BY DEF EnvsMapped
  <2> HIDE DEF v, n
  <2>3. \A w \in v .. v + n - 1 :
          /\ w \div PT \in Own /\ dir'[w \div PT] # Absent
          /\ check_va2pa(w)' = Where("envs") + w - v
    BY <1>1, <2>1, <2>2
  <2>4. Mapped(v, n, Where("envs"))'
    BY <2>3 DEF Mapped, Own, Tables, Absent
  <2> QED BY <2>4 DEF EnvsMapped, v, n
<1>8. \A n \in Nat : n <= KernelTables * PT /\ KernelMapped(n) /\ ds \cap Kernel = {} => KernelMapped(n)'
  BY ONLY <1>4
<1> QED BY ONLY <1>3, <1>8, <1>6, <1>7

-----------------------------------------------------------------------------
(* What the step at hand takes.                                            *)
Needed ==
  CASE next_step \in {1, 2} -> 1
    [] next_step = 3 -> KernelTables
    [] next_step = 4 -> PageUp(number_of_frames)
    [] next_step = 5 -> IF Lab THEN 1 ELSE PageUp(DiskSize)
    [] next_step = 7 -> PageUp(EnvsSize)
    [] next_step = 8 -> 1
    [] OTHER -> 0

LEMMA NeededIs ==
  ASSUME StepOK, SpaceOK
  PROVE  Needed \in Nat /\ FirstFree + Needed <= nf
<1> DEFINE f == PageUp(nf)
           d == PageUp(DiskSize)
           e == PageUp(EnvsSize)
<1>1. /\ KernelTables \in Nat /\ f \in Nat /\ d \in Nat /\ e \in Nat /\ ImageEnd \in Nat
      /\ nf \in Nat /\ ImageEnd + 4 + KernelTables + f + d + e <= nf
  BY Sizes
<1>2. number_of_frames = nf /\ next_step \in Nat
  BY DEF nf, StepOK
<1>3. FirstFree = ImageEnd + Taken(next_step)
  BY DEF SpaceOK
<1> HIDE DEF f, d, e
<1> QED BY <1>1, <1>2, <1>3 DEF Taken, Needed, f, d, e

LEMMA SpaceKept ==
  ASSUME StepOK, SpaceOK, NEW s, Do(s), FirstFree' = FirstFree + Needed
  PROVE  SpaceOK'
<1> DEFINE f == PageUp(number_of_frames)
           d == PageUp(DiskSize)
           e == PageUp(EnvsSize)
<1>1. KernelTables \in Nat /\ f \in Nat /\ d \in Nat /\ e \in Nat /\ ImageEnd \in Nat
  BY Sizes DEF nf
<1>2. /\ next_step \in Nat /\ next_step' = next_step + 1
      /\ Lab' = Lab /\ ImageEnd' = ImageEnd /\ f' = f
  BY StepDone DEF StepOK
<1>3. FirstFree = ImageEnd + Taken(next_step)
  BY DEF SpaceOK
<1>4. Taken(next_step)' =
        (IF next_step + 1 > 1 THEN 1 ELSE 0) + (IF next_step + 1 > 2 THEN 1 ELSE 0)
          + (IF next_step + 1 > 3 THEN KernelTables ELSE 0)
          + (IF next_step + 1 > 4 THEN f ELSE 0)
          + (IF next_step + 1 > 5 THEN IF Lab THEN 1 ELSE d ELSE 0)
          + (IF next_step + 1 > 7 THEN e ELSE 0)
          + (IF next_step + 1 > 8 THEN 1 ELSE 0)
  BY <1>2 DEF Taken
<1>5. Taken(next_step) =
        (IF next_step > 1 THEN 1 ELSE 0) + (IF next_step > 2 THEN 1 ELSE 0)
          + (IF next_step > 3 THEN KernelTables ELSE 0)
          + (IF next_step > 4 THEN f ELSE 0)
          + (IF next_step > 5 THEN IF Lab THEN 1 ELSE d ELSE 0)
          + (IF next_step > 7 THEN e ELSE 0)
          + (IF next_step > 8 THEN 1 ELSE 0)
  BY DEF Taken
<1>6. Needed = CASE next_step \in {1, 2} -> 1
                 [] next_step = 3 -> KernelTables
                 [] next_step = 4 -> f
                 [] next_step = 5 -> IF Lab THEN 1 ELSE d
                 [] next_step = 7 -> e
                 [] next_step = 8 -> 1
                 [] OTHER -> 0
  BY DEF Needed
<1> HIDE DEF f, d, e
<1>7. Taken(next_step)' = Taken(next_step) + Needed /\ Taken(next_step) \in Nat /\ Needed \in Nat
  BY <1>1, <1>2, <1>4, <1>5, <1>6
<1> QED BY <1>1, <1>2, <1>3, <1>7 DEF SpaceOK

(* The directory after a step that does not touch it.                      *)
LEMMA DirKept ==
  ASSUME StepOK, DirOK, NEW s, Do(s), FirstFree \in Nat, FirstFree' \in Nat, FirstFree' >= FirstFree,
         UNCHANGED <<dir, mode>>,
         next_step \in {1, 4, 7} \/ next_step > 8 \/ (next_step = 5 /\ ~Lab)
  PROVE  DirOK'
<1>1. next_step \in Nat /\ next_step' = next_step + 1 /\ Lab' = Lab /\ ImageEnd' = ImageEnd
  BY StepDone DEF StepOK
<1>2. ImageEnd \in Nat
  BY Sizes
<1>3. Placed'
  BY <1>1, <1>2 DEF DirOK, Placed, Own
<1>4. \A d \in Tables : Present(d)' <=> Present(d)
  BY <1>1 DEF Present
<1> QED BY <1>3, <1>4 DEF DirOK

(* A rigid number of pages and one that a step does not change.            *)
LEMMA KernelStays ==
  ASSUME NEW n, n = KernelPages', KernelMapped(n)'
  PROVE  KernelMapped(KernelPages)'
BY DEF KernelMapped, Mapped

(* The mappings there are stay, but those of the tables ds.                *)
LEMMA MapsStay ==
  ASSUME StepOK, SpaceOK, MapsOK, NEW s, Do(s), NEW ds,
         \A d \in Own : dir[d] # Absent => dir'[d] # Absent,
         \A x \in Nat : x \div PT \in Own \ ds /\ dir[x \div PT] # Absent
                          => check_va2pa(x)' = check_va2pa(x),
         next_step > 4 => Where("frames_info")' = Where("frames_info"),
         next_step > 7 => Where("envs")' = Where("envs"),
         PhysicalMapped /\ tree = "fos" => FirstFree' = FirstFree
  PROVE  /\ next_step > 2 /\ STACK \notin ds => StackMapped'
         /\ PhysicalMapped /\ ds \cap Kernel = {} => KernelMapped(KernelPages)'
         /\ Lab /\ next_step > 5 /\ READ_ONLY_FRAMES_INFO \notin ds => FramesMapped'
         /\ next_step > 8 /\ UENVS \notin ds => EnvsMapped'
<1>1. UNCHANGED <<image, ext>> /\ tree' = tree /\ next_step \in Nat
  BY StepDone DEF StepOK
<1>2. /\ StackMapped /\ STACK \notin ds => StackMapped'
      /\ \A n \in Nat : n <= KernelTables * PT /\ KernelMapped(n) /\ ds \cap Kernel = {}
           => KernelMapped(n)'
      /\ FramesMapped /\ READ_ONLY_FRAMES_INFO \notin ds /\ Where("frames_info")' = Where("frames_info")
           => FramesMapped'
      /\ EnvsMapped /\ UENVS \notin ds /\ Where("envs")' = Where("envs") => EnvsMapped'
  BY <1>1, MapsKept
<1>3. ASSUME PhysicalMapped, ds \cap Kernel = {} PROVE KernelMapped(KernelPages)'
  <2>1. PICK n : n = KernelPages
    OBVIOUS
  <2>2. n \in Nat /\ n <= KernelTables * PT
    BY <2>1, Sizes, SpaceIs DEF KernelPages
  <2>3. KernelMapped(n)
    BY <1>3, <2>1 DEF MapsOK
  <2>4. KernelMapped(n)'
    BY <1>2, <1>3, <2>2, <2>3
  <2>5. n = KernelPages'
    BY <1>1, <1>3, <2>1 DEF KernelPages
  <2> QED BY <2>4, <2>5, KernelStays
<1>4. next_step > 2 /\ STACK \notin ds => StackMapped'
  BY <1>2 DEF MapsOK
<1>5. Lab /\ next_step > 5 /\ READ_ONLY_FRAMES_INFO \notin ds => FramesMapped'
  BY <1>1, <1>2 DEF MapsOK
<1>6. next_step > 8 /\ UENVS \notin ds => EnvsMapped'
  BY <1>1, <1>2 DEF MapsOK
<1> QED BY ONLY <1>3, <1>4, <1>5, <1>6

-----------------------------------------------------------------------------
(* boot_allocate_space for something that has a name.                      *)
LEMMA NamesAllocated ==
  ASSUME StepOK, NamesOK, NEW s, Do(s), NEW what, NEW n,
         blocks \subseteq blocks', \A b \in blocks' : b \in blocks \/ b.what = what,
         (\A b \in blocks : b.what # what) => Named(what, n)',
         \/ next_step = 1 /\ what = "directory" /\ n = 1
         \/ next_step = 4 /\ what = "frames_info" /\ n = PageUp(number_of_frames)
         \/ next_step = 5 /\ what = "disk_frames_info"
         \/ next_step = 7 /\ what = "envs" /\ n = PageUp(EnvsSize)
  PROVE  NamesOK' /\ (next_step > 4 => Where("frames_info")' = Where("frames_info"))
<1>1. next_step \in Nat /\ next_step' = next_step + 1 /\ number_of_frames' = number_of_frames
  BY StepDone DEF StepOK
<1>2. IF next_step' > 1 THEN Named("directory", 1)' ELSE \A b \in blocks' : b.what # "directory"
  <2>1. CASE next_step = 1
    BY <1>1, <2>1 DEF NamesOK
  <2>2. CASE next_step # 1
    BY <1>1, <2>2, NameKept DEF NamesOK
  <2> QED BY <2>1, <2>2
<1>3. IF next_step' > 4 THEN Named("frames_info", PageUp(number_of_frames))'
                        ELSE \A b \in blocks' : b.what # "frames_info"
  <2>1. CASE next_step = 4
    <3>1. Named("frames_info", n)' /\ n = PageUp(number_of_frames)'
      BY <1>1, <2>1 DEF NamesOK
    <3>2. Named("frames_info", PageUp(number_of_frames))'
      BY <3>1 DEF Named
    <3> QED BY <1>1, <2>1, <3>2
  <2>2. CASE next_step # 4
    BY <1>1, <2>2, NameKept DEF NamesOK
  <2> QED BY <2>1, <2>2
<1>4. next_step > 4 => Where("frames_info")' = Where("frames_info")
  <2> SUFFICES ASSUME next_step > 4 PROVE Where("frames_info")' = Where("frames_info")
    OBVIOUS
  <2>1. what # "frames_info" /\ Named("frames_info", PageUp(number_of_frames))
    BY <1>1 DEF NamesOK
  <2> QED BY <2>1, NamedKept
<1>5. IF next_step' > 7 THEN Named("envs", PageUp(EnvsSize))'
                        ELSE \A b \in blocks' : b.what # "envs"
  <2>1. CASE next_step = 7
    BY <1>1, <2>1 DEF NamesOK
  <2>2. CASE next_step # 7
    BY <1>1, <2>2, NameKept DEF NamesOK
  <2> QED BY <2>1, <2>2
<1>6. NamesOK'
  BY <1>1, <1>2, <1>3, <1>5 DEF NamesOK
<1> QED BY <1>4, <1>6

LEMMA AllocateStep ==
  ASSUME BootInv, NEW s, Do(s), NEW what, NEW a \in Nat, Allocate(what, a), PageUp(a) = Needed,
         UNCHANGED <<dir, pt, mode, failed>>,
         \/ next_step = 1 /\ what = "directory"
         \/ next_step = 4 /\ what = "frames_info" /\ a = number_of_frames
         \/ next_step = 5 /\ what = "disk_frames_info" /\ ~Lab
         \/ next_step = 7 /\ what = "envs" /\ a = EnvsSize
  PROVE  BootInv'
<1>0. StepOK /\ SpaceOK /\ DirOK /\ BlocksOK /\ NamesOK /\ MapsOK
  BY DEF BootInv
<1>1. /\ next_step \in Nat /\ next_step' = next_step + 1
      /\ Lab' = Lab /\ ImageEnd' = ImageEnd /\ tree' = tree
  BY <1>0, StepDone DEF StepOK
<1>2. /\ ptr_free_mem' \in Nat /\ FirstFree' = FirstFree + Needed
      /\ BlocksOK'
      /\ (\A b \in blocks : b.what # what) => Named(what, PageUp(a))'
      /\ blocks \subseteq blocks' /\ \A b \in blocks' : b \in blocks \/ b.what = what
  BY <1>0, <1>1, AllocateIs
<1>3. StepOK'
  BY <1>0, <1>1, <1>2, StepKept DEF StepOK
<1>4. SpaceOK'
  BY <1>0, <1>2, SpaceKept
<1>5. FirstFree \in Nat /\ Needed \in Nat
  BY <1>0, SpaceIs, NeededIs
<1>6. DirOK'
  BY <1>0, <1>2, <1>5, DirKept
<1>7. FreeListIsTheRest'
  BY <1>0, NotYetBooted
<1>8. \/ next_step = 1 /\ what = "directory" /\ PageUp(a) = 1
      \/ next_step = 4 /\ what = "frames_info" /\ PageUp(a) = PageUp(number_of_frames)
      \/ next_step = 5 /\ what = "disk_frames_info"
      \/ next_step = 7 /\ what = "envs" /\ PageUp(a) = PageUp(EnvsSize)
  BY DEF Needed
<1>11. NamesOK' /\ (next_step > 4 => Where("frames_info")' = Where("frames_info"))
  BY <1>0, <1>2, <1>8, NamesAllocated
<1>12. \A x \in Nat : check_va2pa(x)' = check_va2pa(x)
  BY DEF check_va2pa
<1>13. /\ next_step > 2 => StackMapped'
       /\ PhysicalMapped => KernelMapped(KernelPages)'
       /\ Lab /\ next_step > 5 => FramesMapped'
  <2> PICK ds : ds = {}
    OBVIOUS
  <2>1. PhysicalMapped /\ tree = "fos" => FirstFree' = FirstFree
    BY DEF PhysicalMapped, Lab
  <2>2. \A d \in Own : dir[d] # Absent => dir'[d] # Absent
    OBVIOUS
  <2>3. \A x \in Nat : x \div PT \in Own \ ds /\ dir[x \div PT] # Absent
                         => check_va2pa(x)' = check_va2pa(x)
    BY <1>12
  <2>4. next_step > 7 => Where("envs")' = Where("envs")
    BY <1>1
  <2>5. /\ next_step > 2 /\ STACK \notin ds => StackMapped'
        /\ PhysicalMapped /\ ds \cap Kernel = {} => KernelMapped(KernelPages)'
        /\ Lab /\ next_step > 5 /\ READ_ONLY_FRAMES_INFO \notin ds => FramesMapped'
    BY ONLY <1>0, Do(s), <1>11, <2>1, <2>2, <2>3, <2>4, MapsStay
  <2> QED BY <2>5
<1>14. MapsOK'
  <2>1. next_step' > 2 => next_step > 2
    BY <1>1
  <2>2. PhysicalMapped' => PhysicalMapped
    BY <1>1 DEF PhysicalMapped
  <2>3. (Lab' /\ next_step' > 5 => Lab /\ next_step > 5) /\ ~(next_step' > 8)
    BY <1>1
  <2>4. pt' \in [Frames -> [0 .. PT-1 -> Int]]
    BY <1>0 DEF MapsOK
  <2> QED BY ONLY <1>13, <2>1, <2>2, <2>3, <2>4 DEF MapsOK
<1> QED BY ONLY <1>2, <1>3, <1>4, <1>6, <1>7, <1>11, <1>14 DEF BootInv

-----------------------------------------------------------------------------
(* A step that only adds the tables ds and what they map.                  *)
LEMMA TablesStep ==
  ASSUME BootInv, NEW s, Do(s), NEW ds \in SUBSET Tables,
         ptr_free_mem' \in Nat, FirstFree' = FirstFree + Needed, Placed', BlocksOK',
         blocks \subseteq blocks', \A b \in blocks' : b \in blocks \/ b.what = "table",
         \A d \in Tables : dir'[d] # Absent <=> dir[d] # Absent \/ d \in ds,
         \A x \in Nat : x \div PT \in Own \ ds /\ dir[x \div PT] # Absent
                          => check_va2pa(x)' = check_va2pa(x),
         UNCHANGED <<mode, failed>>, next_step \notin {1, 4, 7}, next_step < 10,
         \A d \in Tables : Present(d)' <=> Present(d) \/ d \in ds
  PROVE  /\ StepOK' /\ SpaceOK' /\ DirOK' /\ BlocksOK' /\ NamesOK' /\ FreeListIsTheRest'
         /\ next_step > 2 /\ STACK \notin ds => StackMapped'
         /\ PhysicalMapped /\ ds \cap Kernel = {} => KernelMapped(KernelPages)'
         /\ Lab /\ next_step > 5 /\ READ_ONLY_FRAMES_INFO \notin ds => FramesMapped'
         /\ next_step > 8 /\ UENVS \notin ds => EnvsMapped'
         /\ next_step > 4 => Where("frames_info")' = Where("frames_info")
         /\ next_step > 7 => Where("envs")' = Where("envs")
<1>0. StepOK /\ SpaceOK /\ DirOK /\ BlocksOK /\ NamesOK /\ MapsOK
  BY DEF BootInv
<1>1. /\ next_step \in Nat /\ next_step' = next_step + 1
      /\ Lab' = Lab /\ ImageEnd' = ImageEnd /\ tree' = tree
  BY <1>0, StepDone DEF StepOK
<1>2. ~failed'
  BY <1>0 DEF StepOK
<1>3. next_step \notin IF Lab THEN {10, 11} ELSE {11, 12}
  BY <1>1
<1>4. StepOK'
  BY <1>0, <1>2, <1>3, StepKept
<1>5. SpaceOK'
  BY <1>0, SpaceKept
<1>6. mode' # "low"
  BY <1>0, <1>1 DEF StepOK
<1>7. DirOK'
  <2>1. \A d \in Tables : dir'[d] # Absent <=> Present(d)'
    BY <1>0 DEF DirOK
  <2> QED BY <1>6, <2>1 DEF DirOK
<1>8. FreeListIsTheRest'
  BY <1>0, <1>1, NotYetBooted
<1>9. \A b \in blocks' : b \in blocks \/ b.what \notin {"directory", "frames_info", "envs"}
  OBVIOUS
<1>10. /\ NamesOK'
       /\ next_step > 4 => Where("frames_info")' = Where("frames_info")
       /\ next_step > 7 => Where("envs")' = Where("envs")
  BY <1>0, <1>9, NamesKept
<1>11. \A d \in Own : dir[d] # Absent => dir'[d] # Absent
  BY DEF Own
<1>12. PhysicalMapped /\ tree = "fos" => FirstFree' = FirstFree
  BY <1>1 DEF PhysicalMapped, Lab
<1>13. /\ next_step > 2 /\ STACK \notin ds => StackMapped'
       /\ PhysicalMapped /\ ds \cap Kernel = {} => KernelMapped(KernelPages)'
       /\ Lab /\ next_step > 5 /\ READ_ONLY_FRAMES_INFO \notin ds => FramesMapped'
       /\ next_step > 8 /\ UENVS \notin ds => EnvsMapped'
  BY <1>0, <1>10, <1>11, <1>12, MapsStay
<1> QED BY ONLY BlocksOK', <1>4, <1>5, <1>7, <1>8, <1>10, <1>13

LEMMA MapStep ==
  ASSUME BootInv, NEW s, Do(s),
         NEW v \in Nat, NEW pages \in Nat, NEW pa \in Int, NEW ds \in SUBSET Own,
         ds = TablesOf(v, pages), NEW a \in Nat,
         Missing(ds) = a .. a + Needed - 1,
         boot_map_range(v, pages, pa),
         UNCHANGED <<mode, failed>>, next_step \notin {1, 4, 7}, next_step < 10,
         \A d \in Tables : Present(d)' <=> Present(d) \/ d \in ds
  PROVE  /\ StepOK' /\ SpaceOK' /\ DirOK' /\ BlocksOK' /\ NamesOK' /\ FreeListIsTheRest'
         /\ next_step > 2 /\ STACK \notin ds => StackMapped'
         /\ PhysicalMapped /\ ds \cap Kernel = {} => KernelMapped(KernelPages)'
         /\ Lab /\ next_step > 5 /\ READ_ONLY_FRAMES_INFO \notin ds => FramesMapped'
         /\ next_step > 8 /\ UENVS \notin ds => EnvsMapped'
         /\ next_step > 4 => Where("frames_info")' = Where("frames_info")
         /\ next_step > 7 => Where("envs")' = Where("envs")
         /\ pt' \in [Frames -> [0 .. PT-1 -> Int]]
         /\ Mapped(v, pages, pa)' /\ FirstFree' = FirstFree + Needed
<1>0. /\ StepOK /\ SpaceOK /\ DirOK /\ BlocksOK /\ NamesOK /\ MapsOK
      /\ Placed /\ ptr_free_mem \in Nat /\ pt \in [Frames -> [0 .. PT-1 -> Int]]
  BY DEF BootInv, DirOK, StepOK, MapsOK
<1>1. ImageEnd' = ImageEnd
  BY <1>0, StepDone
<1>2. ds = TablesOf(v, pages)
  OBVIOUS
<1>3. Needed \in Nat /\ FirstFree + Needed <= nf
  BY <1>0, NeededIs
<1>4. PICK n \in Nat : n = Needed
  BY <1>3
<1>5. /\ ptr_free_mem' \in Nat /\ FirstFree' = FirstFree + n
      /\ Placed' /\ BlocksOK'
      /\ blocks \subseteq blocks' /\ \A b \in blocks' : b \in blocks \/ b.what = "table"
      /\ \A d \in Tables : dir'[d] # Absent <=> dir[d] # Absent \/ d \in ds
      /\ pt' \in [Frames -> [0 .. PT-1 -> Int]]
      /\ Mapped(v, pages, pa)'
      /\ \A x \in Nat \ (v .. v + pages - 1) :
           x \div PT \in Own /\ dir[x \div PT] # Absent => check_va2pa(x)' = check_va2pa(x)
  <2>1. MapsRange(v, pages, pa, a, n)
    BY <1>2, <1>3, <1>4 DEF MapsRange
  <2> QED BY <1>0, <1>1, <1>2, <2>1, RangeMapped
<1>6. \A x \in Nat : x \div PT \in Own \ ds /\ dir[x \div PT] # Absent
                       => check_va2pa(x)' = check_va2pa(x)
  <2> SUFFICES ASSUME NEW x \in Nat, x \div PT \in Own \ ds, dir[x \div PT] # Absent
               PROVE  check_va2pa(x)' = check_va2pa(x)
    OBVIOUS
  <2>1. x \notin v .. v + pages - 1
    BY DEF TablesOf, Span
  <2> QED BY <1>5, <2>1
<1>7. FirstFree' = FirstFree + Needed
  BY <1>4, <1>5
<1>8. /\ StepOK' /\ SpaceOK' /\ DirOK' /\ BlocksOK' /\ NamesOK' /\ FreeListIsTheRest'
      /\ next_step > 2 /\ STACK \notin ds => StackMapped'
      /\ PhysicalMapped /\ ds \cap Kernel = {} => KernelMapped(KernelPages)'
      /\ Lab /\ next_step > 5 /\ READ_ONLY_FRAMES_INFO \notin ds => FramesMapped'
      /\ next_step > 8 /\ UENVS \notin ds => EnvsMapped'
      /\ next_step > 4 => Where("frames_info")' = Where("frames_info")
      /\ next_step > 7 => Where("envs")' = Where("envs")
  <2>1. ds \in SUBSET Tables
    BY DEF Own
  <2>3. UNCHANGED <<mode, failed>> /\ next_step \notin {1, 4, 7} /\ next_step < 10
        /\ \A d \in Tables : Present(d)' <=> Present(d) \/ d \in ds
    OBVIOUS
  <2> QED BY ONLY BootInv, Do(s), <1>5, <1>6, <1>7, <2>1, <2>3, TablesStep
<1> QED BY ONLY <1>5, <1>7, <1>8

-----------------------------------------------------------------------------
(* The steps that map.                                                     *)
LEMMA MapStackStep == BootInv /\ MapStack => BootInv'
<1> SUFFICES ASSUME BootInv, MapStack PROVE BootInv'
  OBVIOUS
<1>0. StepOK /\ SpaceOK /\ DirOK /\ BlocksOK /\ NamesOK /\ MapsOK
  BY DEF BootInv
<1>1. /\ Do("stack") /\ boot_map_range(StackBase, StackPages, ptr_stack_bottom)
      /\ UNCHANGED <<mode, failed>>
  BY DEF MapStack, StackBase
<1>2. next_step = 2 /\ next_step' = 3 /\ Lab' = Lab /\ ptr_stack_bottom' = ptr_stack_bottom
  BY <1>0, <1>1, PlaceOfStep, StepDone
<1>3. /\ StackBase \in Nat /\ StackPages \in Nat /\ TablesOf(StackBase, StackPages) = {STACK}
      /\ ptr_stack_bottom \in Int /\ STACK \in Nat /\ {STACK} \in SUBSET Own
  <2>1. /\ StackBase \in Nat /\ StackPages \in Nat /\ TablesOf(StackBase, StackPages) = {STACK}
    BY <1>0, StackRange
  <2>2. STACK \in Nat /\ STACK \in Own
    BY <1>0, TablesAre
  <2>3. ptr_stack_bottom \in Int
    BY <1>0, Sizes DEF ptr_stack_bottom, ImageEnd, StackPages
  <2> QED BY <2>1, <2>2, <2>3
<1>4. mode # "low" /\ mode' # "low"
  BY <1>0, <1>1, <1>2 DEF StepOK
<1>5. Missing({STACK}) = STACK .. STACK + Needed - 1
  <2>1. dir[STACK] = Absent
    BY <1>0, <1>2, <1>3, <1>4, TablesAre DEF DirOK, Present, Own
  <2>2. Needed = 1
    BY <1>2 DEF Needed
  <2> QED BY <1>3, <2>1, <2>2 DEF Missing
<1>6. \A d \in Tables : Present(d)' <=> Present(d) \/ d \in {STACK}
  BY <1>2, <1>4 DEF Present
<1>7. PICK pa \in Int : pa = ptr_stack_bottom
  BY <1>3
<1>8. /\ StepOK' /\ SpaceOK' /\ DirOK' /\ BlocksOK' /\ NamesOK' /\ FreeListIsTheRest'
      /\ pt' \in [Frames -> [0 .. PT-1 -> Int]]
      /\ Mapped(StackBase, StackPages, pa)'
  <2>1. PICK ds \in SUBSET Own : ds = {STACK}
    BY <1>3
  <2>2. ds = TablesOf(StackBase, StackPages) /\ Missing(ds) = STACK .. STACK + Needed - 1
    BY <1>3, <1>5, <2>1
  <2>3. boot_map_range(StackBase, StackPages, pa)
    BY <1>1, <1>7
  <2>4. \A d \in Tables : Present(d)' <=> Present(d) \/ d \in ds
    BY <1>6, <2>1
  <2>5. next_step \notin {1, 4, 7} /\ next_step < 10 /\ STACK \in Nat /\ UNCHANGED <<mode, failed>>
    BY <1>1, <1>2, <1>3
  <2> QED BY ONLY BootInv, <1>1, <1>3, <1>7, <2>1, <2>2, <2>3, <2>4, <2>5, MapStep
<1>9. StackMapped'
  <2>1. pa = ptr_stack_bottom'
    BY <1>2, <1>7
  <2> QED BY <1>8, <2>1 DEF StackMapped, Mapped, StackBase
<1>10. MapsOK'
  BY <1>2, <1>8, <1>9 DEF MapsOK, PhysicalMapped
<1> QED BY <1>8, <1>10 DEF BootInv

LEMMA MapFramesStep == BootInv /\ MapFramesInfo => BootInv'
<1> SUFFICES ASSUME BootInv, MapFramesInfo PROVE BootInv'
  OBVIOUS
<1>0. StepOK /\ SpaceOK /\ DirOK /\ BlocksOK /\ NamesOK /\ MapsOK
  BY DEF BootInv
<1> DEFINE t == READ_ONLY_FRAMES_INFO
<1>1. PICK n : n = PageUp(number_of_frames)
  OBVIOUS
<1>2. PICK pa : pa = Where("frames_info")
  OBVIOUS
<1>3. /\ Do("view_frames") /\ boot_map_range(t * PT, n, pa)
      /\ UNCHANGED <<mode, failed>>
  BY <1>1, <1>2 DEF MapFramesInfo
<1>4. /\ next_step = 5 /\ next_step' = 6 /\ Lab /\ Lab' /\ tree' = tree
      /\ number_of_frames' = number_of_frames
  <2>1. next_step = 5 /\ Lab
    BY <1>0, <1>3, PlaceOfStep
  <2>2. /\ next_step' = next_step + 1 /\ Lab' = Lab /\ tree' = tree
        /\ number_of_frames' = number_of_frames
    BY <1>0, <1>3, StepDone
  <2> QED BY ONLY <2>1, <2>2
<1>5. n \in 1 .. PT /\ n \in Nat /\ pa \in Int
  <2>1. Named("frames_info", n)
    BY <1>0, <1>1, <1>4 DEF NamesOK
  <2>2. Where("frames_info") \in Nat
    BY <1>0, <2>1, WhereIs
  <2> QED BY <1>0, <1>1, <1>2, <2>2, Sizes DEF nf
<1>6. t \in Nat /\ {t} \in SUBSET Own /\ t \in Tables /\ t # STACK /\ {t} \cap Kernel = {} /\ t # 0
      /\ t \notin {VPT, UVPT, UENVS}
  BY <1>0, TablesAre
<1>7. t * PT \in Nat /\ TablesOf(t * PT, n) = {t}
  BY <1>0, <1>5, <1>6, ViewRange
<1>8. mode # "low" /\ mode' # "low"
  BY <1>0, <1>3, <1>4 DEF StepOK
<1>9. Missing({t}) = t .. t + Needed - 1
  <2>1. dir[t] = Absent
    BY <1>0, <1>4, <1>6, <1>8 DEF DirOK, Present
  <2>2. Needed = 1
    BY <1>4 DEF Needed
  <2> QED BY <1>6, <2>1, <2>2 DEF Missing
<1>10. \A d \in Tables : Present(d)' <=> Present(d) \/ d \in {t}
  BY <1>4, <1>8 DEF Present
<1> HIDE DEF t
<1>11. /\ StepOK' /\ SpaceOK' /\ DirOK' /\ BlocksOK' /\ NamesOK' /\ FreeListIsTheRest'
       /\ next_step > 2 /\ STACK \notin {t} => StackMapped'
       /\ PhysicalMapped /\ {t} \cap Kernel = {} => KernelMapped(KernelPages)'
       /\ next_step > 4 => Where("frames_info")' = Where("frames_info")
       /\ pt' \in [Frames -> [0 .. PT-1 -> Int]]
       /\ Mapped(t * PT, n, pa)'
  <2>1. PICK ds \in SUBSET Own : ds = {t}
    BY <1>6
  <2>2. ds = TablesOf(t * PT, n) /\ Missing(ds) = t .. t + Needed - 1
    BY <1>7, <1>9, <2>1
  <2>3. boot_map_range(t * PT, n, pa) /\ t * PT \in Nat /\ n \in Nat /\ pa \in Int /\ t \in Nat
    BY <1>3, <1>5, <1>6, <1>7
  <2>4. \A d \in Tables : Present(d)' <=> Present(d) \/ d \in ds
    BY <1>10, <2>1
  <2>5. next_step \notin {1, 4, 7} /\ next_step < 10 /\ UNCHANGED <<mode, failed>>
    BY <1>3, <1>4
  <2>6. /\ StepOK' /\ SpaceOK' /\ DirOK' /\ BlocksOK' /\ NamesOK' /\ FreeListIsTheRest'
        /\ next_step > 2 /\ STACK \notin ds => StackMapped'
        /\ PhysicalMapped /\ ds \cap Kernel = {} => KernelMapped(KernelPages)'
        /\ next_step > 4 => Where("frames_info")' = Where("frames_info")
        /\ pt' \in [Frames -> [0 .. PT-1 -> Int]]
        /\ Mapped(t * PT, n, pa)'
    BY ONLY BootInv, <1>3, <2>1, <2>2, <2>3, <2>4, <2>5, MapStep
  <2> QED BY ONLY <2>1, <2>6
<1>12. FramesMapped'
  <2>1. pa = Where("frames_info")' /\ n = PageUp(number_of_frames)'
    BY <1>1, <1>2, <1>4, <1>11
  <2> QED BY <1>11, <2>1 DEF FramesMapped, Mapped, t
<1>13. MapsOK'
  BY <1>4, <1>6, <1>11, <1>12 DEF MapsOK, PhysicalMapped
<1> QED BY <1>11, <1>13 DEF BootInv

LEMMA MapEnvsStep == BootInv /\ MapEnvs => BootInv'
<1> SUFFICES ASSUME BootInv, MapEnvs PROVE BootInv'
  OBVIOUS
<1>0. StepOK /\ SpaceOK /\ DirOK /\ BlocksOK /\ NamesOK /\ MapsOK
  BY DEF BootInv
<1> DEFINE t == UENVS
<1>1. PICK n : n = PageUp(EnvsSize)
  OBVIOUS
<1>2. PICK pa : pa = Where("envs")
  OBVIOUS
<1>3. /\ Do("view_envs") /\ boot_map_range(t * PT, n, pa)
      /\ UNCHANGED <<mode, failed>>
  BY <1>1, <1>2 DEF MapEnvs
<1>4. next_step = 8 /\ next_step' = 9 /\ Lab' = Lab /\ tree' = tree
  BY <1>0, <1>3, PlaceOfStep, StepDone
<1>5. n \in 1 .. PT /\ n \in Nat /\ pa \in Int
  <2>1. Named("envs", n)
    BY <1>0, <1>1, <1>4 DEF NamesOK
  <2>2. Where("envs") \in Nat
    BY <1>0, <2>1, WhereIs
  <2> QED BY <1>0, <1>1, <1>2, <2>2, Sizes
<1>6. t \in Nat /\ {t} \in SUBSET Own /\ t \in Tables /\ t # STACK /\ {t} \cap Kernel = {} /\ t # 0
      /\ t \notin {VPT, UVPT, READ_ONLY_FRAMES_INFO}
  BY <1>0, TablesAre
<1>7. t * PT \in Nat /\ TablesOf(t * PT, n) = {t}
  BY <1>0, <1>5, <1>6, ViewRange
<1>8. mode # "low" /\ mode' # "low"
  BY <1>0, <1>3, <1>4 DEF StepOK
<1>9. Missing({t}) = t .. t + Needed - 1
  <2>1. dir[t] = Absent
    BY <1>0, <1>4, <1>6, <1>8 DEF DirOK, Present
  <2>2. Needed = 1
    BY <1>4 DEF Needed
  <2> QED BY <1>6, <2>1, <2>2 DEF Missing
<1>10. \A d \in Tables : Present(d)' <=> Present(d) \/ d \in {t}
  BY <1>4, <1>8 DEF Present
<1> HIDE DEF t
<1>11. /\ StepOK' /\ SpaceOK' /\ DirOK' /\ BlocksOK' /\ NamesOK' /\ FreeListIsTheRest'
       /\ next_step > 2 /\ STACK \notin {t} => StackMapped'
       /\ PhysicalMapped /\ {t} \cap Kernel = {} => KernelMapped(KernelPages)'
       /\ Lab /\ next_step > 5 /\ READ_ONLY_FRAMES_INFO \notin {t} => FramesMapped'
       /\ next_step > 7 => Where("envs")' = Where("envs")
       /\ pt' \in [Frames -> [0 .. PT-1 -> Int]]
       /\ Mapped(t * PT, n, pa)'
  <2>1. PICK ds \in SUBSET Own : ds = {t}
    BY <1>6
  <2>2. ds = TablesOf(t * PT, n) /\ Missing(ds) = t .. t + Needed - 1
    BY <1>7, <1>9, <2>1
  <2>3. boot_map_range(t * PT, n, pa) /\ t * PT \in Nat /\ n \in Nat /\ pa \in Int /\ t \in Nat
    BY <1>3, <1>5, <1>6, <1>7
  <2>4. \A d \in Tables : Present(d)' <=> Present(d) \/ d \in ds
    BY <1>10, <2>1
  <2>5. next_step \notin {1, 4, 7} /\ next_step < 10 /\ UNCHANGED <<mode, failed>>
    BY <1>3, <1>4
  <2>6. /\ StepOK' /\ SpaceOK' /\ DirOK' /\ BlocksOK' /\ NamesOK' /\ FreeListIsTheRest'
        /\ next_step > 2 /\ STACK \notin ds => StackMapped'
        /\ PhysicalMapped /\ ds \cap Kernel = {} => KernelMapped(KernelPages)'
        /\ Lab /\ next_step > 5 /\ READ_ONLY_FRAMES_INFO \notin ds => FramesMapped'
        /\ next_step > 7 => Where("envs")' = Where("envs")
        /\ pt' \in [Frames -> [0 .. PT-1 -> Int]]
        /\ Mapped(t * PT, n, pa)'
    BY ONLY BootInv, <1>3, <2>1, <2>2, <2>3, <2>4, <2>5, MapStep
  <2> QED BY ONLY <2>1, <2>6
<1>12. EnvsMapped'
  <2>1. pa = Where("envs")'
    BY <1>2, <1>4, <1>11
  <2> QED BY <1>1, <1>11, <2>1 DEF EnvsMapped, Mapped, t
<1>13. MapsOK'
  <2>1. PhysicalMapped' => PhysicalMapped
    BY <1>4 DEF PhysicalMapped
  <2> QED BY <1>4, <1>6, <1>11, <1>12, <2>1 DEF MapsOK
<1> QED BY <1>11, <1>13 DEF BootInv

LEMMA KernelTablesStep == BootInv /\ CreateKernelTables => BootInv'
<1> SUFFICES ASSUME BootInv, CreateKernelTables PROVE BootInv'
  OBVIOUS
<1>0. /\ StepOK /\ SpaceOK /\ DirOK /\ BlocksOK /\ NamesOK /\ MapsOK
      /\ Placed /\ ptr_free_mem \in Nat
  BY DEF BootInv, DirOK, StepOK
<1>1. Do("tables") /\ boot_get_page_tables(Kernel) /\ UNCHANGED <<pt, mode, failed>>
  BY DEF CreateKernelTables
<1>2. ~Lab /\ next_step = 3
  BY <1>0, <1>1, PlaceOfStep
<1>3. next_step' = next_step + 1 /\ Lab' = Lab /\ tree' = tree /\ ImageEnd' = ImageEnd
  BY <1>0, <1>1, StepDone
<1>4. mode # "low" /\ mode' # "low"
  BY <1>0, <1>1, <1>2 DEF StepOK
<1>5. PICK ds \in SUBSET Own : ds = Kernel
  BY <1>0, TablesAre
<1>6. KERNEL_BASE \in Nat /\ STACK \notin ds
  BY <1>0, <1>5, TablesAre
<1>7. Needed \in Nat /\ FirstFree + Needed <= nf /\ Needed = KernelTables
  BY <1>0, <1>2, NeededIs DEF Needed
<1>8. PICK n \in Nat : n = Needed
  BY <1>7
<1>9. Missing(ds) = KERNEL_BASE .. KERNEL_BASE + n - 1
  <2>1. \A d \in Kernel : dir[d] = Absent
    BY <1>0, <1>2, <1>4, TablesAre DEF DirOK, Present, Own
  <2> QED BY <1>5, <1>7, <1>8, <2>1 DEF Missing, Kernel
<1>10. /\ ptr_free_mem' \in Nat /\ FirstFree' = FirstFree + n
       /\ Placed' /\ BlocksOK'
       /\ blocks \subseteq blocks' /\ \A b \in blocks' : b \in blocks \/ b.what = "table"
       /\ \A d \in Tables : dir'[d] # Absent <=> dir[d] # Absent \/ d \in ds
       /\ \A d \in Tables : dir[d] # Absent \/ d \notin ds => dir'[d] = dir[d]
  <2>1. boot_get_page_tables(ds) /\ FirstFree + n <= nf
    BY <1>1, <1>5, <1>7, <1>8
  <2> QED BY ONLY <1>0, <1>3, <1>5, <1>6, <1>8, <1>9, <2>1, TablesCreated
<1>11. \A x \in Nat : x \div PT \in Own \ ds /\ dir[x \div PT] # Absent
                        => check_va2pa(x)' = check_va2pa(x)
  BY <1>1, <1>10 DEF check_va2pa, Own
<1>12. \A d \in Tables : Present(d)' <=> Present(d) \/ d \in ds
  BY <1>2, <1>3, <1>4, <1>5 DEF Present
<1>13. FirstFree' = FirstFree + Needed /\ UNCHANGED <<mode, failed>>
       /\ next_step \notin {1, 4, 7} /\ next_step < 10
  BY <1>1, <1>2, <1>8, <1>10
<1>14. /\ StepOK' /\ SpaceOK' /\ DirOK' /\ BlocksOK' /\ NamesOK' /\ FreeListIsTheRest'
       /\ next_step > 2 /\ STACK \notin ds => StackMapped'
  <2>1. ds \in SUBSET Tables
    BY <1>5 DEF Own
  <2> QED BY ONLY BootInv, <1>1, <1>5, <1>10, <1>11, <1>12, <1>13, <2>1, TablesStep
<1>15. MapsOK'
  <2>1. pt' \in [Frames -> [0 .. PT-1 -> Int]]
    BY <1>0, <1>1 DEF MapsOK
  <2>2. next_step' = 4 /\ ~PhysicalMapped'
    BY <1>2, <1>3 DEF PhysicalMapped
  <2> QED BY <1>2, <1>6, <1>14, <2>1, <2>2 DEF MapsOK
<1> QED BY <1>14, <1>15 DEF BootInv

LEMMA MapPhysicalStep == BootInv /\ MapPhysicalMemory => BootInv'
<1> SUFFICES ASSUME BootInv, MapPhysicalMemory PROVE BootInv'
  OBVIOUS
<1>0. StepOK /\ SpaceOK /\ DirOK /\ BlocksOK /\ NamesOK /\ MapsOK
  BY DEF BootInv
<1> DEFINE v == KERNEL_BASE * PT
<1>1. PICK n : n = KernelPages
  OBVIOUS
<1>2. Do("physical") /\ boot_map_range(v, n, 0) /\ UNCHANGED <<mode, failed>>
  BY <1>1 DEF MapPhysicalMemory, KernelPages, FirstFree
<1>3. next_step = IF Lab THEN 3 ELSE 9
  BY <1>0, <1>2, PlaceOfStep
<1>4. next_step' = next_step + 1 /\ Lab' = Lab /\ tree' = tree
  BY <1>0, <1>2, StepDone
<1>5. n \in Nat /\ n <= KernelTables * PT /\ (Lab => n = KernelTables * PT)
  BY <1>0, <1>1, Sizes, SpaceIs DEF KernelPages, Lab
<1>6. /\ v \in Nat /\ TablesOf(v, n) \subseteq Kernel
      /\ n = KernelTables * PT => TablesOf(v, n) = Kernel
  BY <1>0, <1>5, KernelRange
<1>7. /\ Kernel \subseteq Own /\ Own \subseteq Tables /\ KERNEL_BASE \in Nat
      /\ STACK \notin Kernel /\ UENVS \notin Kernel /\ READ_ONLY_FRAMES_INFO \notin Kernel
  BY <1>0, TablesAre
<1>8. PICK ds \in SUBSET Own : ds = TablesOf(v, n)
  BY <1>6, <1>7
<1>9. ds \subseteq Kernel /\ (Lab => ds = Kernel)
  BY <1>5, <1>6, <1>8
<1>10. mode # "low" /\ mode' # "low"
  BY <1>0, <1>2, <1>3 DEF StepOK
<1>11. Needed = IF Lab THEN KernelTables ELSE 0
  BY <1>3 DEF Needed
<1>12. Missing(ds) = KERNEL_BASE .. KERNEL_BASE + Needed - 1
  <2>1. CASE Lab
    <3>1. \A d \in Kernel : dir[d] = Absent
      BY <1>0, <1>3, <1>7, <1>10, <2>1, TablesAre DEF DirOK, Present, Own
    <3> QED BY <1>9, <1>11, <2>1, <3>1 DEF Missing, Kernel
  <2>2. CASE ~Lab
    <3>1. \A d \in Kernel : dir[d] # Absent
      BY <1>0, <1>3, <1>7, <2>2 DEF DirOK, Present
    <3> QED BY <1>7, <1>9, <1>11, <2>2, <3>1 DEF Missing
  <2> QED BY <2>1, <2>2
<1>13. \A d \in Tables : Present(d)' <=> Present(d) \/ d \in ds
  BY <1>3, <1>4, <1>9, <1>10 DEF Present
<1>14. next_step \notin {1, 4, 7} /\ next_step < 10 /\ 0 \in Int
  BY <1>3
<1> HIDE DEF v
<1>15. /\ StepOK' /\ SpaceOK' /\ DirOK' /\ BlocksOK' /\ NamesOK' /\ FreeListIsTheRest'
       /\ next_step > 2 /\ STACK \notin ds => StackMapped'
       /\ Lab /\ next_step > 5 /\ READ_ONLY_FRAMES_INFO \notin ds => FramesMapped'
       /\ next_step > 8 /\ UENVS \notin ds => EnvsMapped'
       /\ pt' \in [Frames -> [0 .. PT-1 -> Int]]
       /\ Mapped(v, n, 0)' /\ FirstFree' = FirstFree + Needed
  BY ONLY BootInv, <1>2, <1>5, <1>6, <1>7, <1>8, <1>12, <1>13, <1>14, MapStep
<1>16. KernelMapped(KernelPages)'
  <2>1. tree = "fos" => FirstFree' = FirstFree
    BY <1>0, <1>11, <1>15, SpaceIs DEF Lab
  <2>2. n = KernelPages'
    BY <1>1, <1>4, <2>1 DEF KernelPages
  <2>3. KernelMapped(n)'
    BY <1>15 DEF KernelMapped, v
  <2> QED BY <2>2, <2>3, KernelStays
<1>17. MapsOK'
  BY <1>3, <1>4, <1>7, <1>9, <1>15, <1>16 DEF MapsOK
<1> QED BY <1>15, <1>17 DEF BootInv

-----------------------------------------------------------------------------
(* The steps that allocate.                                                *)
LEMMA AllocationSteps ==
  BootInv /\ (AllocateDirectory \/ AllocateFramesInfo \/ AllocateDiskFramesInfo \/ AllocateEnvs)
    => BootInv'
<1> SUFFICES ASSUME BootInv,
                    AllocateDirectory \/ AllocateFramesInfo \/ AllocateDiskFramesInfo \/ AllocateEnvs
             PROVE  BootInv'
  OBVIOUS
<1>0. StepOK
  BY DEF BootInv
<1>1. CASE AllocateDirectory
  <2>1. Do("directory") /\ Allocate("directory", PAGE) /\ UNCHANGED <<dir, pt, mode, failed>>
    BY <1>1 DEF AllocateDirectory
  <2>2. next_step = 1
    BY <1>0, <2>1, PlaceOfStep
  <2>3. PAGE \in Nat /\ PageUp(1 * PAGE) = 1 /\ 1 * PAGE = PAGE
    BY BootAssumption, PageUpWhole
  <2>4. PageUp(PAGE) = Needed
    BY <2>2, <2>3 DEF Needed
  <2> QED BY <2>1, <2>2, <2>3, <2>4, AllocateStep
<1>2. CASE AllocateFramesInfo
  <2>1. /\ Do("frames_info") /\ Allocate("frames_info", number_of_frames)
        /\ UNCHANGED <<dir, pt, mode, failed>>
    BY <1>2 DEF AllocateFramesInfo
  <2>2. next_step = 4
    BY <1>0, <2>1, PlaceOfStep
  <2>3. PICK a : a = number_of_frames
    OBVIOUS
  <2>4. a \in Nat /\ PageUp(a) = Needed
    BY <1>0, <2>2, <2>3, Sizes DEF Needed, nf
  <2>5. Allocate("frames_info", a)
    BY <2>1, <2>3
  <2> QED BY <2>1, <2>2, <2>3, <2>4, <2>5, AllocateStep
<1>3. CASE AllocateDiskFramesInfo
  <2>1. Do("disk") /\ Allocate("disk_frames_info", DiskSize) /\ UNCHANGED <<dir, pt, mode, failed>>
    BY <1>3 DEF AllocateDiskFramesInfo
  <2>2. next_step = 5 /\ ~Lab
    BY <1>0, <2>1, PlaceOfStep
  <2>3. DiskSize \in Nat /\ PageUp(DiskSize) = Needed
    BY <1>0, <2>2, Sizes DEF Needed
  <2> QED BY <2>1, <2>2, <2>3, AllocateStep
<1>4. CASE AllocateEnvs
  <2>1. Do("envs") /\ Allocate("envs", EnvsSize) /\ UNCHANGED <<dir, pt, mode, failed>>
    BY <1>4 DEF AllocateEnvs
  <2>2. next_step = 7
    BY <1>0, <2>1, PlaceOfStep
  <2>3. EnvsSize \in Nat /\ PageUp(EnvsSize) = Needed
    BY <1>0, <2>2, Sizes DEF Needed
  <2> QED BY <2>1, <2>2, <2>3, AllocateStep
<1> QED BY <1>1, <1>2, <1>3, <1>4

(* The listing maps the directory as a table, twice.                       *)
LEMMA ListingStep == BootInv /\ setup_listing_to_all_page_tables_entries => BootInv'
<1> SUFFICES ASSUME BootInv, setup_listing_to_all_page_tables_entries PROVE BootInv'
  OBVIOUS
<1>0. StepOK /\ SpaceOK /\ DirOK /\ BlocksOK /\ NamesOK /\ MapsOK /\ Placed
  BY DEF BootInv, DirOK
<1>1. /\ Do("listing") /\ UNCHANGED <<ptr_free_mem, blocks, pt, mode, failed>>
      /\ dir' = [dir EXCEPT ![VPT] = Where("directory"), ![UVPT] = Where("directory")]
  BY DEF setup_listing_to_all_page_tables_entries
<1>2. next_step = 6
  BY <1>0, <1>1, PlaceOfStep
<1>3. next_step' = next_step + 1 /\ Lab' = Lab /\ tree' = tree /\ ImageEnd' = ImageEnd
  BY <1>0, <1>1, StepDone
<1>4. Where("directory") \in Frames /\ Where("directory") # Absent
  <2>1. Where("directory") \in Nat /\ Where("directory") + 1 <= FirstFree
    BY <1>0, <1>2, WhereIs DEF NamesOK
  <2>2. Where("directory") \in 0 .. nf-1
    BY <1>0, <2>1, SpaceIs
  <2> QED BY <1>0, <2>2, FramesAre
<1>5. /\ VPT \in Tables /\ UVPT \in Tables /\ VPT \notin Own /\ UVPT \notin Own /\ VPT # UVPT
      /\ STACK \in Own /\ Kernel \subseteq Own /\ READ_ONLY_FRAMES_INFO \in Own /\ Own \subseteq Tables
  BY <1>0, TablesAre
<1>6. PICK ds \in SUBSET Tables : ds = {VPT, UVPT}
  BY <1>5
<1>7. /\ \A d \in Tables \ ds : dir'[d] = dir[d]
      /\ \A d \in ds : dir'[d] = Where("directory")
      /\ dir' \in [Tables -> Frames \cup {Absent}]
  BY <1>0, <1>1, <1>4, <1>5, <1>6 DEF Placed
<1>8. \A d \in Own : d \in Tables \ ds
  BY <1>5, <1>6
<1>9. Needed = 0 /\ FirstFree \in Nat /\ FirstFree' = FirstFree
  BY <1>0, <1>1, <1>2, SpaceIs DEF Needed, FirstFree
<1>10. Placed'
  BY <1>0, <1>3, <1>7, <1>8, <1>9 DEF Placed, Own
<1>11. BlocksOK'
  BY <1>0, <1>1, <1>3, <1>9 DEF BlocksOK, BlockPages
<1>12. \A d \in Tables : dir'[d] # Absent <=> dir[d] # Absent \/ d \in ds
  BY <1>4, <1>7
<1>13. \A x \in Nat : x \div PT \in Own \ ds /\ dir[x \div PT] # Absent
                        => check_va2pa(x)' = check_va2pa(x)
  BY <1>1, <1>7, <1>8 DEF check_va2pa
<1>14. \A d \in Tables : Present(d)' <=> Present(d) \/ d \in ds
  BY <1>1, <1>2, <1>3, <1>6 DEF Present
<1>15. /\ FirstFree' = FirstFree + Needed /\ ptr_free_mem' \in Nat
       /\ blocks \subseteq blocks' /\ \A b \in blocks' : b \in blocks \/ b.what = "table"
       /\ next_step \notin {1, 4, 7} /\ next_step < 10 /\ UNCHANGED <<mode, failed>>
  BY <1>0, <1>1, <1>2, <1>9 DEF StepOK
<1>16. /\ StepOK' /\ SpaceOK' /\ DirOK' /\ BlocksOK' /\ NamesOK' /\ FreeListIsTheRest'
       /\ next_step > 2 /\ STACK \notin ds => StackMapped'
       /\ PhysicalMapped /\ ds \cap Kernel = {} => KernelMapped(KernelPages)'
       /\ Lab /\ next_step > 5 /\ READ_ONLY_FRAMES_INFO \notin ds => FramesMapped'
  BY ONLY BootInv, <1>1, <1>10, <1>11, <1>12, <1>13, <1>14, <1>15, TablesStep
<1>17. MapsOK'
  <2>1. STACK \notin ds /\ ds \cap Kernel = {} /\ READ_ONLY_FRAMES_INFO \notin ds
    BY <1>5, <1>6
  <2>2. PhysicalMapped' => PhysicalMapped
    BY <1>2, <1>3 DEF PhysicalMapped
  <2>3. pt' \in [Frames -> [0 .. PT-1 -> Int]]
    BY <1>0, <1>1 DEF MapsOK
  <2> QED BY <1>2, <1>3, <1>16, <2>1, <2>2, <2>3 DEF MapsOK
<1> QED BY <1>16, <1>17 DEF BootInv

-----------------------------------------------------------------------------
(* The steps after the last mapping take nothing and map nothing.          *)
LEMMA LateStep ==
  ASSUME BootInv, NEW s, Do(s), UNCHANGED <<ptr_free_mem, blocks, pt>>,
         \A d \in Own : dir'[d] = dir[d], next_step > IF Lab THEN 8 ELSE 9
  PROVE  /\ SpaceOK' /\ BlocksOK' /\ NamesOK' /\ MapsOK' /\ FirstFree' = FirstFree
         /\ FirstFree \in Nat
<1>0. StepOK /\ SpaceOK /\ DirOK /\ BlocksOK /\ NamesOK /\ MapsOK
  BY DEF BootInv
<1>1. /\ next_step \in Nat /\ next_step' = next_step + 1
      /\ Lab' = Lab /\ tree' = tree /\ ImageEnd' = ImageEnd
  BY <1>0, StepDone DEF StepOK
<1>2. FirstFree' = FirstFree /\ FirstFree \in Nat /\ Needed = 0
  BY <1>0, <1>1, SpaceIs DEF FirstFree, Needed
<1>3. SpaceOK'
  <2>1. FirstFree' = FirstFree + Needed
    BY <1>2
  <2> QED BY <1>0, <2>1, SpaceKept
<1>4. BlocksOK'
  BY <1>0, <1>1, <1>2 DEF BlocksOK, BlockPages
<1>5. /\ NamesOK'
      /\ next_step > 4 => Where("frames_info")' = Where("frames_info")
      /\ next_step > 7 => Where("envs")' = Where("envs")
  <2>1. next_step \notin {1, 4, 7}
    BY <1>1
  <2> QED BY <1>0, <2>1, NamesKept
<1>6. PICK ds : ds = {}
  OBVIOUS
<1>7. /\ \A d \in Own : dir[d] # Absent => dir'[d] # Absent
      /\ \A x \in Nat : x \div PT \in Own \ ds /\ dir[x \div PT] # Absent
                          => check_va2pa(x)' = check_va2pa(x)
      /\ PhysicalMapped /\ tree = "fos" => FirstFree' = FirstFree
  BY <1>2 DEF check_va2pa
<1>8. /\ next_step > 2 /\ STACK \notin ds => StackMapped'
      /\ PhysicalMapped /\ ds \cap Kernel = {} => KernelMapped(KernelPages)'
      /\ Lab /\ next_step > 5 /\ READ_ONLY_FRAMES_INFO \notin ds => FramesMapped'
      /\ next_step > 8 /\ UENVS \notin ds => EnvsMapped'
  BY ONLY <1>0, <1>5, <1>7, Do(s), MapsStay
<1>9. PhysicalMapped /\ next_step > 8
  BY <1>1 DEF PhysicalMapped
<1>10. pt' \in [Frames -> [0 .. PT-1 -> Int]]
  BY <1>0 DEF MapsOK
<1>11. MapsOK'
  BY <1>1, <1>6, <1>8, <1>9, <1>10 DEF MapsOK
<1> QED BY <1>2, <1>3, <1>4, <1>5, <1>11

(* What is found at the linear pages of the mappings.                      *)
LEMMA MappedAt ==
  ASSUME NEW v \in Nat, NEW n \in Nat, NEW pa \in Int, Mapped(v, n, pa), NEW i \in 0 .. n-1
  PROVE  check_va2pa(v + i) = pa + i
<1>1. v + i \in v .. v + n - 1 /\ pa + (v + i) - v = pa + i
  OBVIOUS
<1> QED BY <1>1 DEF Mapped

LEMMA ViewsAre ==
  ASSUME BootInv, next_step > 8
  PROVE  /\ Size("envs") = PageUp(EnvsSize)
         /\ \A i \in 0 .. PageUp(EnvsSize) - 1 : check_va2pa(UENVS * PT + i) = Where("envs") + i
         /\ Lab => /\ Size("frames_info") = PageUp(number_of_frames)
                   /\ \A i \in 0 .. PageUp(number_of_frames) - 1 :
                        check_va2pa(READ_ONLY_FRAMES_INFO * PT + i) = Where("frames_info") + i
<1>0. StepOK /\ SpaceOK /\ DirOK /\ BlocksOK /\ NamesOK /\ MapsOK /\ next_step \in Nat
  BY DEF BootInv, StepOK
<1>1. /\ PageUp(EnvsSize) \in Nat /\ PageUp(number_of_frames) \in Nat
      /\ UENVS * PT \in Nat /\ READ_ONLY_FRAMES_INFO * PT \in Nat
  BY <1>0, Sizes DEF nf, UENVS, READ_ONLY_FRAMES_INFO
<1>2. Named("envs", PageUp(EnvsSize)) /\ Named("frames_info", PageUp(number_of_frames))
  BY <1>0 DEF NamesOK
<1>3. Size("envs") = PageUp(EnvsSize) /\ Where("envs") \in Int
  BY <1>0, <1>2, WhereIs
<1>4. Size("frames_info") = PageUp(number_of_frames) /\ Where("frames_info") \in Int
  BY <1>0, <1>2, WhereIs
<1>5. ASSUME NEW i \in 0 .. PageUp(EnvsSize) - 1
      PROVE  check_va2pa(UENVS * PT + i) = Where("envs") + i
  <2>1. Mapped(UENVS * PT, PageUp(EnvsSize), Where("envs"))
    BY <1>0 DEF MapsOK, EnvsMapped
  <2> QED BY <1>1, <1>3, <2>1, MappedAt
<1>6. ASSUME Lab, NEW i \in 0 .. PageUp(number_of_frames) - 1
      PROVE  check_va2pa(READ_ONLY_FRAMES_INFO * PT + i) = Where("frames_info") + i
  <2>1. Mapped(READ_ONLY_FRAMES_INFO * PT, PageUp(number_of_frames), Where("frames_info"))
    BY <1>0, <1>6 DEF MapsOK, FramesMapped
  <2> QED BY <1>1, <1>4, <2>1, MappedAt
<1> QED BY <1>3, <1>4, <1>5, <1>6

LEMMA KernelAt ==
  ASSUME BootInv, PhysicalMapped, NEW i \in Nat, i < KernelPages
  PROVE  check_va2pa(KERNEL_BASE * PT + i) = i
<1>0. StepOK /\ SpaceOK /\ MapsOK
  BY DEF BootInv
<1>1. KernelPages \in Nat /\ KERNEL_BASE * PT \in Nat
  BY <1>0, Sizes, SpaceIs DEF KernelPages, KERNEL_BASE
<1>2. Mapped(KERNEL_BASE * PT, KernelPages, 0)
  BY <1>0 DEF MapsOK, KernelMapped
<1>3. check_va2pa(KERNEL_BASE * PT + i) = 0 + i
  BY <1>1, <1>2, MappedAt
<1> QED BY <1>3

(* What check_boot_pgdir asserts is so.                                    *)
LEMMA CheckPasses ==
  ASSUME BootInv, Lab, next_step = 9
  PROVE  BootPgdirIsRight
<1>0. StepOK /\ SpaceOK /\ DirOK /\ MapsOK
  BY DEF BootInv
<1>1. /\ mode # "low" /\ PhysicalMapped /\ KernelPages = KernelTables * PT
      /\ KernelTables * PT \in Nat
  BY <1>0, Sizes DEF StepOK, PhysicalMapped, KernelPages, Lab
<1>2. \A i \in 0 .. PageUp(number_of_frames) - 1 :
        check_va2pa(READ_ONLY_FRAMES_INFO * PT + i) = Where("frames_info") + i
  BY ViewsAre
<1>3. \A i \in 0 .. KernelTables * PT - 1 : check_va2pa(KERNEL_BASE * PT + i) = i
  BY <1>1, KernelAt
<1>4. \A i \in 0 .. StackPages - 1 :
        check_va2pa((STACK + 1) * PT - StackPages + i) = ptr_stack_bottom + i
  <2>1. StackBase \in Nat /\ StackPages \in Nat /\ ptr_stack_bottom \in Int
    BY <1>0, StackRange, Sizes DEF ptr_stack_bottom, ImageEnd
  <2>2. Mapped(StackBase, StackPages, ptr_stack_bottom)
    BY <1>0 DEF MapsOK, StackMapped, StackBase
  <2>3. \A i \in 0 .. StackPages - 1 : check_va2pa(StackBase + i) = ptr_stack_bottom + i
    BY <2>1, <2>2, MappedAt
  <2> QED BY <2>3 DEF StackBase
<1>5. \A d \in Tables : (dir[d] # Absent) <=>
        d \in {VPT, UVPT, STACK, UENVS, READ_ONLY_FRAMES_INFO} \union Kernel
  BY <1>0, <1>1 DEF DirOK, Present
<1> QED BY <1>2, <1>3, <1>4, <1>5 DEF BootPgdirIsRight

LEMMA CheckStep == BootInv /\ check_boot_pgdir => BootInv'
<1> SUFFICES ASSUME BootInv, check_boot_pgdir PROVE BootInv'
  OBVIOUS
<1>0. StepOK /\ SpaceOK /\ DirOK
  BY DEF BootInv
<1>1. /\ Do("check") /\ UNCHANGED <<ptr_free_mem, blocks, dir, pt, mode>>
      /\ failed' = (Lab /\ ~BootPgdirIsRight)
  BY DEF check_boot_pgdir, memory, Lab
<1>2. next_step = IF Lab THEN 9 ELSE 10
  BY <1>0, <1>1, PlaceOfStep
<1>3. ~failed'
  BY <1>1, <1>2, CheckPasses
<1>4. ptr_free_mem' \in Nat /\ UNCHANGED mode
  BY <1>0, <1>1 DEF StepOK
<1>5. StepOK'
  BY <1>0, <1>1, <1>2, <1>3, <1>4, StepKept
<1>6. /\ SpaceOK' /\ BlocksOK' /\ NamesOK' /\ MapsOK' /\ FirstFree' = FirstFree
      /\ FirstFree \in Nat
  BY <1>1, <1>2, LateStep
<1>7. DirOK'
  <2>1. FirstFree' \in Nat /\ FirstFree' >= FirstFree /\ UNCHANGED <<dir, mode>> /\ next_step > 8
    BY <1>1, <1>2, <1>6
  <2> QED BY <1>0, <1>1, <1>6, <2>1, DirKept
<1>8. FreeListIsTheRest'
  BY <1>0, <1>1, <1>2, NotYetBooted
<1> QED BY <1>5, <1>6, <1>7, <1>8 DEF BootInv

(* Entry 0 comes and goes.                                                 *)
LEMMA PagingSteps == BootInv /\ (turn_on_paging \/ reload_segments) => BootInv'
<1> SUFFICES ASSUME BootInv, turn_on_paging \/ reload_segments PROVE BootInv'
  OBVIOUS
<1>0. StepOK /\ SpaceOK /\ DirOK /\ Placed
  BY DEF BootInv, DirOK
<1> DEFINE first == IF turn_on_paging THEN dir[KERNEL_BASE] ELSE Absent
           after == IF turn_on_paging THEN "low" ELSE "flat"
<1>1. /\ turn_on_paging => Do("low")
      /\ ~turn_on_paging => Do("flat")
      /\ UNCHANGED <<ptr_free_mem, blocks, pt, failed>>
      /\ dir' = [dir EXCEPT ![0] = first] /\ mode' = after
  BY DEF turn_on_paging, reload_segments
<1>2. PICK s : Do(s)
  BY <1>1
<1>3. /\ turn_on_paging => next_step = IF Lab THEN 10 ELSE 11
      /\ ~turn_on_paging => next_step = IF Lab THEN 11 ELSE 12
  BY <1>0, <1>1, PlaceOfStep
<1>4. /\ next_step' = next_step + 1 /\ next_step' \in 1 .. Len(Steps) + 1 /\ Steps' = Steps
      /\ Lab' = Lab /\ ImageEnd' = ImageEnd /\ UNCHANGED <<tree, image, ext>>
  BY <1>0, <1>2, StepDone
<1>5. KERNEL_BASE \in Tables /\ KERNEL_BASE \in Kernel /\ 0 \in Tables \ Own /\ Own \subseteq Tables
  BY <1>0, TablesAre
<1>6. dir[KERNEL_BASE] # Absent
  BY <1>0, <1>3, <1>5 DEF DirOK, Present
<1>7. /\ dir' \in [Tables -> Frames \cup {Absent}] /\ dir'[0] = first
      /\ \A d \in Tables \ {0} : dir'[d] = dir[d]
  BY <1>0, <1>1, <1>5 DEF Placed
<1> HIDE DEF first, after
<1>8. \A d \in Own : dir'[d] = dir[d]
  BY <1>5, <1>7
<1>9. next_step > (IF Lab THEN 8 ELSE 9) /\ next_step < (IF Lab THEN 12 ELSE 13) /\ next_step > 8
  BY <1>3
<1>10. UNCHANGED <<ptr_free_mem, blocks, pt>>
  BY <1>1
<1>11. /\ SpaceOK' /\ BlocksOK' /\ NamesOK' /\ MapsOK' /\ FirstFree' = FirstFree
       /\ FirstFree \in Nat
  BY <1>2, <1>8, <1>9, <1>10, LateStep
<1>12. StepOK'
  <2>1. (after = "low") <=> (next_step' = IF Lab THEN 11 ELSE 12)
    BY <1>3, <1>4 DEF after
  <2>2. (after = "flat") <=> (next_step' > IF Lab THEN 11 ELSE 12)
    BY <1>3, <1>4 DEF after
  <2> QED BY <1>0, <1>1, <1>4, <2>1, <2>2 DEF StepOK
<1>13. DirOK'
  <2>1. Placed'
    BY <1>0, <1>4, <1>7, <1>8, <1>11 DEF Placed, Own
  <2>2. \A d \in Tables \ {0} : Present(d)' <=> Present(d)
    BY <1>3, <1>4 DEF Present
  <2>3. \A d \in Tables \ {0} : dir'[d] # Absent <=> Present(d)'
    BY <1>0, <1>7, <2>2 DEF DirOK
  <2>4. Present(0)' <=> after = "low"
    BY <1>0, <1>1, TablesAre DEF Present
  <2>5. dir'[0] # Absent <=> after = "low"
    BY <1>6, <1>7 DEF first, after
  <2>6. after = "low" => dir'[0] = dir'[KERNEL_BASE]
    BY <1>0, <1>5, <1>7, TablesAre DEF first, after
  <2> QED BY <1>1, <2>1, <2>3, <2>4, <2>5, <2>6 DEF DirOK
<1>14. FreeListIsTheRest'
  BY <1>0, <1>2, <1>9, NotYetBooted
<1> QED BY <1>11, <1>12, <1>13, <1>14 DEF BootInv

-----------------------------------------------------------------------------
(* What is in use, and the frame list.                                     *)
LEMMA InUseIs ==
  ASSUME StepOK, SpaceOK, BlocksOK
  PROVE  /\ InUse = Reserved \union (IOPage .. FirstFree - 1)
         /\ FirstFree \in Nat /\ IOPage \in Nat /\ IOPage <= FirstFree /\ FirstFree <= nf /\ nf \in Nat
         /\ 3 <= IOPage /\ ImageEnd <= FirstFree /\ ImageEnd \in Nat /\ ExtPage \in Nat
         /\ IOPage <= ExtPage /\ ExtPage <= ImageEnd
<1>1. /\ IOPage \in Nat /\ ExtPage \in Nat /\ ImageEnd \in Nat /\ FirstFree \in Nat /\ nf \in Nat
      /\ 3 <= IOPage /\ IOPage <= ExtPage /\ ExtPage <= ImageEnd /\ ImageEnd <= FirstFree
      /\ FirstFree <= nf
  BY Sizes, SpaceIs
<1>2. UNION {BlockPages(b) : b \in blocks} = ImageEnd .. FirstFree - 1
  <2>1. ASSUME NEW b \in blocks PROVE BlockPages(b) \subseteq ImageEnd .. FirstFree - 1
    <3>1. /\ b.first \in Nat /\ b.pages \in Nat
          /\ ImageEnd <= b.first /\ b.first + b.pages <= FirstFree
      BY DEF BlocksOK
    <3> QED BY ONLY <1>1, <3>1 DEF BlockPages
  <2>2. \A p \in ImageEnd .. FirstFree - 1 : \E b \in blocks : p \in BlockPages(b)
    BY DEF BlocksOK
  <2> QED BY <2>1, <2>2
<1>3. (IOPage .. ExtPage - 1) \union (ExtPage .. ImageEnd - 1) \union (ImageEnd .. FirstFree - 1)
        = IOPage .. FirstFree - 1
  BY ONLY <1>1
<1>4. InUse = Reserved \union (IOPage .. FirstFree - 1)
  BY <1>2, <1>3 DEF InUse, ImagePages, ImageEnd
<1> QED BY <1>1, <1>4

LEMMA ReservedIs ==
  \E c \in 1 .. 3 : Reserved = 0 .. c-1 /\ Cardinality(Reserved) = c
<1>1. CASE tree = "lab"
  <2>1. Reserved = 0 .. 1-1
    BY <1>1 DEF Reserved
  <2>2. Cardinality(0 .. 0+1-1) = 1
    BY CountIs
  <2> QED BY ONLY <2>1, <2>2
<1>2. CASE tree # "lab"
  <2>1. Reserved = 0 .. 3-1
    BY <1>2 DEF Reserved
  <2>2. Cardinality(0 .. 0+3-1) = 3
    BY CountIs
  <2> QED BY <2>1, <2>2
<1> QED BY <1>1, <1>2

(* The free frames of a range, the last of them first.                     *)
LEMMA DescendingIs ==
  ASSUME NEW a \in Nat, NEW b \in Int, b >= a - 1
  PROVE  /\ Descending(a, b) \in Seq(Nat) /\ Len(Descending(a, b)) = b - a + 1
         /\ \A i \in 1 .. b - a + 1 : Descending(a, b)[i] = b + 1 - i
<1> DEFINE n == b - a + 1
<1>1. n \in Nat
  OBVIOUS
<1>2. Descending(a, b) = [i \in 1 .. n |-> b + 1 - i]
  BY DEF Descending
<1>3. \A i \in 1 .. n : b + 1 - i \in Nat
  OBVIOUS
<1> QED BY <1>1, <1>2, <1>3

LEMMA TwoRanges ==
  ASSUME NEW a \in Nat, NEW b \in Int, b >= a - 1, NEW c \in Nat, NEW d \in Int, d >= c - 1, d < a
  PROVE  /\ ToSet(Descending(a, b) \o Descending(c, d)) = (a .. b) \union (c .. d)
         /\ IsInjective(Descending(a, b) \o Descending(c, d))
<1> DEFINE q == Descending(a, b) \o Descending(c, d)
<1>1. PICK n \in Nat, m \in Nat : n = b - a + 1 /\ m = d - c + 1
  OBVIOUS
<1>2. PICK s \in Seq(Nat), t \in Seq(Nat) :
        /\ q = s \o t /\ Len(s) = n /\ Len(t) = m
        /\ \A i \in 1 .. n : s[i] = b + 1 - i
        /\ \A i \in 1 .. m : t[i] = d + 1 - i
  BY <1>1, DescendingIs
<1> HIDE DEF q
<1>3. /\ DOMAIN q = 1 .. n + m
      /\ \A i \in 1 .. n : q[i] = s[i]
      /\ \A i \in n + 1 .. n + m : q[i] = t[i - n]
  <2>1. s \in Seq(Nat) /\ t \in Seq(Nat) /\ Len(s) = n /\ Len(t) = m
    BY <1>2
  <2>2. /\ s \o t \in Seq(Nat) /\ Len(s \o t) = n + m
        /\ \A i \in 1 .. Len(s) : (s \o t)[i] = s[i]
        /\ \A i \in Len(s) + 1 .. Len(s) + Len(t) : (s \o t)[i] = t[i - Len(s)]
    <3>1. /\ s \o t \in Seq(Nat) /\ Len(s \o t) = Len(s) + Len(t)
          /\ \A i \in 1 .. Len(s) + Len(t) :
               (s \o t)[i] = IF i <= Len(s) THEN s[i] ELSE t[i - Len(s)]
      BY ONLY <2>1, ConcatProperties
    <3> QED BY <2>1, <3>1
  <2>3. DOMAIN q = 1 .. n + m
    BY <1>2, <2>2
  <2> QED BY <1>2, <2>1, <2>2, <2>3
<1>4. ASSUME NEW i \in 1 .. n + m
      PROVE  /\ i <= n => q[i] = b + 1 - i /\ q[i] \in a .. b
             /\ i > n => q[i] = d + 1 - (i - n) /\ q[i] \in c .. d
  <2>1. CASE i <= n
    <3>1. i \in 1 .. n /\ b + 1 - i \in a .. b
      BY <1>1, <2>1
    <3>2. q[i] = b + 1 - i
      BY <1>2, <1>3, <3>1
    <3> QED BY <1>1, <2>1, <3>1, <3>2
  <2>2. CASE i > n
    <3>1. i \in n + 1 .. n + m /\ i - n \in 1 .. m /\ d + 1 - (i - n) \in c .. d
      BY <1>1, <2>2
    <3>2. q[i] = d + 1 - (i - n)
      BY <1>2, <1>3, <3>1
    <3> QED BY <1>1, <2>2, <3>1, <3>2
  <2> QED BY <2>1, <2>2
<1>5. ToSet(q) = (a .. b) \union (c .. d)
  <2>1. \A i \in DOMAIN q : q[i] \in (a .. b) \union (c .. d)
    BY <1>1, <1>3, <1>4
  <2>2. ASSUME NEW x \in a .. b PROVE \E i \in DOMAIN q : q[i] = x
    <3>1. b + 1 - x \in 1 .. n
      BY <1>1
    <3>2. /\ b + 1 - x \in 1 .. n + m /\ b + 1 - x <= n
          /\ b + 1 - (b + 1 - x) = x
      BY <1>1, <3>1
    <3> QED BY <1>3, <1>4, <3>2
  <2>3. ASSUME NEW x \in c .. d PROVE \E i \in DOMAIN q : q[i] = x
    <3>1. n + d + 1 - x \in 1 .. n + m /\ n + d + 1 - x > n /\ d + 1 - ((n + d + 1 - x) - n) = x
      BY <1>1
    <3> QED BY <1>3, <1>4, <3>1
  <2> QED BY <2>1, <2>2, <2>3 DEF ToSet
<1>6. IsInjective(q)
  <2> SUFFICES ASSUME NEW i \in 1 .. n + m, NEW j \in 1 .. n + m, q[i] = q[j] PROVE i = j
    BY <1>3 DEF IsInjective
  <2>1. /\ i <= n => q[i] = b + 1 - i /\ q[i] \in a .. b
        /\ i > n => q[i] = d + 1 - (i - n) /\ q[i] \in c .. d
        /\ j <= n => q[j] = b + 1 - j /\ q[j] \in a .. b
        /\ j > n => q[j] = d + 1 - (j - n) /\ q[j] \in c .. d
    BY <1>4
  <2>2. (i <= n) <=> (j <= n)
    BY <2>1
  <2> QED BY ONLY <2>1, <2>2, a \in Nat, b \in Int, c \in Nat, d \in Int, n \in Nat, i \in 1 .. n + m,
                 j \in 1 .. n + m, m \in Nat, q[i] = q[j]
<1> QED BY <1>5, <1>6 DEF q

LEMMA FreeListStep == BootInv /\ initialize_paging => BootInv'
<1> SUFFICES ASSUME BootInv, initialize_paging PROVE BootInv'
  OBVIOUS
<1>0. StepOK /\ SpaceOK /\ DirOK /\ BlocksOK
  BY DEF BootInv
<1> DEFINE low   == (0 .. IOPage - 1) \ Reserved
           high  == range_end .. number_of_frames - 1
           inUse == Reserved \union (IOPage .. range_end - 1)
<1>1. /\ Do("paging") /\ UNCHANGED <<ptr_free_mem, blocks, dir, pt, mode, failed>>
      /\ references' = [f \in Frames |-> CASE f \in low \union high -> 0
                                           [] f \in inUse -> 1
                                           [] OTHER -> references[f]]
      /\ free_frame_list' = Descending(range_end, number_of_frames - 1)
                                \o Descending(Cardinality(Reserved), IOPage - 1)
  BY DEF initialize_paging, memory
<1>2. next_step = IF Lab THEN 12 ELSE 13
  BY <1>0, <1>1, PlaceOfStep
<1>3. ~failed' /\ ptr_free_mem' \in Nat
  BY <1>0, <1>1 DEF StepOK
<1>4. StepOK'
  BY <1>0, <1>1, <1>2, <1>3, StepKept
<1>5. /\ SpaceOK' /\ BlocksOK' /\ NamesOK' /\ MapsOK' /\ FirstFree' = FirstFree
      /\ FirstFree \in Nat
  BY <1>1, <1>2, LateStep
<1>6. DirOK'
  <2>1. FirstFree' \in Nat /\ FirstFree' >= FirstFree /\ UNCHANGED <<dir, mode>> /\ next_step > 8
    BY <1>1, <1>2, <1>5
  <2> QED BY <1>0, <1>1, <1>5, <2>1, DirKept
<1>7. FreeListIsTheRest'
  <2>1. /\ Lab' = Lab /\ tree' = tree /\ number_of_frames' = number_of_frames
        /\ number_of_frames \in Nat
    BY <1>0, <1>1, StepDone, Sizes DEF nf
  <2>2. /\ InUse = Reserved \union (IOPage .. FirstFree - 1)
        /\ FirstFree \in Nat /\ IOPage \in Nat /\ IOPage <= FirstFree
        /\ FirstFree <= number_of_frames /\ 3 <= IOPage
    BY <1>0, InUseIs DEF nf
  <2>3. InUse' = InUse /\ Reserved' = Reserved
    <3>1. ImageEnd' = ImageEnd /\ Reserved' = Reserved
      BY <1>0, <1>1, <2>1, StepDone DEF Reserved
    <3> QED BY <1>1, <3>1 DEF InUse, ImagePages, ImageEnd, BlockPages
  <2>4. range_end = FirstFree
    BY DEF range_end, FirstFree
  <2>5. PICK c \in 1 .. 3 : Reserved = 0 .. c-1 /\ Cardinality(Reserved) = c
    BY ReservedIs
  <2>6. inUse = InUse /\ low = c .. IOPage - 1 /\ high = FirstFree .. number_of_frames - 1
    BY <2>2, <2>4, <2>5
  <2> HIDE DEF low, high, inUse
  <2>7. /\ ToSet(free_frame_list') = high \union low /\ IsInjective(free_frame_list')
    <3>1. free_frame_list' = Descending(FirstFree, number_of_frames - 1) \o Descending(c, IOPage - 1)
      BY <1>1, <2>4, <2>5
    <3> DEFINE b == number_of_frames - 1
               d == IOPage - 1
    <3>2. /\ b \in Int /\ b >= FirstFree - 1 /\ d \in Int /\ d >= c - 1 /\ d < FirstFree
          /\ c \in Nat /\ FirstFree \in Nat
      BY <2>1, <2>2
    <3> HIDE DEF b, d
    <3>3. /\ ToSet(Descending(FirstFree, b) \o Descending(c, d)) = (FirstFree .. b) \union (c .. d)
          /\ IsInjective(Descending(FirstFree, b) \o Descending(c, d))
      BY ONLY <3>2, TwoRanges
    <3> QED BY <2>6, <3>1, <3>3 DEF b, d
  <2>8. high \union low = (0 .. number_of_frames - 1) \ InUse
    BY <2>1, <2>2, <2>5, <2>6
  <2>9. ASSUME NEW f \in 0 .. number_of_frames - 1
        PROVE  references'[f] = IF f \in InUse THEN 1 ELSE 0
    <3>1. f \in Frames
      BY <1>0, FramesAre DEF nf
    <3>2. f \in low \union high <=> f \notin InUse
      BY <2>8
    <3>3. references'[f] = CASE f \in low \union high -> 0
                             [] f \in inUse -> 1
                             [] OTHER -> references[f]
      BY <1>1, <3>1
    <3> QED BY <2>6, <3>2, <3>3
  <2>10. /\ ToSet(free_frame_list)' = (0 .. number_of_frames' - 1) \ InUse'
         /\ IsInjective(free_frame_list)'
         /\ \A f \in 0 .. number_of_frames' - 1 : references'[f] = IF f \in InUse' THEN 1 ELSE 0
    BY <2>1, <2>3, <2>7, <2>8, <2>9 DEF ToSet, IsInjective
  <2> QED BY <2>10 DEF FreeListIsTheRest
<1> QED BY <1>4, <1>5, <1>6, <1>7 DEF BootInv

-----------------------------------------------------------------------------
LEMMA BootInitInv == BootInit => BootInv
<1> SUFFICES ASSUME BootInit PROVE BootInv
  OBVIOUS
<1>1. /\ tree \in {"lab", "fos", "fos_flat"} /\ image \in Images
      /\ ext \in {PageDown(e) : e \in ExtSizes}
      /\ next_step = 1 /\ ptr_free_mem = image /\ blocks = {}
      /\ dir = [d \in Tables |-> Absent]
      /\ pt = [f \in Frames |-> [i \in 0 .. PT-1 |-> Garbage]]
      /\ mode = "off" /\ failed = FALSE
  BY DEF BootInit
<1>2. StepOK
  <2>1. ptr_free_mem \in Nat
    BY <1>1, BootAssumption
  <2> QED BY <1>1, <2>1, LengthIs DEF StepOK
<1>3. SpaceOK
  <2>1. ImageEnd \in Nat /\ FirstFree = ImageEnd
    <3>1. ImageEnd \in ExtPage .. PT /\ ExtPage \in Nat
      BY <1>2, Sizes
    <3> QED BY <1>1, <3>1 DEF FirstFree, ImageEnd
  <2>2. Taken(next_step) = 0
    BY <1>1 DEF Taken
  <2> QED BY <2>1, <2>2 DEF SpaceOK
<1>4. DirOK
  <2>1. \A d \in Tables : dir[d] = Absent /\ ~Present(d)
    BY <1>1 DEF Present
  <2>2. dir \in [Tables -> Frames \cup {Absent}]
    BY <1>1
  <2> QED BY <1>1, <2>1, <2>2 DEF DirOK, Placed, Own
<1>5. BlocksOK
  <2>1. ImageEnd .. FirstFree - 1 = {}
    <3>1. ImageEnd \in ExtPage .. PT /\ ExtPage \in Nat
      BY <1>2, Sizes
    <3>2. FirstFree = ImageEnd
      BY <1>1 DEF FirstFree, ImageEnd
    <3> QED BY <3>1, <3>2
  <2> QED BY <1>1, <2>1 DEF BlocksOK
<1>6. NamesOK
  BY <1>1 DEF NamesOK
<1>7. MapsOK
  <2>1. pt \in [Frames -> [0 .. PT-1 -> Int]]
    BY <1>1 DEF Garbage
  <2> QED BY <1>1, <2>1 DEF MapsOK, PhysicalMapped
<1>8. FreeListIsTheRest
  BY <1>1, LengthIs DEF FreeListIsTheRest, Booted
<1> QED BY <1>2, <1>3, <1>4, <1>5, <1>6, <1>7, <1>8 DEF BootInv

LEMMA BootStutter == BootInv /\ UNCHANGED bootVars => BootInv'
<1> SUFFICES ASSUME BootInv, UNCHANGED bootVars PROVE BootInv'
  OBVIOUS
<1>1. UNCHANGED <<tree, image, ext, next_step, ptr_free_mem, blocks, dir, pt, mode, failed,
                  references, free_frame_list>>
  BY DEF bootVars, machine, memory, frames
<1>2. StepOK'
  BY <1>1 DEF BootInv, StepOK, Lab, Steps
<1>3. SpaceOK'
  BY <1>1 DEF BootInv, SpaceOK, FirstFree, ImageEnd, Taken, Lab, number_of_frames, maxpa
<1>4. DirOK'
  BY <1>1 DEF BootInv, DirOK, Placed, Own, Present, FirstFree, ImageEnd, Lab
<1>5. BlocksOK'
  BY <1>1 DEF BootInv, BlocksOK, BlockPages, FirstFree, ImageEnd
<1>6. NamesOK'
  BY <1>1 DEF BootInv, NamesOK, Named, number_of_frames, maxpa
<1>7. MapsOK'
  BY <1>1 DEF BootInv, MapsOK, Mapped, StackMapped, KernelMapped, FramesMapped, EnvsMapped,
              KernelPages, PhysicalMapped, Lab, Own, Where, check_va2pa, ptr_stack_bottom,
              FirstFree, number_of_frames, maxpa
<1>8. FreeListIsTheRest'
  BY <1>1 DEF BootInv, FreeListIsTheRest, Booted, Steps, InUse, ImagePages, BlockPages, Reserved,
              number_of_frames, maxpa, ToSet, IsInjective
<1> QED BY <1>2, <1>3, <1>4, <1>5, <1>6, <1>7, <1>8 DEF BootInv

(* The inductive invariant of the boot: the steps so far have taken what   *)
(* each of them takes and no more, in blocks without a gap; an entry of    *)
(* the directory is there exactly from the step that makes it on, and no   *)
(* two tables are in one page; and every mapping made so far is still in   *)
(* the tables.                                                             *)
THEOREM BootInvariant == BootSpec => []BootInv
<1>1. BootInit => BootInv
  BY BootInitInv
<1>2. BootInv /\ [BootNext]_bootVars => BootInv'
  <2> SUFFICES ASSUME BootInv, [BootNext]_bootVars PROVE BootInv'
    OBVIOUS
  <2>1. CASE AllocateDirectory \/ AllocateFramesInfo \/ AllocateDiskFramesInfo \/ AllocateEnvs
    BY <2>1, AllocationSteps
  <2>2. CASE MapStack
    BY <2>2, MapStackStep
  <2>3. CASE CreateKernelTables
    BY <2>3, KernelTablesStep
  <2>4. CASE MapPhysicalMemory
    BY <2>4, MapPhysicalStep
  <2>5. CASE MapFramesInfo
    BY <2>5, MapFramesStep
  <2>6. CASE setup_listing_to_all_page_tables_entries
    BY <2>6, ListingStep
  <2>7. CASE MapEnvs
    BY <2>7, MapEnvsStep
  <2>8. CASE check_boot_pgdir
    BY <2>8, CheckStep
  <2>9. CASE turn_on_paging \/ reload_segments
    BY <2>9, PagingSteps
  <2>10. CASE initialize_paging
    BY <2>10, FreeListStep
  <2>11. CASE Stay \/ UNCHANGED bootVars
    BY <2>11, BootStutter DEF Stay
  <2> QED BY <2>1, <2>2, <2>3, <2>4, <2>5, <2>6, <2>7, <2>8, <2>9, <2>10, <2>11 DEF BootNext
<1> QED BY <1>1, <1>2, PTL DEF BootSpec

(* No two boot allocations share a page, and none lies in the image of the *)
(* kernel or beyond memory: boot_allocate_space has no test of its own, so *)
(* that this holds is a matter of the order of initialize_kernel_VM.       *)
THEOREM BlocksAreDisjoint == BootSpec => []BlocksDisjoint
<1>1. BootInv => BlocksDisjoint
  <2> SUFFICES ASSUME BootInv PROVE BlocksDisjoint
    OBVIOUS
  <2>0. StepOK /\ SpaceOK /\ BlocksOK
    BY DEF BootInv
  <2>1. /\ FirstFree \in Nat /\ ImageEnd \in Nat /\ FirstFree <= number_of_frames
        /\ number_of_frames \in Nat /\ ExtPage \in Nat
    BY <2>0, InUseIs DEF nf
  <2>2. ASSUME NEW b \in blocks
        PROVE  /\ BlockPages(b) \subseteq 0 .. number_of_frames - 1
               /\ BlockPages(b) \intersect ImagePages = {}
    <3>1. /\ b.first \in Nat /\ b.pages \in Nat
          /\ ImageEnd <= b.first /\ b.first + b.pages <= FirstFree
      BY <2>0 DEF BlocksOK
    <3>2. ImagePages = ExtPage .. ImageEnd - 1
      BY DEF ImagePages, ImageEnd
    <3>3. BlockPages(b) = b.first .. b.first + b.pages - 1
      BY DEF BlockPages
    <3>4. PICK f \in Nat, n \in Nat : f = b.first /\ n = b.pages
      BY <3>1
    <3>5. \A x \in f .. f + n - 1 : x \in 0 .. number_of_frames - 1 /\ ~(x < ImageEnd)
      BY ONLY <2>1, <3>1, <3>4
    <3> QED BY <2>1, <3>2, <3>3, <3>4, <3>5
  <2>3. \A b, c \in blocks : b = c \/ BlockPages(b) \cap BlockPages(c) = {}
    BY <2>0 DEF BlocksOK
  <2> QED BY <2>2, <2>3 DEF BlocksDisjoint
<1> QED BY <1>1, BootInvariant, PTL

(* From the moment paging is on the kernel finds itself, its stack, its    *)
(* tables and the views of its arrays, and check_boot_pgdir has nothing to *)
(* complain of.                                                            *)
THEOREM KernelIsFound == BootSpec => []KernelFindsItself
<1>1. BootInv => KernelFindsItself
  <2> SUFFICES ASSUME BootInv PROVE KernelFindsItself
    OBVIOUS
  <2>0. StepOK /\ SpaceOK /\ DirOK /\ BlocksOK
    BY DEF BootInv
  <2>1. /\ InUse = Reserved \union (IOPage .. FirstFree - 1)
        /\ FirstFree \in Nat /\ IOPage \in Nat /\ FirstFree <= nf /\ nf \in Nat
        /\ 3 <= IOPage /\ ImageEnd <= FirstFree /\ ImageEnd \in Nat /\ ExtPage \in Nat
        /\ IOPage <= ExtPage /\ ExtPage <= ImageEnd
    BY <2>0, InUseIs
  <2>2. /\ KernelTables * PT \in Nat /\ nf <= KernelTables * PT /\ ImageEnd <= PT /\ PT \in Nat \ {0}
        /\ KERNEL_BASE \in Nat
    BY <2>0, Sizes, TablesAre
  <2>3. KernelPages \in Nat /\ FirstFree <= KernelPages
    BY <2>1, <2>2 DEF KernelPages
  <2>4. mode \in {"low", "flat"} => PhysicalMapped /\ next_step > 8
    BY <2>0 DEF StepOK, PhysicalMapped
  <2>5. ASSUME mode = "low", NEW p \in ImagePages PROVE check_va2pa(p) = p
    <3>1. p \in ExtPage .. ImageEnd - 1
      BY DEF ImagePages, ImageEnd
    <3>2. p \in 0 .. PT-1 /\ p \in Nat /\ p < KernelPages
      BY ONLY <2>1, <2>2, <2>3, <3>1
    <3>3. (0 * PT + p) \div PT = 0 /\ (0 * PT + p) % PT = p /\ 0 * PT + p = p
      BY <2>2, <3>2, TableOfPage
    <3>4. (KERNEL_BASE * PT + p) \div PT = KERNEL_BASE /\ (KERNEL_BASE * PT + p) % PT = p
      BY <2>2, <3>2, TableOfPage
    <3>5. check_va2pa(KERNEL_BASE * PT + p) = p
      BY <2>4, <2>5, <3>2, KernelAt
    <3>6. dir[0] = dir[KERNEL_BASE]
      BY <2>0, <2>5 DEF DirOK
    <3>7. check_va2pa(p) = check_va2pa(KERNEL_BASE * PT + p)
      BY <3>3, <3>4, <3>6 DEF check_va2pa
    <3> QED BY <3>5, <3>7
  <2>6. ASSUME mode = "flat", NEW p \in InUse \ (IOPage .. ExtPage - 1)
        PROVE  check_va2pa(KERNEL_BASE * PT + p) = p
    <3>1. PICK c \in 1 .. 3 : Reserved = 0 .. c-1
      BY ReservedIs
    <3>2. p \in Nat /\ p < FirstFree
      BY <2>1, <2>6, <3>1
    <3>3. p < KernelPages
      BY <2>1, <2>3, <3>2
    <3> QED BY <2>4, <2>6, <3>2, <3>3, KernelAt
  <2>7. mode = "flat" => ViewsShowTheArrays
    <3> SUFFICES ASSUME mode = "flat" PROVE ViewsShowTheArrays
      OBVIOUS
    <3>1. next_step > 8
      BY <2>4
    <3>2. /\ Size("envs") = PageUp(EnvsSize)
          /\ \A i \in 0 .. PageUp(EnvsSize) - 1 : check_va2pa(UENVS * PT + i) = Where("envs") + i
          /\ Lab => /\ Size("frames_info") = PageUp(number_of_frames)
                    /\ \A i \in 0 .. PageUp(number_of_frames) - 1 :
                         check_va2pa(READ_ONLY_FRAMES_INFO * PT + i) = Where("frames_info") + i
      BY <3>1, ViewsAre
    <3> QED BY <3>2 DEF ViewsShowTheArrays, Lab
  <2>8. ~failed
    BY <2>0 DEF StepOK
  <2> QED BY <2>5, <2>6, <2>7, <2>8 DEF KernelFindsItself
<1> QED BY <1>1, BootInvariant, PTL

(* When the boot is over every frame it left unused is on the free list,   *)
(* once and with no references, and no frame in use is: nothing took       *)
(* memory after initialize_paging had read ptr_free_mem.                   *)
THEOREM FreeListIsRight == BootSpec => []FreeListIsTheRest
<1>1. BootInv => FreeListIsTheRest
  BY DEF BootInv
<1> QED BY <1>1, BootInvariant, PTL
=============================================================================

------------------------------ MODULE Keyboard ------------------------------
(***************************************************************************)
(* From the keys to a command line: intr_keyboard_handler decodes scan     *)
(* codes and produces characters on top of whatever thread it interrupts   *)
(* (device/keyboard.c), the shell's readline consumes them one by one with *)
(* sys_read(stdin) and edits its line (shell/shell.c).                     *)
(***************************************************************************)
EXTENDS IoQueue

CONSTANTS shell,     \* the thread of my_shell
          Key,       \* the keys that are used
          cmd_len    \* characters of a line

\* What is produced is a character: keyboard.c drops the 0 of keymap.
ASSUME KeyboardAssumption ==
  shell \in Client /\ cmd_len \in Nat \ {0} /\ NULL \notin Char

VARIABLES mode,   \* ctrl_status, shift_status, caps_lock_status, ext_scancode
          line,   \* readline: what is before pos in its buffer
          hand,   \* the character that read has stored at pos, or NULL
          held,   \* history: the keys among Twins that are down
          orphan, \* history: modifiers with one key released and its twin down
          meant,  \* history: the line as it is meant by the keys so far
          misread \* history: an orphan was there as the line was typed; no meant

kbdVars == << mode, line, hand, held, orphan, meant, misread >>

\* The byte of a key; ExtKey are those whose byte follows a 0xe0; Twins are
\* the two keys of one flag.
Letters == {"u", "l"}
ExtKey == {"ctrl_r", "alt_r", "up"}
Twins == [ctrl |-> {"ctrl_l", "ctrl_r"}, shift |-> {"shift_l", "shift_r"}]
IsTwin(key) == \E k \in DOMAIN Twins : key \in Twins[k]
Byte(key) == CASE key = "ctrl_r" -> "ctrl_l" [] key = "alt_r" -> "alt_l" [] OTHER -> key

\* keymap; a key without a character has "".
keymap(byte, shift) ==
  CASE byte = "u" -> IF shift THEN "U" ELSE "u"
    [] byte = "l" -> IF shift THEN "L" ELSE "l"
    [] byte = "1" -> IF shift THEN "!" ELSE "1"
    [] byte \in {"backspace", "enter", "tab"} -> byte
    [] OTHER -> ""

KeyboardInit ==
  /\ mode = [ctrl |-> FALSE, shift |-> FALSE, caps |-> FALSE, ext |-> FALSE]
  /\ line = << >> /\ hand = NULL
  /\ held = {} /\ orphan = {} /\ meant = << >> /\ misread = FALSE

-----------------------------------------------------------------------------
(***************************************************************************)
(* readline: what becomes of the line with the character at pos.  With the *)
(* buffer full the line ends, whatever the character, which is lost.       *)
(***************************************************************************)
\* Mutant of Backspace: the position stays.
Backspace_KeepsPos(l) == l
\* A backspace that is itself the first character of the buffer is no step back.
Backspace(l) == IF Append(l, "backspace")[1] = "backspace" THEN l ELSE Front(l)

Edit(l, ch) ==
  IF Len(l) = cmd_len \/ ch = "enter" THEN << >>
  ELSE CASE ch = "backspace" -> Backspace(l)
         [] ch = "ctrl-u" -> << >>
         [] ch \in {"ctrl-l", "tab"} -> l
         [] OTHER -> Append(l, ch)

\* The shell deals with the character it has read, and reads the next.
readline ==
  /\ At("user") /\ self = shell
  /\ line' = IF hand = NULL THEN line ELSE Edit(line, hand)
  /\ hand' = NULL
  /\ Begin("get", 1)
  /\ UNCHANGED << mode, held, orphan, meant, misread >>

KeyboardQueueStep ==
  \/ Wait /\ UNCHANGED kbdVars
  \/ Move /\ hand' = buf[tail] /\ UNCHANGED << mode, line, held, orphan, meant, misread >>

-----------------------------------------------------------------------------
(***************************************************************************)
(* intr_keyboard_handler.  The keyboard has sent 0xe0 exactly when ext is  *)
(* set, and then sends the byte of an ExtKey.                              *)
(***************************************************************************)
ExtPrefix ==
  /\ IntrOn /\ ~mode.ext /\ ExtKey \cap Key # {}
  /\ mode' = [mode EXCEPT !.ext = TRUE]
  /\ UNCHANGED << vars, line, hand, held, orphan, meant, misread >>

Sendable == {key \in Key : mode.ext <=> key \in ExtKey}

\* One flag serves both twins (keyboard.c:128-131): releasing the one clears
\* it though the other is down, until a twin is pressed again or repeats.
BreakCode ==
  /\ IntrOn
  /\ \E key \in {key \in Sendable : IsTwin(key) => key \in held} :
       /\ held' = held \ {key}
       /\ orphan' = {k \in DOMAIN Twins : IF key \in Twins[k] THEN Twins[k] \cap held' # {}
                                          ELSE k \in orphan}
       /\ mode' = [mode EXCEPT !.ext = FALSE,
                     !.ctrl = @ /\ key \notin Twins.ctrl,
                     !.shift = @ /\ key \notin Twins.shift]
  /\ UNCHANGED << vars, line, hand, meant, misread >>

\* Letters are shifted by shift or caps lock, but not by both.
Shifted(key, m) ==
  IF key \in Letters THEN m.shift # m.caps ELSE m.shift

\* cur_char for a make code.
CharOf(key, m) ==
  LET ch == keymap(Byte(key), Shifted(key, m))
  IN IF m.ctrl /\ ch \in {"l", "u"} THEN "ctrl-" \o ch ELSE ch

ModeType == [ctrl : BOOLEAN, shift : BOOLEAN, caps : BOOLEAN, ext : BOOLEAN]

\* Char holds what the keys in use can produce.
ASSUME CharAssumption ==
  \A key \in Key : \A m \in ModeType : CharOf(key, m) \in Char \cup {""}

\* The history: modifiers are the keys that are down; a line ends with enter,
\* with ctrl-u, or with one character more than it holds.  A line typed with
\* an orphan may be longer or shorter than it is meant until enter ends both.
Modifiers ==
  [mode EXCEPT !.ctrl = held \cap Twins.ctrl # {}, !.shift = held \cap Twins.shift # {}]
Means(l, ch) ==
  IF ch \in {"enter", "ctrl-u"} \/ Len(l) = cmd_len THEN << >>
  ELSE IF ch = "backspace" THEN SubSeq(l, 1, Len(l) - 1)
  ELSE IF ch \in {"ctrl-l", "tab"} THEN l
  ELSE Append(l, ch)

\* Mutant of PutKey: the reader is not woken.
PutKey_NoWakeup(ch) ==
  IF ioq_full
  THEN UNCHANGED << sched, waiter, ringVars >>
  ELSE StoreChar(ch) /\ UNCHANGED << sched, waiter >>

\* The character is dropped when the buffer is full.
PutKey(ch) ==
  IF ioq_full
  THEN UNCHANGED << sched, waiter, ringVars >>
  ELSE StoreChar(ch) /\ wakeup("get")

\* A key with a character; holding it down repeats it.
CharKey ==
  /\ IntrOn
  /\ \E key \in Sendable :
       /\ CharOf(key, mode) # ""
       /\ PutKey(CharOf(key, mode))
       /\ IF ioq_full
          THEN UNCHANGED << meant, misread >>
          ELSE /\ misread' = (key # "enter" /\ (misread \/ orphan # {}))
               /\ meant' = IF misread' THEN << >> ELSE Means(meant, CharOf(key, Modifiers))
  /\ mode' = [mode EXCEPT !.ext = FALSE]
  /\ UNCHANGED << semaVars, lockVars, callVars, line, hand, held, orphan >>

\* A key without one: a modifier, or unknown.
PlainKey ==
  /\ IntrOn
  /\ \E key \in Sendable :
       /\ keymap(Byte(key), FALSE) = ""
       /\ held' = IF IsTwin(key) THEN held \cup {key} ELSE held
       /\ orphan' = {k \in orphan : key \notin Twins[k]}
       /\ mode' = [mode EXCEPT !.ext = FALSE,
                     !.ctrl = @ \/ key \in Twins.ctrl,
                     !.shift = @ \/ key \in Twins.shift,
                     !.caps = (@ # (key = "caps_lock"))]
  /\ UNCHANGED << vars, line, hand, meant, misread >>

KeyboardNext ==
  readline \/ KeyboardQueueStep \/ ExtPrefix \/ BreakCode \/ CharKey \/ PlainKey

-----------------------------------------------------------------------------
\* With a character in the buffer a reader inside ioq_getchar gets one: no
\* keystroke is left lying while its reader sleeps.
ReaderIsServed ==
  \A t \in Client :
    (op[t] = "get" /\ pc[t] \in {"test", "lock", "wait", "woken"} /\ ~ioq_empty)
      ~> (pc[t] = "user" \/ ioq_empty)
=============================================================================

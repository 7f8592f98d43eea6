-------------------------------- MODULE Menu --------------------------------
(* The kernel's menu (main/menu.c) from the keyboard to the commands: kgets   *)
(* edits a line, menu_execute cuts it into commands and cmd_dispatch each of  *)
(* these into words, both with strtok_r and in the same buffer.  Characters   *)
(* are one-element strings; the words of a command are cut out of the line.   *)
EXTENDS Libc

CONSTANTS MAXMENUARGS,
          cmdtable        \* command names, and how many words each takes

Done == "ok"
EINVAL == "EINVAL"
E2BIG == "E2BIG"

\* A line in memory: its characters and the terminator.
Buffer(line) == [a \in 0..Len(line) |-> IF a = Len(line) THEN NUL ELSE line[a + 1]]

\* The words of the command at cmd: args, or E2BIG at the first that is too many.
AddWord(w, n, r) ==
  IF r.ret = -1 THEN [w EXCEPT !.mem = r.mem, !.end = TRUE]
  ELSE IF n > MAXMENUARGS THEN [w EXCEPT !.mem = r.mem, !.end = TRUE, !.big = TRUE]
  ELSE [w EXCEPT !.mem = r.mem, !.string = -1, !.context = r.context, !.args = Append(@, r.ret)]
NextWord(w, n) ==
  IF w.end THEN w ELSE AddWord(w, n, strtok_r(w.mem, w.string, {" ", "\t"}, w.context))
cmd_words(mem, cmd) ==
  FoldLeft(NextWord, [mem |-> mem, string |-> cmd, context |-> -1, args |-> <<>>, end |-> FALSE, big |-> FALSE],
           Upto(MAXMENUARGS + 1))

\* cmd_dispatch: the memory it leaves, the words it found and its result; a
\* command found in the table answers EINVAL to a number of words it does not take.
Look(words, big) ==
  IF big THEN E2BIG
  ELSE IF words = <<>> THEN Done
  ELSE IF \E c \in cmdtable : c.name = words[1] /\ Len(words) \in c.nargs THEN Done
  ELSE EINVAL
WordsOf(w) == [i \in DOMAIN w.args |-> Text(w.mem, w.args[i])]
Dispatched(w) == [mem |-> w.mem, words |-> WordsOf(w), result |-> Look(WordsOf(w), w.big)]
cmd_dispatch(mem, cmd) == Dispatched(cmd_words(mem, cmd))

\* menu_execute: the commands in turn; one that fails is reported, and panics
\* when the line is the kernel's arguments.
AddCommand(m, context, d) ==
  [m EXCEPT !.mem = d.mem, !.string = -1, !.context = context,
            !.ran = Append(@, [words |-> d.words, result |-> d.result]),
            !.end = d.result # Done /\ m.isargs, !.panic = d.result # Done /\ m.isargs]
CutCommand(m, r) ==
  IF r.ret = -1 THEN [m EXCEPT !.end = TRUE] ELSE AddCommand(m, r.context, cmd_dispatch(r.mem, r.ret))
NextCommand(m, n) ==
  IF m.end THEN m ELSE CutCommand(m, strtok_r(m.mem, m.string, {";"}, m.context))
menu_execute(line, isargs) ==
  FoldLeft(NextCommand, [mem |-> Buffer(line), string |-> 0, context |-> -1, ran |-> <<>>,
                         isargs |-> isargs, end |-> FALSE, panic |-> FALSE],
           Upto(Len(line) + 1))

\* cmd_mount, cmd_unmount and cmd_bootfs allow a colon after the device's name.
device_arg(word) == IF Last(word) = ":" THEN Front(word) ELSE word

getinterval_NoBorrow(s1, ns1, s2, ns2, nsec) == <<s2 - s1, (ns2 - ns1 + nsec) % nsec>>    \* mutant: the second is not given back

\* getinterval, with nsec nanoseconds to a second.
getinterval(s1, ns1, s2, ns2, nsec) ==
  IF ns2 < ns1 THEN <<s2 - 1 - s1, ns2 + nsec - ns1>> ELSE <<s2 - s1, ns2 - ns1>>
----------------------------------------------------------------------------
(* kgets.  The echo is a screen: the line under the cursor.                *)

Printable(ch) == ch \notin {"\n", "\r", "DEL", "^C", "^R", "^U", "^W"}

\* backsp writes backspace, space, backspace.
backsp(seen) == IF seen = <<>> THEN seen ELSE Front(seen)
Back(k, n) ==
  [k EXCEPT !.buf = SubSeq(@, 1, Len(@) - n), !.seen = FoldLeft(LAMBDA seen, i : backsp(seen), @, Upto(n))]

\* How many characters ^W erases: the blanks at the end, and the word before them.
LastWord(buf) ==
  LET word == SelectLastInSeq(buf, LAMBDA c : c # " ")
      blank == SelectLastInSeq(SubSeq(buf, 1, word), LAMBDA c : c = " ")
  IN  Len(buf) - blank

\* One key: buf is buf[0..pos-1], seen the line of the screen the cursor is on.
kgets_key(k, ch, maxlen) ==
  IF k.done THEN k
  ELSE IF ch \in {"\n", "\r"} THEN [k EXCEPT !.done = TRUE]
  ELSE IF Printable(ch) /\ Len(k.buf) < maxlen - 1
    THEN [k EXCEPT !.buf = Append(@, ch), !.seen = Append(@, ch)]
  ELSE IF ch = "DEL" /\ k.buf # <<>> THEN Back(k, 1)
  ELSE IF ch = "^C" THEN [buf |-> <<>>, seen |-> <<>>, done |-> TRUE]
  ELSE IF ch = "^R" THEN [k EXCEPT !.seen = k.buf]
  ELSE IF ch = "^U" THEN Back(k, Len(k.buf))
  ELSE IF ch = "^W" THEN Back(k, LastWord(k.buf))
  ELSE k     \* beep

kgets(keys, maxlen) ==
  FoldLeft(LAMBDA k, ch : kgets_key(k, ch, maxlen), [buf |-> <<>>, seen |-> <<>>, done |-> FALSE], keys)
----------------------------------------------------------------------------
(* Reference definitions.                                                  *)

\* The maximal runs of characters that are not separators, in order.
Fields(text, seps) ==
  LET starts == SelectSeq(Upto(Len(text)),
                          LAMBDA i : text[i] \notin seps /\ (i = 1 \/ text[i - 1] \in seps))
      end(i) == CHOOSE j \in i..Len(text) :
                  (j = Len(text) \/ text[j + 1] \in seps) /\ \A k \in i..j : text[k] \notin seps
  IN  [n \in DOMAIN starts |-> SubSeq(text, starts[n], end(starts[n]))]

Good(words) ==
  words = <<>> \/ \E c \in cmdtable : c.name = words[1] /\ Len(words) \in c.nargs /\ Len(words) <= MAXMENUARGS
RanExactly(done, commands, stop) ==
  /\ done.panic = stop
  /\ Len(done.ran) = (IF stop THEN SelectInSeq(commands, LAMBDA c : ~Good(c)) ELSE Len(commands))
  /\ \A i \in DOMAIN done.ran :
       /\ done.ran[i].words = SubSeq(commands[i], 1, Min({Len(commands[i]), MAXMENUARGS}))
       /\ (done.ran[i].result = Done) = Good(commands[i])
       /\ (done.ran[i].result = E2BIG) = (Len(commands[i]) > MAXMENUARGS)
\* A line is the commands between its semicolons, each with the words between
\* its blanks, at most MAXMENUARGS of them, executed in order and, for the
\* kernel's arguments, only up to the first that fails.
LineExact(line, isargs) ==
  LET texts == Fields(line, {";"})
      commands == [i \in DOMAIN texts |-> Fields(texts[i], {" ", "\t"})]
  IN  RanExactly(menu_execute(line, isargs), commands,
                 isargs /\ \E i \in DOMAIN commands : ~Good(commands[i]))

\* Whatever is typed, the line that is executed is the one on the screen, and
\* fits the buffer with its terminator.
EchoExact(keys, maxlen) ==
  LET k == kgets(keys, maxlen) IN k.buf = k.seen /\ Len(k.buf) < maxlen

\* The time a command took is the difference of the two times.
IntervalExact(s1, ns1, s2, ns2, nsec) ==
  LET i == getinterval(s1, ns1, s2, ns2, nsec)
  IN  i[2] \in 0..(nsec - 1) /\ s1 * nsec + ns1 + i[1] * nsec + i[2] = s2 * nsec + ns2
============================================================================

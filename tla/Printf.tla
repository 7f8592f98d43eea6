------------------------------- MODULE Printf -------------------------------
(* The printf of the kernel and the C library: lib/libc/__printf.c, and      *)
(* snprintf.c on top of it.  A format is a sequence of characters; integer    *)
(* arguments are the words of the machine, 0..UINT-1; int and long have the   *)
(* same size.                                                                 *)
EXTENDS Libc

CONSTANT BITS     \* of a long: UINT is 2^BITS

NUMBER_BUF_SIZE == BITS \div 3 + 2

\* The state between characters: __pf_endfield resets all but the output.
pf_endfield(pf) ==
  [pf EXCEPT !.in_pct = FALSE, !.spacing = 0, !.rightspc = FALSE, !.fillchar = " ", !.altformat = FALSE]

pf_start(args) ==
  [out |-> <<>>, ap |-> args, fits |-> TRUE, in_pct |-> FALSE, spacing |-> 0, rightspc |-> FALSE,
   fillchar |-> " ", altformat |-> FALSE]

\* '#', '-', 'l' and 'q' (one size only), '0' and the digits of the width.
pf_modifier(pf, ch) ==
  CASE ch = "#" -> [pf EXCEPT !.altformat = TRUE]
    [] ch = "-" -> [pf EXCEPT !.rightspc = TRUE]
    [] ch \in {"l", "q"} -> pf
    [] ch = "0" /\ pf.spacing = 0 -> [pf EXCEPT !.fillchar = "0"]
    [] OTHER -> [pf EXCEPT !.spacing = @ * 10 + DigitOf(ch)]

\* The sign and the magnitude of the argument, by type.
pf_getnum(ch, arg) ==
  IF ch = "d" /\ arg >= UINT \div 2 THEN [sign |-> TRUE, num |-> UINT - arg]
  ELSE [sign |-> FALSE, num |-> arg]

pf_setbase(ch) == CASE ch \in {"d", "u"} -> 10 [] ch \in {"x", "p"} -> 16 [] ch = "o" -> 8
pf_baseprefix(pf, ch) == pf.altformat \/ ch = "p"

pf_fill(pf, spc) == [i \in 1..spc |-> pf.fillchar]

pf_printstuff_ZerosFirst(pf, prefix, prefix2, stuff) ==    \* mutant: zeros before the sign too
  LET len == Len(prefix) + Len(prefix2) + Len(stuff)
      spc == IF pf.spacing > len THEN pf.spacing - len ELSE 0
  IN  [pf EXCEPT !.out = @ \o (IF ~pf.rightspc THEN pf_fill(pf, spc) ELSE <<>>)
                           \o prefix \o prefix2 \o stuff
                           \o (IF pf.rightspc THEN pf_fill(pf, spc) ELSE <<>>)]

\* __pf_printstuff: spaces before the prefixes, zeros after them, or any fill
\* on the right.
pf_printstuff(pf, prefix, prefix2, stuff) ==
  LET len == Len(prefix) + Len(prefix2) + Len(stuff)
      spc == IF pf.spacing > len THEN pf.spacing - len ELSE 0
      left == IF ~pf.rightspc THEN pf_fill(pf, spc) ELSE <<>>
  IN  [pf EXCEPT !.out = @ \o (IF pf.fillchar # "0" THEN left ELSE <<>>)
                           \o prefix \o prefix2
                           \o (IF pf.fillchar = "0" THEN left ELSE <<>>)
                           \o stuff
                           \o (IF pf.rightspc THEN pf_fill(pf, spc) ELSE <<>>)]

HexDigits == Digits \o <<"a", "b", "c", "d", "e", "f">>
digits[num \in 0..(UINT - 1), base \in {8, 10, 16}] ==
  (IF num < base THEN <<>> ELSE digits[num \div base, base]) \o <<HexDigits[(num % base) + 1]>>

\* __pf_printnum; fits says that the digits and the NUL were in the buffer.
pf_printnum(pf, ch, n) ==
  LET base == pf_setbase(ch)
      text == digits[n.num, base]
      bprefix == IF ~pf_baseprefix(pf, ch) THEN <<>>
                 ELSE IF base = 16 THEN <<"0", "x">> ELSE IF base = 8 THEN <<"0">> ELSE <<>>
  IN  pf_printstuff([pf EXCEPT !.fits = @ /\ Len(text) + 1 <= NUMBER_BUF_SIZE],
                    IF n.sign THEN <<"-">> ELSE <<>>, bprefix, text)

\* A string argument is <<text>>, or the NULL pointer.
NullString == <<>>
NullText == <<"(", "n", "u", "l", "l", ")">>

\* __pf_send: one character of the format.
pf_send(pf, ch) ==
  LET arg == Head(pf.ap)
      used == [pf EXCEPT !.ap = Tail(@)]
  IN  IF ~pf.in_pct /\ ch # "%" THEN [pf EXCEPT !.out = Append(@, ch)]
      ELSE IF ~pf.in_pct THEN [pf EXCEPT !.in_pct = TRUE]
      ELSE IF ch \in {"#", "-", "q", "l"} \cup Range(Digits) THEN pf_modifier(pf, ch)
      ELSE IF ch \in {"d", "o", "u", "p", "x"} THEN pf_endfield(pf_printnum(used, ch, pf_getnum(ch, arg)))
      ELSE IF ch = "s" THEN pf_endfield(pf_printstuff(used, <<>>, <<>>, IF arg = NullString THEN NullText ELSE arg[1]))
      ELSE IF ch = "c" THEN pf_endfield(pf_printstuff(used, <<>>, <<>>, <<arg>>))
      ELSE pf_endfield(pf_printstuff(pf, <<>>, <<>>, <<ch>>))

\* __vprintf: what is sent; its length is the count that is returned.
vprintf(format, args) == FoldLeft(pf_send, pf_start(args), format)

\* __snprintf_send and vsnprintf: the buffer gets what fits and a NUL.
vsnprintf(mem, buf, len, format, args) ==
  LET out == vprintf(format, args).out
      buflen == IF len = 0 THEN 0 ELSE len - 1
      bufpos == IF Len(out) < buflen THEN Len(out) ELSE buflen
  IN  [chars |-> Len(out),
       mem |-> [a \in DOMAIN mem |-> IF a \in buf..(buf + bufpos - 1) THEN out[a - buf + 1]
                                     ELSE IF a = buf + bufpos /\ len > 0 THEN NUL
                                     ELSE mem[a]]]
----------------------------------------------------------------------------
(* Reference definitions.                                                  *)

Stripped(text) ==
  LET first == SelectInSeq(text, LAMBDA c : c # " ")
  IN  SubSeq(text, first, SelectLastInSeq(text, LAMBDA c : c # " "))
InBase(text, base) ==
  FoldLeft(LAMBDA v, c : v * base + SelectInSeq(HexDigits, LAMBDA d : d = c) - 1, 0, text)

\* A number printed with any flags and width fills the width, fits the
\* conversion's buffer and, without its padding, reads as the number, sign and
\* prefix first; zeros asked for on the right are the one exception.
NumberExact(flags, width, ch, arg) ==
  LET pf == vprintf(<<"%">> \o flags \o width \o <<ch>>, <<arg>>)
      text == Stripped(pf.out)
      n == pf_getnum(ch, arg)
      prefix == (IF n.sign THEN <<"-">> ELSE <<>>) \o
                (IF "#" \in Range(flags) THEN
                   IF ch = "x" THEN <<"0", "x">> ELSE IF ch = "o" THEN <<"0">> ELSE <<>>
                 ELSE <<>>)
  IN  /\ pf.fits
      /\ Len(pf.out) >= InBase(width, 10)
      /\ Len(pf.out) > InBase(width, 10) => pf.out = prefix \o digits[n.num, pf_setbase(ch)]
      /\ ({"-", "0"} \subseteq Range(flags)) \/
           /\ IsPrefix(prefix, text)
           /\ InBase(SubSeq(text, Len(prefix) + 1, Len(text)), pf_setbase(ch)) = n.num

\* Text around a field is kept; snprintf writes nothing outside its buffer,
\* terminates it and returns the length of the whole; and atoi reads back what
\* %d printed, the most negative number included.
SnprintfExact(mem, buf, len, arg) ==
  LET r == vsnprintf(mem, buf, len, <<"<", "%", "d", "%", "%", ">">>, <<arg>>)
      back == vsnprintf(mem, buf, Cardinality(DOMAIN mem) - buf, <<" ", "%", "2", "d">>, <<arg>>)
      whole == vprintf(<<"<", "%", "d", "%", "%", ">">>, <<arg>>).out
      signed == IF arg >= UINT \div 2 THEN arg - UINT ELSE arg
      padded == vprintf(<<"%", "-", "3", "s", "%", "2", "c", "%", "2", "k">>, <<<<digits[arg, 10]>>, "c">>).out
  IN  /\ r.chars = Len(whole)
      /\ padded = digits[arg, 10] \o [i \in 1..(3 - Len(digits[arg, 10])) |-> " "] \o <<" ", "c", " ", "k">>
      /\ vprintf(<<"%", "s">>, <<NullString>>).out = NullText
      /\ \A a \in DOMAIN mem : a < buf \/ a >= buf + len => r.mem[a] = mem[a]
      /\ len > 0 => IsPrefix(Text(r.mem, buf), whole) /\ strlen(r.mem, buf) = Min({len - 1, Len(whole)})
      /\ atoi(back.mem, buf) = signed
============================================================================

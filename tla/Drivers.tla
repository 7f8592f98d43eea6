------------------------------ MODULE Drivers -------------------------------
(* What the devices compute, one call at a time: vnodes of devices            *)
(* (fs/vfs/device.c), null: (devnull.c), random: (dev/generic/random.c with   *)
(* pseudorand.c or lrandom.c behind it), the argument checks of the disk      *)
(* (lhd.c), the clock (ltimer.c) and the screen (lscreen.c).  How drivers      *)
(* and interrupts interleave is in Lhd, Console and Interrupts.               *)
EXTENDS Libc, UserMem, Integers

CONSTANTS W,             \* off_t and the 32-bit registers wrap at W
          MULTIPLIER, MODULUS,
          LT_SECOND,     \* nanoseconds in a second
          LT_SMALL       \* below it, gettime takes the later seconds

K1 == MODULUS \div MULTIPLIER
K2 == MODULUS % MULTIPLIER
----------------------------------------------------------------------------
(* random: -- a source is its seed; lrandom's next value is an argument.    *)

\* Schrage's step: no intermediate value leaves the word.
pseudorand_random(seed) ==
  LET tmp == MULTIPLIER * (seed % K1) - K2 * (seed \div K1)
  IN  IF tmp <= 0 THEN tmp + MODULUS ELSE tmp

pseudorand_randmax == MODULUS - 2

Bits(val, low) == (val \div 2^low) % 256

\* Three bytes at a time until the caller has all it asked for.
pseudorand_read(um, seed, uio) ==
  LET steps == uio.resid    \* at least one byte each
      after[k \in 0..steps] ==
        IF k = 0 THEN [err |-> OK, um |-> um, uio |-> uio, seed |-> seed]
        ELSE LET b == after[k - 1]
                 s == pseudorand_random(b.seed)
                 r == uiomove(b.um, <<Bits(s - 1, 4), Bits(s - 1, 12), Bits(s - 1, 20)>>, b.uio)
             IN  IF b.err # OK \/ b.uio.resid = 0 THEN b
                 ELSE [err |-> r.err, um |-> r.um, uio |-> r.uio, seed |-> s]
  IN  after[steps]
----------------------------------------------------------------------------
(* Devices: [kind, d_blocks, d_blocksize]; open flags are a set, {} is       *)
(* O_RDONLY.                                                                 *)

nullopen(flags) == OK
randopen(flags) == IF flags # {} THEN "EIO" ELSE OK
d_open(d, flags) == IF d.kind = "random" THEN randopen(flags) ELSE nullopen(flags)

dev_open(d, flags) ==
  IF flags \cap {"O_CREAT", "O_TRUNC", "O_EXCL", "O_APPEND"} # {} THEN "EINVAL" ELSE d_open(d, flags)

\* nullio: writes vanish, reads are at the end of the file.
nullio(uio) ==
  [err |-> OK, uio |-> IF uio.rw = "write" THEN [uio EXCEPT !.resid = 0] ELSE uio]

randio(um, seed, uio) ==
  IF uio.rw # "read" THEN [err |-> "EIO", uio |-> uio]
  ELSE LET r == pseudorand_read(um, seed, uio) IN [err |-> r.err, uio |-> r.uio]

\* lhd_io up to its loop: sector numbers are unsigned words.
lhd_io(d, uio) ==
  LET sector == (uio.offset \div d.d_blocksize) % W
      len == uio.resid \div d.d_blocksize
  IN  IF uio.offset % d.d_blocksize # 0 \/ uio.resid % d.d_blocksize # 0 THEN [err |-> "EINVAL", uio |-> uio]
      ELSE IF (sector + len) % W > d.d_blocks THEN [err |-> "EINVAL", uio |-> uio]
      ELSE [err |-> OK, uio |-> [uio EXCEPT !.resid = 0, !.offset = @ + uio.resid]]

d_io(um, seed, d, uio) ==
  CASE d.kind = "null" -> nullio(uio) [] d.kind = "random" -> randio(um, seed, uio) [] d.kind = "lhd" -> lhd_io(d, uio)

dev_gettype(d) == IF d.d_blocks > 0 THEN "S_IFBLK" ELSE "S_IFCHR"

\* A size of many blocks wraps.
SizeOf(d) == LET size == (d.d_blocks * d.d_blocksize) % W IN IF size >= W \div 2 THEN size - W ELSE size
dev_stat(d) ==
  [st_mode |-> dev_gettype(d), st_nlink |-> 1, st_blocks |-> d.d_blocks,
   st_size |-> IF d.d_blocks > 0 THEN SizeOf(d) ELSE 0]

dev_tryseek_AllowsEnd(d, pos) ==    \* mutant: the block after the last is on the device
  IF d.d_blocks = 0 THEN "ESPIPE"
  ELSE IF pos % d.d_blocksize # 0 \/ pos < 0 \/ pos \div d.d_blocksize > d.d_blocks THEN "EINVAL"
  ELSE OK

dev_tryseek(d, pos) ==
  IF d.d_blocks = 0 THEN "ESPIPE"
  ELSE IF pos % d.d_blocksize # 0 \/ pos < 0 \/ pos \div d.d_blocksize >= d.d_blocks THEN "EINVAL"
  ELSE OK

dev_truncate(d, len) == IF d.d_blocks > 0 /\ SizeOf(d) = len THEN OK ELSE "EINVAL"

\* The operations that ignore their arguments.
dev_vop(op) ==
  CASE op \in {"close", "reclaim", "fsync", "namefile"} -> OK
    [] op \in {"readlink", "getdirentry"} -> "EINVAL"
    [] op = "mmap" -> "EUNIMP"
    [] op \in {"creat", "symlink", "mkdir", "link", "remove", "rmdir", "rename", "lookparent"} -> "ENOTDIR"

dev_lookup(pathname) == IF Len(pathname) > 0 THEN "ENOENT" ELSE OK
----------------------------------------------------------------------------
(* The clock: its registers are read at times t1 <= t2 <= t3.               *)

ltimer_gettime_EarlierSecond(t1, t2, t3) ==    \* mutant: the seconds of the first read
  [secs |-> t1 \div LT_SECOND, nsecs |-> t2 % LT_SECOND]

ltimer_gettime(t1, t2, t3) ==
  [secs |-> IF t2 % LT_SECOND < LT_SMALL THEN t3 \div LT_SECOND ELSE t1 \div LT_SECOND,
   nsecs |-> t2 % LT_SECOND]
----------------------------------------------------------------------------
(* The screen: [w, h, cx, cy, mem], a blank is NUL.                        *)

lscreen_newline(sc) ==
  IF sc.cy >= sc.h - 1
  THEN [sc EXCEPT !.cx = 0,
                  !.mem = bzero(memmove(sc.mem, 0, sc.w, sc.w * (sc.h - 1)), sc.w * (sc.h - 1), sc.w)]
  ELSE [sc EXCEPT !.cx = 0, !.cy = @ + 1]

lscreen_char(sc, ch) ==
  LET s == IF sc.cx >= sc.w THEN lscreen_newline(sc) ELSE sc
  IN  [s EXCEPT !.mem = [a \in DOMAIN s.mem |-> IF a = s.cy * s.w + s.cx THEN ch ELSE s.mem[a]], !.cx = @ + 1]

lscreen_write(sc, ch) == IF ch = "\n" THEN lscreen_newline(sc) ELSE lscreen_char(sc, ch)
Cursor(sc) == [x |-> IF sc.cx = sc.w THEN sc.cx - 1 ELSE sc.cx, y |-> sc.cy]

config_lscreen(w, h) == [w |-> w, h |-> h, cx |-> 0, cy |-> 0, mem |-> [a \in 0..(w * h - 1) |-> NUL]]
----------------------------------------------------------------------------
(* What they should compute.                                               *)

\* The generator multiplies modulo MODULUS, stays in its range, and its
\* products and differences fit in the signed word; a read fills the buffer.
RandomExact(um, seed, uio) ==
  LET next == pseudorand_random(seed)
      r == randio(um, seed, uio)
  IN  /\ next = (MULTIPLIER * seed) % MODULUS
      /\ next \in 1..(pseudorand_randmax + 1)
      /\ MULTIPLIER * (seed % K1) < MODULUS /\ K2 * (seed \div K1) < MODULUS
      /\ r.err \in {OK, EFAULT}
      /\ r.err = OK => r.uio.resid = 0 /\ r.uio.offset = uio.offset + uio.resid

\* A seek is allowed exactly to where a block can be read; a request at such a
\* position is accepted exactly when all its blocks are on the disk; the only
\* size that a device can be truncated to is the one that stat reports; null:
\* takes every write and gives no data; random: opens for reading only; the one
\* name in a device is the empty one.
DeviceExact(d, pos, n, rw) ==
  LET uio == [mk_kuio(n, pos, rw) EXCEPT !.offset = pos]
      block == mk_kuio(d.d_blocksize, pos, "read")
      Whole(x) == x % d.d_blocksize = 0
  IN  /\ d.kind = "lhd" /\ pos >= 0 =>
           /\ (dev_tryseek(d, pos) = OK) <=> (lhd_io(d, block).err = OK)
           /\ (lhd_io(d, uio).err = OK) <=> (Whole(pos) /\ Whole(n) /\ pos + n <= d.d_blocks * d.d_blocksize)
      /\ d.kind = "lhd" /\ pos < 0 => dev_tryseek(d, pos) # OK
      /\ (dev_truncate(d, pos) = OK) <=> (dev_gettype(d) = "S_IFBLK" /\ dev_stat(d).st_size = pos)
      /\ d.kind = "null" => /\ nullio(uio).uio.resid = (IF rw = "write" THEN 0 ELSE n)
                            /\ dev_open(d, {}) = OK /\ dev_tryseek(d, pos) = "ESPIPE"
      /\ d.kind = "random" =>
           \A flags \in SUBSET {"O_WRONLY", "O_APPEND"} : (dev_open(d, flags) = OK) <=> (flags = {})
      /\ \A op \in {"creat", "mkdir", "link", "rename", "lookparent"} : dev_vop(op) # OK
      /\ dev_lookup(<<>>) = OK

\* When the three reads are close together the time is that of the middle one.
ClockExact(t1, t2, t3) ==
  LET r == ltimer_gettime(t1, t2, t3)
  IN  t2 - t1 <= LT_SMALL /\ t3 - t2 <= LT_SECOND - LT_SMALL => r.secs * LT_SECOND + r.nsecs = t2

\* The rows that a text fills, a full row ending when the next character comes.
RowsOf(text, w) ==
  FoldLeft(LAMBDA rows, ch : IF ch = "\n" THEN Append(rows, <<>>)
                             ELSE IF Len(Last(rows)) = w THEN Append(rows, <<ch>>)
                             ELSE Append(Front(rows), Append(Last(rows), ch)), <<<<>>>>, text)
\* The screen shows the last rows of all that was written, and the cursor is on
\* the screen, where the next character will be unless the row is full.
ScreenExact(text, w, h) ==
  LET sc == FoldLeft(lscreen_write, config_lscreen(w, h), text)
      rows == RowsOf(text, w)
      top == IF Len(rows) > h THEN Len(rows) - h ELSE 0
      Shown(x, y) == IF top + y + 1 > Len(rows) \/ x + 1 > Len(rows[top + y + 1]) THEN NUL ELSE rows[top + y + 1][x + 1]
  IN  /\ \A x \in 0..(w - 1), y \in 0..(h - 1) : sc.mem[y * w + x] = Shown(x, y)
      /\ Cursor(sc).x \in 0..(w - 1) /\ Cursor(sc).y = Len(rows) - 1 - top
      /\ Len(Last(rows)) < w => Cursor(sc).x = Len(Last(rows))
============================================================================

--------------------------- MODULE LogRing_proofs ----------------------------
(***************************************************************************)
(* The ring of printk.c, for any length of it, any alignment and any       *)
(* messages: the way log_next() takes through it, what its readers were    *)
(* given, and how much of their buffers they used.                         *)
(*                                                                         *)
(* Two histories, which no step changes but log_store() adds to, carry the *)
(* argument: g, where every record ever stored was to begin, and t, how    *)
(* long the lines of all records before it are together.                   *)
(***************************************************************************)
EXTENDS LogRing, FiniteSetTheorems, SequenceTheorems, WellFoundedInduction, TLAPS

Cursors == [seq : Nat, idx : Nat]
Byte == Int \X Nat
Record == {r \in [texts : Seq(Nat), len : 0 .. LineMax, breaks : SUBSET (1 .. LineMax),
                   size : Nat, who : Nat, newline : BOOLEAN] : r.breaks \subseteq 1 .. r.len}

LogTyped(l) ==
  /\ l \in [len : {BufLen, BigLen},
            mem : [0 .. BufLen - 1 -> Byte] \cup [0 .. BigLen - 1 -> Byte],
            first : Cursors, next : Cursors, clear : Cursors, stored : Seq(Record)]
  /\ l.mem \in [0 .. l.len - 1 -> Byte]
  /\ l.first.seq <= l.clear.seq /\ l.clear.seq <= l.next.seq
  /\ l.next.seq = Len(l.stored)

(* Record n is where its cursor says, whole, and the next one follows it. *)
Whole(l, g, n) ==
  LET p == From(l, g[n])
      size == l.stored[n + 1].size
  IN  /\ size > 0
      /\ g[n + 1] = p + size
      /\ \A k \in 0 .. size - 1 : p + k < l.len /\ l.mem[p + k] = <<n, k>>

(* Going round the ring from a, one comes to b before c. *)
Turn(a, b, c) == (a < b /\ b < c) \/ (b < c /\ c < a) \/ (c < a /\ a < b)

InTurn(l, g) ==
  \A a, b \in l.first.seq .. l.next.seq : a < b =>
    /\ g[a] # g[b]
    /\ \A c \in l.first.seq .. l.next.seq : b < c => Turn(g[a], g[b], g[c])

OnWay(g, c) == c.seq \in DOMAIN g /\ c = Cursor(c.seq, g[c.seq])

Laid(l, g) ==
  /\ g \in [0 .. l.next.seq -> Nat] /\ g[0] = 0
  /\ OnWay(g, l.first) /\ OnWay(g, l.next) /\ OnWay(g, l.clear)
  /\ \A n \in l.first.seq .. l.next.seq : g[n] + HdrLen <= l.len
  /\ \A n \in l.first.seq .. l.next.seq - 1 : Whole(l, g, n)
  /\ InTurn(l, g)

(* How long its lines are, and as much of them as is printed. *)
LineOf(l, n, time) == LineSize(l.stored[n + 1], time)
TextOf(l, n, time) == TextSize(l.stored[n + 1], time)

Summed(l, t) ==
  /\ t \in [BOOLEAN -> [0 .. l.next.seq -> Nat]]
  /\ \A time \in BOOLEAN, n \in 0 .. l.next.seq - 1 :
       t[time][n + 1] = t[time][n] + LineOf(l, n, time)

Carried(l, g, t) == LogTyped(l) /\ Laid(l, g) /\ Summed(l, t)

-----------------------------------------------------------------------------
(* The readers.                                                            *)

Pieces == [seq : Int, rec : Int, from : Nat, n : Int, of : Nat, left : Nat]

Readers == [kind : {"devkmsg", "syslog", "all", "lines", "blocks"},
            cur : Cursors, start : Nat, stop : Nat, end : Nat, partial : Nat,
            time : BOOLEAN, size : Nat, len : Int, clear : BOOLEAN, held : Pieces]

Line == {c \in [texts : Seq(Nat), len : 0 .. LineMax, breaks : SUBSET (1 .. LineMax),
                 who : Nat, newline : BOOLEAN] : c.breaks \subseteq 1 .. c.len}

Typed ==
  /\ cont \in Line /\ said \in Seq(Messages) /\ timeset \in Nat
  /\ reader = Closed \/ reader \in Readers
  /\ last \in Pieces
  /\ given \subseteq Nat /\ lost \subseteq Nat

(* What is being copied to the caller of syslog_print_all() is a whole line *)
(* of a record it went past; nobody else holds one.                        *)
Holding ==
  IF reader.kind = "all" /\ reader.size > 0
  THEN /\ reader.held.from = 0 /\ reader.held.n = reader.held.of
       /\ reader.held.rec = reader.held.seq
       /\ reader.held.seq \in Nat /\ reader.held.seq < reader.cur.seq
  ELSE reader.held = NoPiece

(* Its buffer has room for what it holds and what it still wants.          *)
Room(t) ==
  reader.kind = "all" /\ reader.size > 0 =>
    reader.len + reader.held.n
      + (IF reader.cur.seq < reader.stop
         THEN t[reader.time][reader.stop] - t[reader.time][reader.cur.seq] ELSE 0)
    <= reader.size

ReaderOk(g, t) ==
  /\ OnWay(g, reader.cur)
  /\ reader.stop <= log.next.seq
  /\ Holding
  /\ Room(t)

(* Where a line that syslog_print() has begun goes on. *)
Begun ==
  IF reader.partial = 0 THEN last.seq < reader.cur.seq
  ELSE /\ last.seq <= reader.cur.seq /\ reader.cur.seq < log.next.seq
       /\ reader.kind = "syslog"
       /\ reader.partial < TextOf(log, reader.cur.seq, reader.time)
       /\ \/ /\ last.seq = reader.cur.seq /\ last.from + last.n = reader.partial
             /\ last.of = TextOf(log, reader.cur.seq, reader.time)
          \/ reader.cur.seq \in lost

InOrder ==
  IF reader = Closed \/ reader.kind = "blocks" THEN last = NoPiece
  ELSE IF reader.kind = "all"
  THEN reader.size > 0 => last.seq < reader.held.seq
  ELSE Begun

(* The inductive invariant.                                                *)
Reading(g, t) ==
  /\ Carried(log, g, t)
  /\ Typed
  /\ reader # Closed => ReaderOk(g, t)
  /\ AllAccounted
  /\ InOrder

LogInv == \E g, t : Reading(g, t)

(* What ReadInOrder says of a step. *)
Ordered ==
  last' # NoPiece =>
    /\ last'.rec = last'.seq /\ last'.from + last'.n <= last'.of
    /\ \/ last'.seq > last.seq /\ last'.from = 0
       \/ last'.seq = last.seq /\ last'.from = last.from + last.n /\ last'.of = last.of
       \/ last'.seq \in lost

-----------------------------------------------------------------------------
(* Numbers.                                                                *)

LEMMA Sizes1 ==
  /\ HdrLen \in Nat \ {0} /\ LogAlign \in Nat \ {0} /\ LineMax \in Nat \ {0}
  /\ TimeLen \in Nat \ {0} /\ BufLen \in Nat \ {0} /\ BigLen \in Nat \ {0}
  /\ BufLen <= BigLen
  /\ 2 * (RoundUp(HdrLen + LineMax) + HdrLen) <= BufLen
  /\ PrefixMax \in Nat /\ TimeLen + 2 < PrefixMax
  /\ Messages \subseteq [who : Nat, len : 0 .. LineMax, breaks : SUBSET (1 .. LineMax),
                          newline : BOOLEAN, cont : BOOLEAN]
  /\ \A m \in Messages : m.breaks \subseteq 1 .. m.len
  BY LogAssumption

LEMMA DivFloor ==
  ASSUME NEW n \in Nat, NEW a \in Nat \ {0}
  PROVE  n \div a \in Nat /\ (n \div a) * a <= n /\ n < (n \div a) * a + a
  OBVIOUS

LEMMA TimesMonotone ==
  ASSUME NEW i \in Nat, NEW j \in Nat, NEW a \in Nat, i <= j
  PROVE  i * a <= j * a
  OBVIOUS

(* Rounding up adds, and keeps the order.                                  *)
LEMMA RoundUpAdds ==
  ASSUME NEW n \in Nat
  PROVE  RoundUp(n) \in Nat /\ n <= RoundUp(n)
  <1> DEFINE q == (n + LogAlign - 1) \div LogAlign
  <1>1. LogAlign \in Nat \ {0} BY Sizes1
  <1>2. n + LogAlign - 1 \in Nat BY <1>1
  <1>3. q \in Nat /\ n + LogAlign - 1 < q * LogAlign + LogAlign
    BY <1>1, <1>2, DivFloor
  <1>4. RoundUp(n) = q * LogAlign BY DEF RoundUp
  <1>5. q * LogAlign \in Nat BY <1>1, <1>3
  <1> HIDE DEF q
  <1> QED BY <1>1, <1>3, <1>4, <1>5

LEMMA RoundUpMonotone ==
  ASSUME NEW m \in Nat, NEW n \in Nat, m <= n
  PROVE  RoundUp(m) <= RoundUp(n)
  <1> DEFINE a == m + LogAlign - 1
             b == n + LogAlign - 1
             i == a \div LogAlign
             j == b \div LogAlign
  <1>1. LogAlign \in Nat \ {0} BY Sizes1
  <1>2. a \in Nat /\ b \in Nat /\ a <= b BY <1>1
  <1> HIDE DEF a, b
  <1>3. i \in Nat /\ i * LogAlign <= a BY <1>1, <1>2, DivFloor
  <1>4. j \in Nat /\ b < j * LogAlign + LogAlign BY <1>1, <1>2, DivFloor
  <1>5. RoundUp(m) = i * LogAlign /\ RoundUp(n) = j * LogAlign BY DEF RoundUp, a, b
  <1> HIDE DEF i, j
  <1>6. i <= j
    <2> SUFFICES ASSUME j + 1 <= i PROVE FALSE
      BY <1>3, <1>4
    <2>1. (j + 1) * LogAlign <= i * LogAlign BY <1>1, <1>3, <1>4, TimesMonotone
    <2>2. (j + 1) * LogAlign = j * LogAlign + LogAlign BY <1>1, <1>4
    <2>3. i * LogAlign \in Nat /\ j * LogAlign \in Nat BY <1>1, <1>3, <1>4
    <2> QED BY <1>1, <1>2, <1>3, <1>4, <2>1, <2>2, <2>3
  <1> QED BY <1>1, <1>3, <1>4, <1>5, <1>6, TimesMonotone

(* What a record of a message takes.                                       *)
LEMMA RecordSize ==
  ASSUME NEW len \in 0 .. LineMax
  PROVE  LET size == RoundUp(HdrLen + len)
         IN  /\ size \in Nat /\ size > 0 /\ size > len
             /\ 2 * (size + HdrLen) <= BufLen
  <1>1. HdrLen + len \in Nat /\ HdrLen + LineMax \in Nat /\ HdrLen + len <= HdrLen + LineMax
    BY Sizes1
  <1>2. RoundUp(HdrLen + len) \in Nat /\ HdrLen + len <= RoundUp(HdrLen + len)
    BY <1>1, RoundUpAdds
  <1>3. RoundUp(HdrLen + LineMax) \in Nat BY <1>1, RoundUpAdds
  <1>4. RoundUp(HdrLen + len) <= RoundUp(HdrLen + LineMax) BY <1>1, RoundUpMonotone
  <1> HIDE DEF RoundUp
  <1> QED BY <1>1, <1>2, <1>3, <1>4, Sizes1

(* The larger of two numbers, and the least element of a set of numbers.   *)
LEMMA MaxOfTwo ==
  ASSUME NEW a \in Int, NEW b \in Int
  PROVE  Max({a, b}) = IF a >= b THEN a ELSE b
  <1>1. \E x \in {a, b} : \A y \in {a, b} : x >= y OBVIOUS
  <1>2. Max({a, b}) \in {a, b} /\ \A y \in {a, b} : Max({a, b}) >= y
    BY <1>1 DEF Max
  <1> QED BY <1>2

LEMMA MinOfSet ==
  ASSUME NEW S \in SUBSET Nat, S # {}
  PROVE  Min(S) \in S /\ \A y \in S : Min(S) <= y
  <1>1. \E x \in S : \A y \in S : ~(<<y, x>> \in OpToRel(<, Nat))
    BY NatLessThanWellFounded, WFMin
  <1>2. PICK x \in S : \A y \in S : ~(<<y, x>> \in OpToRel(<, Nat)) BY <1>1
  <1>3. ASSUME NEW y \in S PROVE x <= y
    <2>1. x \in Nat /\ y \in Nat OBVIOUS
    <2>2. ~(y < x) BY <1>2, <2>1 DEF OpToRel
    <2> QED BY <2>1, <2>2
  <1>4. \E z \in S : \A y \in S : z =< y BY <1>3
  <1> QED BY <1>4 DEF Min

(* What holds at the beginning of a stretch of numbers, and at each of     *)
(* them if at the one before, holds of all: S is the set where it holds.   *)
LEMMA Stretch ==
  ASSUME NEW a \in Nat, NEW b \in Nat, NEW S, a \in S,
         \A n \in a .. b - 1 : n \in S => n + 1 \in S
  PROVE  a .. b \subseteq S
  <1> DEFINE R == (a .. b) \ S
  <1> SUFFICES ASSUME R # {} PROVE FALSE OBVIOUS
  <1>1. R \in SUBSET Nat OBVIOUS
  <1> DEFINE m == Min(R)
  <1>2. m \in R /\ \A y \in R : m <= y BY <1>1, MinOfSet
  <1>3. m \in Nat /\ a < m /\ m <= b /\ m \notin S BY <1>2
  <1> HIDE DEF m
  <1>4. m - 1 \in a .. b - 1 /\ m - 1 \notin R BY <1>2, <1>3
  <1>5. m - 1 \in S BY <1>4
  <1>6. (m - 1) + 1 \in S BY <1>4, <1>5
  <1> QED BY <1>3, <1>6

-----------------------------------------------------------------------------
(* The way through the ring.                                               *)

LEMMA LaidIs ==
  ASSUME NEW l, NEW g, LogTyped(l), Laid(l, g)
  PROVE  /\ l.first.seq \in Nat /\ l.clear.seq \in Nat /\ l.next.seq \in Nat
         /\ l.first.seq <= l.clear.seq /\ l.clear.seq <= l.next.seq
         /\ l.first = Cursor(l.first.seq, g[l.first.seq])
         /\ l.clear = Cursor(l.clear.seq, g[l.clear.seq])
         /\ l.next = Cursor(l.next.seq, g[l.next.seq])
         /\ l.next.seq = Len(l.stored)
         /\ g \in [0 .. l.next.seq -> Nat]
         /\ l.len \in Nat /\ BufLen <= l.len /\ l.mem \in [0 .. l.len - 1 -> Byte]
         /\ \A n \in 0 .. l.next.seq - 1 : l.stored[n + 1] \in Record
  <1>1. l.first \in Cursors /\ l.next \in Cursors /\ l.clear \in Cursors /\ l.stored \in Seq(Record)
    BY DEF LogTyped
  <1>2. l.len \in {BufLen, BigLen} /\ l.mem \in [0 .. l.len - 1 -> Byte]
    BY DEF LogTyped
  <1>3. l.first.seq \in Nat /\ l.clear.seq \in Nat /\ l.next.seq \in Nat
    BY <1>1 DEF Cursors
  <1>4. l.next.seq = Len(l.stored) /\ l.first.seq <= l.clear.seq /\ l.clear.seq <= l.next.seq
    BY DEF LogTyped
  <1>5. \A n \in 0 .. l.next.seq - 1 : l.stored[n + 1] \in Record
    BY <1>1, <1>3, <1>4
  <1>6. l.len \in Nat /\ BufLen <= l.len BY <1>2, Sizes1
  <1>7. g \in [0 .. l.next.seq -> Nat] /\ OnWay(g, l.first) /\ OnWay(g, l.next) /\ OnWay(g, l.clear)
    BY DEF Laid
  <1> QED BY <1>2, <1>3, <1>4, <1>5, <1>6, <1>7 DEF OnWay

LEMMA RecordAtIs ==
  ASSUME NEW l, NEW g, LogTyped(l), Laid(l, g),
         NEW n \in l.first.seq .. l.next.seq - 1
  PROVE  RecordAt(l, g[n]) = n
  <1>1. Whole(l, g, n) BY DEF Laid
  <1>2. n \in Nat /\ l.stored[n + 1] \in Record BY LaidIs
  <1>3. l.stored[n + 1].size \in Nat BY <1>2 DEF Record
  <1>4. 0 \in 0 .. l.stored[n + 1].size - 1 BY <1>1, <1>3 DEF Whole
  <1>5. From(l, g[n]) \in Nat
    <2>1. g \in [0 .. l.next.seq -> Nat] /\ l.first.seq \in Nat /\ l.next.seq \in Nat BY LaidIs
    <2>2. g[n] \in Nat BY <2>1
    <2> QED BY <2>2 DEF From
  <1>6. l.mem[From(l, g[n]) + 0] = <<n, 0>> BY <1>1, <1>4 DEF Whole
  <1>7. From(l, g[n]) + 0 = From(l, g[n]) BY <1>5
  <1> QED BY <1>6, <1>7 DEF RecordAt

LEMMA FollowingIs ==
  ASSUME NEW l, NEW g, LogTyped(l), Laid(l, g),
         NEW n \in l.first.seq .. l.next.seq - 1
  PROVE  Following(l, Cursor(n, g[n])) = Cursor(n + 1, g[n + 1])
  <1>1. Whole(l, g, n) BY DEF Laid
  <1>2. RecordAt(l, g[n]) = n BY RecordAtIs
  <1>3. g[n + 1] = From(l, g[n]) + l.stored[n + 1].size BY <1>1 DEF Whole
  <1> QED BY <1>2, <1>3 DEF Following, Cursor

(* A function that answers the equation of Walk(), and so does Walk().     *)
Way(l, c, seq, f) ==
  f = [n \in c.seq .. seq |-> IF n = c.seq THEN c ELSE Following(l, f[n - 1])]

LEMMA WalkIsWay ==
  ASSUME NEW l, NEW c, NEW seq, NEW f, Way(l, c, seq, f)
  PROVE  Way(l, c, seq, Walk(l, c, seq))
  BY Zenon DEF Walk, Way

LEMMA WalkIs ==
  ASSUME NEW l, NEW g, LogTyped(l), Laid(l, g),
         NEW a \in l.first.seq .. l.next.seq, NEW b \in a .. l.next.seq
  PROVE  Walk(l, Cursor(a, g[a]), b) = [n \in a .. b |-> Cursor(n, g[n])]
  <1> DEFINE c == Cursor(a, g[a])
             f == [n \in a .. b |-> Cursor(n, g[n])]
             w == Walk(l, c, b)
  <1>1. a \in Nat /\ b \in Nat /\ a <= b /\ l.first.seq \in Nat /\ l.next.seq \in Nat
        /\ l.first.seq <= a /\ b <= l.next.seq
    BY LaidIs
  <1>2. c.seq = a BY DEF Cursor
  <1>3. \A n \in a .. b : n # a => Following(l, f[n - 1]) = Cursor(n, g[n])
    <2> SUFFICES ASSUME NEW n \in a .. b, n # a
                 PROVE  Following(l, f[n - 1]) = Cursor(n, g[n])
      OBVIOUS
    <2>1. n - 1 \in l.first.seq .. l.next.seq - 1 /\ n - 1 \in a .. b BY <1>1
    <2>2. f[n - 1] = Cursor(n - 1, g[n - 1]) BY <2>1
    <2>3. (n - 1) + 1 = n BY <1>1
    <2> QED BY <2>1, <2>2, <2>3, FollowingIs
  <1>4. Way(l, c, b, f)
    <2>1. \A n \in a .. b : f[n] = IF n = c.seq THEN c ELSE Following(l, f[n - 1])
      BY <1>2, <1>3
    <2> QED BY <1>2, <2>1 DEF Way
  <1>5. Way(l, c, b, w) BY <1>4, WalkIsWay
  <1> HIDE DEF w, c
  <1>6. w = [n \in a .. b |-> IF n = a THEN c ELSE Following(l, w[n - 1])]
    BY <1>2, <1>5 DEF Way
  <1> DEFINE S == {n \in a .. b : w[n] = f[n]}
  <1>7. a \in S BY <1>1, <1>6 DEF c
  <1>8. \A n \in a .. b - 1 : n \in S => n + 1 \in S
    <2> SUFFICES ASSUME NEW n \in a .. b - 1, n \in S PROVE n + 1 \in S
      OBVIOUS
    <2>1. n + 1 \in a .. b /\ n + 1 # a /\ (n + 1) - 1 = n /\ n \in a .. b BY <1>1
    <2>2. w[n + 1] = Following(l, w[n]) BY <1>6, <2>1
    <2>3. Following(l, f[n]) = Cursor(n + 1, g[n + 1]) BY <1>3, <2>1
    <2> QED BY <2>1, <2>2, <2>3
  <1> HIDE DEF S
  <1>9. a .. b \subseteq S BY <1>1, <1>7, <1>8, Stretch
  <1>10. \A n \in a .. b : w[n] = f[n] BY <1>9 DEF S
  <1>11. w = f BY <1>6, <1>10
  <1> QED BY <1>11 DEF w, c

-----------------------------------------------------------------------------
(* Making room.                                                            *)

(* log_make_free_space() lays nothing out anew: it moves the first record  *)
(* and the position of the last clear on, until the ring is empty or a     *)
(* record of that size finds room.                                         *)
Roomy(l, size) == l.first.seq = l.next.seq \/ HasSpace(l, l.first, size, FALSE)

(* What stays of a log when records are dropped or the log is cleared.     *)
Later(l, m) ==
  /\ m = [l EXCEPT !.first = m.first, !.clear = m.clear]
  /\ l.first.seq <= m.first.seq /\ l.clear.seq <= m.clear.seq

LEMMA DroppedIsLaid ==
  ASSUME NEW l, NEW g, LogTyped(l), Laid(l, g),
         NEW a \in l.first.seq .. l.next.seq, NEW b \in a .. l.next.seq
  PROVE  LET m == [l EXCEPT !.first = Cursor(a, g[a]), !.clear = Cursor(b, g[b])]
         IN  LogTyped(m) /\ Laid(m, g)
  <1> DEFINE m == [l EXCEPT !.first = Cursor(a, g[a]), !.clear = Cursor(b, g[b])]
  <1>1. /\ a \in Nat /\ b \in Nat /\ a <= b /\ b <= l.next.seq
        /\ l.first.seq \in Nat /\ l.next.seq \in Nat /\ l.first.seq <= a
        /\ g \in [0 .. l.next.seq -> Nat]
    BY LaidIs
  <1>2. g[a] \in Nat /\ g[b] \in Nat BY <1>1
  <1>3. Cursor(a, g[a]) \in Cursors /\ Cursor(b, g[b]) \in Cursors
    BY <1>1, <1>2 DEF Cursor, Cursors
  <1>4. /\ m.len = l.len /\ m.mem = l.mem /\ m.next = l.next /\ m.stored = l.stored
        /\ m.first = Cursor(a, g[a]) /\ m.clear = Cursor(b, g[b])
    BY DEF LogTyped
  <1>5. m.first.seq = a /\ m.clear.seq = b BY <1>4 DEF Cursor
  <1>6. LogTyped(m)
    <2>1. m \in [len : {BufLen, BigLen},
                 mem : [0 .. BufLen - 1 -> Byte] \cup [0 .. BigLen - 1 -> Byte],
                 first : Cursors, next : Cursors, clear : Cursors, stored : Seq(Record)]
      BY <1>3 DEF LogTyped
    <2>2. m.mem \in [0 .. m.len - 1 -> Byte] /\ m.next.seq = Len(m.stored)
      BY <1>4 DEF LogTyped
    <2> HIDE DEF m
    <2> QED BY <1>1, <1>5, <1>4, <2>1, <2>2 DEF LogTyped
  <1> HIDE DEF m
  <1>7. OnWay(g, m.first) /\ OnWay(g, m.clear) /\ OnWay(g, m.next)
    <2>1. a \in DOMAIN g /\ b \in DOMAIN g BY <1>1
    <2>2. OnWay(g, l.next) BY DEF Laid
    <2> QED BY <1>4, <1>5, <2>1, <2>2 DEF OnWay
  <1>8. \A n \in a .. l.next.seq : n \in l.first.seq .. l.next.seq BY <1>1
  <1>9. \A n \in a .. l.next.seq - 1 : n \in l.first.seq .. l.next.seq - 1 BY <1>1
  <1>10. \A n \in m.first.seq .. m.next.seq : g[n] + HdrLen <= m.len
    BY <1>4, <1>5, <1>8 DEF Laid
  <1>11. \A n \in m.first.seq .. m.next.seq - 1 : Whole(m, g, n)
    <2>1. \A n \in a .. l.next.seq - 1 : Whole(l, g, n) BY <1>9 DEF Laid
    <2> QED BY <1>4, <1>5, <2>1 DEF Whole, From
  <1>12. InTurn(m, g)
    <2>1. InTurn(l, g) BY DEF Laid
    <2> QED BY <1>4, <1>5, <1>8, <2>1 DEF InTurn
  <1>13. g \in [0 .. m.next.seq -> Nat] /\ g[0] = 0 BY <1>1, <1>4 DEF Laid
  <1>14. Laid(m, g) BY <1>7, <1>10, <1>11, <1>12, <1>13 DEF Laid
  <1> QED BY <1>6, <1>14 DEF m

LEMMA MakeRoomIs ==
  ASSUME NEW l, NEW g, LogTyped(l), Laid(l, g), NEW size \in Nat
  PROVE  LET m == MakeRoom(l, size)
         IN  LogTyped(m) /\ Laid(m, g) /\ Later(l, m) /\ Roomy(m, size)
  <1> DEFINE at == Walk(l, l.first, l.next.seq)
             F == l.first.seq
             N == l.next.seq
             S == {k \in F .. N : k = N \/ HasSpace(l, at[k], size, FALSE)}
             n == Min(S)
             b == IF l.clear.seq < n THEN n ELSE l.clear.seq
             m == [l EXCEPT !.first = at[n], !.clear = IF @.seq < n THEN at[n] ELSE @]
  <1>1. /\ F \in Nat /\ N \in Nat /\ F <= N /\ g \in [0 .. N -> Nat]
        /\ l.clear.seq \in Nat /\ F <= l.clear.seq /\ l.clear.seq <= N
        /\ l.first = Cursor(F, g[F]) /\ l.clear = Cursor(l.clear.seq, g[l.clear.seq])
    BY LaidIs
  <1>2. at = [k \in F .. N |-> Cursor(k, g[k])]
    <2>1. F \in F .. N /\ N \in F .. N BY <1>1
    <2>2. Walk(l, Cursor(F, g[F]), N) = [k \in F .. N |-> Cursor(k, g[k])] BY <2>1, WalkIs
    <2> QED BY <1>1, <2>2
  <1>3. MakeRoom(l, size) = m BY DEF MakeRoom
  <1> HIDE DEF at
  <1>4. S \in SUBSET Nat /\ N \in S
    <2>1. F .. N \in SUBSET Nat /\ N \in F .. N BY <1>1
    <2> HIDE DEF N, F
    <2> QED BY <2>1
  <1>5. n \in S BY <1>4, MinOfSet
  <1>6. n \in F .. N /\ (n = N \/ HasSpace(l, at[n], size, FALSE)) BY <1>5
  <1> HIDE DEF n
  <1>7. n \in Nat /\ F <= n /\ n <= N /\ at[n] = Cursor(n, g[n]) BY <1>1, <1>2, <1>6
  <1>8. b \in n .. N BY <1>1, <1>7
  <1>9. m = [l EXCEPT !.first = Cursor(n, g[n]), !.clear = Cursor(b, g[b])]
    BY <1>1, <1>7
  <1> HIDE DEF m, b
  <1>10. LogTyped(m) /\ Laid(m, g) BY <1>6, <1>8, <1>9, DroppedIsLaid
  <1>11. /\ m.first = Cursor(n, g[n]) /\ m.clear = Cursor(b, g[b]) /\ m.next = l.next
         /\ m.len = l.len
    BY <1>9 DEF LogTyped
  <1>12. m.first.seq = n /\ m.clear.seq = b BY <1>11 DEF Cursor
  <1>13. m = [l EXCEPT !.first = m.first, !.clear = m.clear] BY <1>9, <1>11
  <1> HIDE DEF m
  <1>14. Later(l, m)
    <2>1. l.clear.seq <= b BY <1>1, <1>7 DEF b
    <2> QED BY <1>7, <1>12, <1>13, <2>1 DEF Later
  <1>15. Roomy(m, size)
    <2>1. CASE n = N BY <1>11, <1>12, <2>1 DEF Roomy
    <2>2. CASE HasSpace(l, Cursor(n, g[n]), size, FALSE)
      BY <1>11, <2>2 DEF Roomy, HasSpace
    <2> QED BY <1>6, <1>7, <2>1, <2>2
  <1> QED BY <1>3, <1>10, <1>14, <1>15

-----------------------------------------------------------------------------
(* Where the records are that the ring still has.                          *)

LEMMA StepIs ==
  ASSUME NEW l, NEW g, LogTyped(l), Laid(l, g),
         NEW n \in l.first.seq .. l.next.seq - 1
  PROVE  /\ From(l, g[n]) \in Nat /\ l.stored[n + 1].size \in Nat \ {0}
         /\ g[n + 1] = From(l, g[n]) + l.stored[n + 1].size
         /\ \/ From(l, g[n]) = g[n]
            \/ From(l, g[n]) = 0 /\ g[n + 1] < g[n]
  <1> DEFINE p == From(l, g[n])
             s == l.stored[n + 1].size
  <1>1. /\ l.first.seq \in Nat /\ l.next.seq \in Nat /\ g \in [0 .. l.next.seq -> Nat]
        /\ l.stored[n + 1] \in Record
    BY LaidIs
  <1>2. n \in Nat /\ g[n] \in Nat /\ g[n + 1] \in Nat /\ s \in Nat
    <2>1. s \in Nat BY <1>1 DEF Record
    <2>2. n \in 0 .. l.next.seq /\ n + 1 \in 0 .. l.next.seq BY <1>1
    <2> QED BY <1>1, <2>1, <2>2
  <1>3. p \in Nat /\ (p = g[n] \/ (p = 0 /\ l.mem[g[n]] = Zero)) BY <1>2 DEF From
  <1>4. Whole(l, g, n) BY DEF Laid
  <1>5. s > 0 /\ g[n + 1] = p + s BY <1>4 DEF Whole
  <1>6. ASSUME p = 0, l.mem[g[n]] = Zero, ~(g[n + 1] < g[n]) PROVE FALSE
    <2>1. InTurn(l, g) BY DEF Laid
    <2>2. n \in l.first.seq .. l.next.seq /\ n + 1 \in l.first.seq .. l.next.seq /\ n < n + 1
      BY <1>1
    <2>3. g[n] # g[n + 1] BY <2>1, <2>2 DEF InTurn
    <2>4. g[n] \in 0 .. s - 1 BY <1>2, <1>5, <1>6, <2>3
    <2>5. l.mem[p + g[n]] = <<n, g[n]>> BY <1>4, <2>4 DEF Whole
    <2>6. p + g[n] = g[n] BY <1>2, <1>6
    <2>7. <<n, g[n]>> = Zero BY <1>6, <2>5, <2>6
    <2> QED BY <1>2, <2>7 DEF Zero
  <1> QED BY <1>2, <1>3, <1>5, <1>6

(* Between the first record and the next one to come, going round, there   *)
(* is nothing but records; the rest of the ring is free.                   *)
LEMMA LiveIs ==
  ASSUME NEW l, NEW g, LogTyped(l), Laid(l, g),
         NEW n \in l.first.seq .. l.next.seq - 1
  PROVE  LET p == From(l, g[n])
             s == l.stored[n + 1].size
             f == l.first.idx
             x == l.next.idx
         IN  /\ f \in Nat /\ x \in Nat /\ f # x /\ g[n] # x
             /\ f < x => p = g[n] /\ f <= p /\ p + s <= x
             /\ x < f => (g[n] < x \/ f <= g[n]) /\ (p + s <= x \/ f <= p)
  <1> DEFINE p == From(l, g[n])
             s == l.stored[n + 1].size
             F == l.first.seq
             N == l.next.seq
             f == g[F]
             x == g[N]
             y == g[n + 1]
  <1>1. /\ F \in Nat /\ N \in Nat /\ g \in [0 .. N -> Nat]
        /\ l.first.idx = f /\ l.next.idx = x
    <2>1. l.first = Cursor(F, f) /\ l.next = Cursor(N, x) BY LaidIs
    <2>2. l.first.idx = f /\ l.next.idx = x BY <2>1 DEF Cursor
    <2> QED BY <2>2, LaidIs
  <1>2. n \in Nat /\ F <= n /\ n < N /\ n \in F .. N /\ n + 1 \in F .. N /\ F \in F .. N /\ N \in F .. N
    BY <1>1
  <1>3. f \in Nat /\ x \in Nat /\ g[n] \in Nat /\ y \in Nat BY <1>1, <1>2
  <1>4. /\ p \in Nat /\ s \in Nat \ {0} /\ y = p + s
        /\ p = g[n] \/ (p = 0 /\ y < g[n])
    BY StepIs
  <1>5. InTurn(l, g) BY DEF Laid
  <1>6. f # x /\ g[n] # x BY <1>2, <1>1, <1>5 DEF InTurn
  <1>7. F = n \/ Turn(f, g[n], x) BY <1>1, <1>2, <1>5 DEF InTurn
  <1>8. n + 1 = N \/ Turn(g[n], y, x) BY <1>1, <1>2, <1>5 DEF InTurn
  <1>9. F = n \/ (f # g[n] /\ Turn(f, g[n], y)) BY <1>1, <1>2, <1>5 DEF InTurn
  <1>10. n + 1 = N \/ (y # x /\ Turn(f, y, x)) BY <1>1, <1>2, <1>5 DEF InTurn
  <1> HIDE DEF p, s, F, N, x, y
  <1>11. (F = n => f = g[n]) /\ (n + 1 = N => y = x) BY DEF x, y
  <1> HIDE DEF f
  <1>12. ASSUME f < x PROVE p = g[n] /\ f <= p /\ p + s <= x
    <2>1. f <= g[n] /\ g[n] < x BY <1>3, <1>6, <1>7, <1>11, <1>12 DEF Turn
    <2>2. f < y /\ y <= x
      <3>1. CASE n + 1 = N BY <1>12, <1>11, <3>1, <1>3
      <3>2. CASE n + 1 # N BY <1>3, <1>10, <1>12, <3>2 DEF Turn
      <3> QED BY <3>1, <3>2
    <2>3. g[n] < y
      <3>1. CASE F = n BY <1>11, <2>2, <3>1
      <3>2. CASE F # n BY <1>3, <1>9, <2>1, <2>2, <3>2 DEF Turn
      <3> QED BY <3>1, <3>2
    <2> QED BY <1>3, <1>4, <2>1, <2>2, <2>3
  <1>13. ASSUME x < f PROVE (g[n] < x \/ f <= g[n]) /\ (p + s <= x \/ f <= p)
    <2>1. g[n] < x \/ f <= g[n] BY <1>3, <1>7, <1>11, <1>13 DEF Turn
    <2>2. y <= x \/ f <= y
      <3>1. CASE n + 1 = N BY <1>11, <3>1, <1>3
      <3>2. CASE n + 1 # N BY <1>3, <1>10, <1>13, <3>2 DEF Turn
      <3> QED BY <3>1, <3>2
    <2>3. ~(g[n] < x /\ f <= y)
      BY <1>3, <1>8, <1>9, <1>11, <1>13 DEF Turn
    <2>4. ~(p = 0 /\ y < g[n] /\ f <= y)
      BY <1>3, <1>9, <1>11, <1>13 DEF Turn
    <2> QED BY <1>3, <1>4, <2>1, <2>2, <2>3, <2>4
  <1> QED BY <1>1, <1>3, <1>6, <1>12, <1>13 DEF p, s

-----------------------------------------------------------------------------
(* Storing a record.                                                       *)

Wraps(l, size) == l.next.idx + size + HdrLen > l.len
Place(l, size) == IF Wraps(l, size) THEN 0 ELSE l.next.idx

(* The place of the new record and the mark of a wrap are free: after the  *)
(* youngest record, or at the start of the ring before the oldest.         *)
LEMMA PlaceIs ==
  ASSUME NEW l, NEW g, LogTyped(l), Laid(l, g),
         NEW size \in Nat, size > 0, 2 * (size + HdrLen) <= BufLen, Roomy(l, size)
  PROVE  LET f == l.first.idx
             x == l.next.idx
             at == Place(l, size)
         IN  /\ f \in Nat /\ x \in Nat /\ at \in Nat
             /\ x + HdrLen <= l.len /\ at + size + HdrLen <= l.len
             /\ Wraps(l, size) => at = 0 /\ size < x
             /\ ~Wraps(l, size) => at = x
             /\ l.first.seq # l.next.seq =>
                  \/ f < x /\ (Wraps(l, size) => size + HdrLen <= f)
                  \/ x < f /\ ~Wraps(l, size) /\ at + size + HdrLen <= f
  <1> DEFINE f == l.first.idx
             x == l.next.idx
             F == l.first.seq
             N == l.next.seq
  <1>1. /\ F \in Nat /\ N \in Nat /\ F <= N /\ g \in [0 .. N -> Nat]
        /\ l.len \in Nat /\ BufLen <= l.len
    BY LaidIs
  <1>2. f = g[F] /\ x = g[N]
    <2>1. l.first = Cursor(F, g[F]) /\ l.next = Cursor(N, g[N]) BY LaidIs
    <2> QED BY <2>1 DEF Cursor
  <1>3. f \in Nat /\ x \in Nat BY <1>1, <1>2
  <1>4. f + HdrLen <= l.len /\ x + HdrLen <= l.len
    <2>1. F \in F .. N /\ N \in F .. N BY <1>1
    <2> QED BY <1>2, <2>1 DEF Laid
  <1>5. HdrLen \in Nat \ {0} /\ BufLen \in Nat BY Sizes1
  <1>6. F # N => f # x
    <2>1. InTurn(l, g) BY DEF Laid
    <2>2. F \in F .. N /\ N \in F .. N BY <1>1
    <2> QED BY <1>1, <1>2, <2>1, <2>2 DEF InTurn
  <1>7. Max({l.len - x, f}) = IF l.len - x >= f THEN l.len - x ELSE f
    BY <1>1, <1>3, MaxOfTwo
  <1>8. F # N => (IF x > f THEN l.len - x >= size + HdrLen \/ f >= size + HdrLen
                           ELSE f - x >= size + HdrLen)
    <2> SUFFICES ASSUME F # N
                 PROVE  IF x > f THEN l.len - x >= size + HdrLen \/ f >= size + HdrLen
                                 ELSE f - x >= size + HdrLen
      OBVIOUS
    <2>1. HasSpace(l, l.first, size, FALSE) BY DEF Roomy
    <2>2. CASE x > f
      <3>1. Max({l.len - x, f}) >= size + HdrLen BY <2>1, <2>2 DEF HasSpace
      <3> QED BY <1>7, <2>2, <3>1
    <2>3. CASE ~(x > f) BY <2>1, <2>3 DEF HasSpace
    <2> QED BY <2>2, <2>3
  <1> HIDE DEF f, x, F, N
  <1>9. Wraps(l, size) <=> x + size + HdrLen > l.len BY DEF Wraps, x
  <1>10. Place(l, size) = IF Wraps(l, size) THEN 0 ELSE x BY DEF Place, x
  <1>11. CASE Wraps(l, size)
    <2>1. x + size + HdrLen > l.len /\ Place(l, size) = 0 BY <1>9, <1>10, <1>11
    <2>2. size < x BY <1>1, <1>3, <1>5, <2>1
    <2>3. 0 + size + HdrLen <= l.len BY <1>1, <1>5
    <2>4. F # N => f < x /\ size + HdrLen <= f BY <1>1, <1>3, <1>4, <1>5, <1>6, <1>8, <2>1
    <2> QED BY <1>3, <1>4, <1>11, <2>1, <2>2, <2>3, <2>4 DEF f, x, F, N
  <1>12. CASE ~Wraps(l, size)
    <2>1. x + size + HdrLen <= l.len /\ Place(l, size) = x BY <1>1, <1>3, <1>5, <1>9, <1>10, <1>12
    <2>2. F # N => f < x \/ (x < f /\ x + size + HdrLen <= f)
      BY <1>1, <1>3, <1>5, <1>6, <1>8
    <2> QED BY <1>3, <1>4, <1>12, <2>1, <2>2 DEF f, x, F, N
  <1> QED BY <1>11, <1>12

(* log_store() without log_make_free_space(). *)
Put(l, size, r) ==
  LET at == Place(l, size)
      marked == IF Wraps(l, size)
                THEN [i \in 0 .. l.len - 1 |->
                        IF i \in l.next.idx .. l.next.idx + HdrLen - 1
                        THEN Zero ELSE l.mem[i]]
                ELSE l.mem
  IN  [l EXCEPT !.mem = [i \in 0 .. l.len - 1 |->
                           IF i \in at .. at + size - 1
                           THEN <<l.next.seq, i - at>> ELSE marked[i]],
                !.next = Cursor(l.next.seq + 1, at + size),
                !.stored = Append(@, r)]

Rec(texts, len, breaks, size, who, newline) ==
  [texts |-> texts, len |-> len, breaks |-> breaks, size |-> size, who |-> who,
   newline |-> newline]

LEMMA StoreIsPut ==
  ASSUME NEW l, NEW texts, NEW len, NEW breaks, NEW who, NEW newline
  PROVE  LET size == RoundUp(HdrLen + len)
         IN  Store(l, texts, len, breaks, who, newline)
             = Put(MakeRoom(l, size), size, Rec(texts, len, breaks, size, who, newline))
  BY DEF Store, Put, Place, Wraps, Rec

(* What Put() leaves in every byte.                                        *)
LEMMA PutBytes ==
  ASSUME NEW l, LogTyped(l), NEW size, NEW r, NEW i \in 0 .. l.len - 1
  PROVE  Put(l, size, r).mem[i] =
           IF i \in Place(l, size) .. Place(l, size) + size - 1
           THEN <<l.next.seq, i - Place(l, size)>>
           ELSE IF Wraps(l, size) /\ i \in l.next.idx .. l.next.idx + HdrLen - 1
           THEN Zero ELSE l.mem[i]
  BY DEF Put, LogTyped

LEMMA PutFields ==
  ASSUME NEW l, LogTyped(l), NEW size, NEW r
  PROVE  LET m == Put(l, size, r)
         IN  /\ m.len = l.len /\ m.first = l.first /\ m.clear = l.clear
             /\ m.next = Cursor(l.next.seq + 1, Place(l, size) + size)
             /\ m.stored = Append(l.stored, r)
  BY DEF Put, LogTyped

LEMMA PutTyped ==
  ASSUME NEW l, NEW g, LogTyped(l), Laid(l, g),
         NEW size \in Nat, NEW r \in Record, Place(l, size) \in Nat
  PROVE  LogTyped(Put(l, size, r))
  <1> DEFINE m == Put(l, size, r)
             at == Place(l, size)
  <1>1. /\ l.next.seq \in Nat /\ l.next.seq = Len(l.stored) /\ l.len \in Nat
        /\ l.first.seq <= l.clear.seq /\ l.clear.seq <= l.next.seq /\ l.clear.seq \in Nat
    BY LaidIs
  <1>2. l.mem \in [0 .. l.len - 1 -> Byte] /\ l.stored \in Seq(Record) BY DEF LogTyped
  <1>3. Zero \in Byte BY DEF Zero, Byte
  <1>4. \A i \in 0 .. l.len - 1 : m.mem[i] \in Byte
    <2> SUFFICES ASSUME NEW i \in 0 .. l.len - 1 PROVE m.mem[i] \in Byte OBVIOUS
    <2>1. l.mem[i] \in Byte BY <1>2
    <2>2. i \in at .. at + size - 1 => <<l.next.seq, i - at>> \in Byte
      BY <1>1 DEF Byte
    <2> HIDE DEF m, at
    <2>3. m.mem[i] = IF i \in at .. at + size - 1 THEN <<l.next.seq, i - at>>
                     ELSE IF Wraps(l, size) /\ i \in l.next.idx .. l.next.idx + HdrLen - 1
                     THEN Zero ELSE l.mem[i]
      BY PutBytes DEF m, at
    <2> QED BY <1>3, <2>1, <2>2, <2>3
  <1>5. m.mem = [i \in 0 .. l.len - 1 |-> m.mem[i]] BY DEF Put, LogTyped
  <1> HIDE DEF m
  <1>6. m.mem \in [0 .. l.len - 1 -> Byte] BY <1>4, <1>5
  <1>7. m.mem \in [0 .. BufLen - 1 -> Byte] \cup [0 .. BigLen - 1 -> Byte]
    BY <1>6 DEF LogTyped
  <1>8. m = [l EXCEPT !.mem = m.mem, !.next = m.next, !.stored = m.stored]
    BY DEF m, Put, LogTyped
  <1>9. m.next = Cursor(l.next.seq + 1, at + size) /\ m.stored = Append(l.stored, r)
        /\ m.len = l.len /\ m.first = l.first /\ m.clear = l.clear
    BY PutFields DEF m
  <1>10. m.next \in Cursors /\ m.next.seq = l.next.seq + 1
    BY <1>1, <1>9 DEF Cursor, Cursors
  <1>11. m.stored \in Seq(Record) /\ Len(m.stored) = Len(l.stored) + 1 BY <1>2, <1>9
  <1>12. m \in [len : {BufLen, BigLen},
                mem : [0 .. BufLen - 1 -> Byte] \cup [0 .. BigLen - 1 -> Byte],
                first : Cursors, next : Cursors, clear : Cursors, stored : Seq(Record)]
    <2> DEFINE Ms == [0 .. BufLen - 1 -> Byte] \cup [0 .. BigLen - 1 -> Byte]
               Ls == {BufLen, BigLen}
               Ss == Seq(Record)
    <2>1. l \in [len : Ls, mem : Ms, first : Cursors, next : Cursors, clear : Cursors, stored : Ss]
      BY DEF LogTyped
    <2>2. m.mem \in Ms /\ m.stored \in Ss BY <1>7, <1>11
    <2> HIDE DEF Ms, Ss, Ls
    <2>3. m \in [len : Ls, mem : Ms, first : Cursors, next : Cursors, clear : Cursors, stored : Ss]
      BY <1>8, <1>10, <2>1, <2>2
    <2> QED BY <2>3 DEF Ms, Ss, Ls
  <1>13. m.first.seq <= m.clear.seq /\ m.clear.seq <= m.next.seq /\ m.next.seq = Len(m.stored)
    BY <1>1, <1>9, <1>10, <1>11
  <1>14. m.mem \in [0 .. m.len - 1 -> Byte] BY <1>6, <1>9
  <1>15. LogTyped(m) BY <1>12, <1>13, <1>14 DEF LogTyped
  <1> QED BY <1>15 DEF m

(* The history of g after one more record.                                 *)
Longer(l, g, y) == [n \in 0 .. l.next.seq + 1 |-> IF n <= l.next.seq THEN g[n] ELSE y]

(* The records the ring has keep their bytes.                              *)
LEMMA PutKeeps ==
  ASSUME NEW l, NEW g, LogTyped(l), Laid(l, g),
         NEW size \in Nat, size > 0, 2 * (size + HdrLen) <= BufLen, Roomy(l, size),
         NEW r, NEW n \in l.first.seq .. l.next.seq - 1,
         NEW i \in 0 .. l.len - 1,
         \/ i = g[n]
         \/ From(l, g[n]) <= i /\ i < From(l, g[n]) + l.stored[n + 1].size
  PROVE  Put(l, size, r).mem[i] = l.mem[i]
  <1> DEFINE p == From(l, g[n])
             s == l.stored[n + 1].size
             f == l.first.idx
             x == l.next.idx
             at == Place(l, size)
  <1>1. /\ f \in Nat /\ x \in Nat /\ g[n] # x
        /\ f < x => p = g[n] /\ f <= p /\ p + s <= x
        /\ x < f => (g[n] < x \/ f <= g[n]) /\ (p + s <= x \/ f <= p)
    BY LiveIs
  <1>2. p \in Nat /\ s \in Nat \ {0} BY StepIs
  <1>3. n \in Nat /\ l.first.seq # l.next.seq /\ g[n] \in Nat
    <2>1. l.first.seq \in Nat /\ l.next.seq \in Nat /\ g \in [0 .. l.next.seq -> Nat] BY LaidIs
    <2>2. n \in 0 .. l.next.seq BY <2>1
    <2> QED BY <2>1, <2>2
  <1>4. /\ at \in Nat
        /\ Wraps(l, size) => at = 0 /\ size < x
        /\ ~Wraps(l, size) => at = x
        /\ \/ f < x /\ (Wraps(l, size) => size + HdrLen <= f)
           \/ x < f /\ ~Wraps(l, size) /\ at + size + HdrLen <= f
    BY <1>3, PlaceIs
  <1>5. i \in Nat /\ (i = g[n] \/ (p <= i /\ i < p + s)) OBVIOUS
  <1>6. HdrLen \in Nat \ {0} BY Sizes1
  <1>7. Put(l, size, r).mem[i] =
          IF i \in at .. at + size - 1 THEN <<l.next.seq, i - at>>
          ELSE IF Wraps(l, size) /\ i \in x .. x + HdrLen - 1 THEN Zero ELSE l.mem[i]
    BY PutBytes
  <1> HIDE DEF p, s, f, x, at
  <1>8. i \notin at .. at + size - 1 BY <1>1, <1>2, <1>3, <1>4, <1>5, <1>6
  <1>9. ~(Wraps(l, size) /\ i \in x .. x + HdrLen - 1) BY <1>1, <1>2, <1>3, <1>4, <1>5, <1>6
  <1> QED BY <1>7, <1>8, <1>9

LEMMA PutWhole ==
  ASSUME NEW l, NEW g, LogTyped(l), Laid(l, g),
         NEW size \in Nat, size > 0, 2 * (size + HdrLen) <= BufLen, Roomy(l, size),
         NEW r \in Record, r.size = size,
         NEW n \in l.first.seq .. l.next.seq
  PROVE  Whole(Put(l, size, r), Longer(l, g, Place(l, size) + size), n)
  <1> DEFINE m == Put(l, size, r)
             at == Place(l, size)
             h == Longer(l, g, at + size)
             N == l.next.seq
             x == l.next.idx
  <1>1. /\ l.first.seq \in Nat /\ N \in Nat /\ g \in [0 .. N -> Nat] /\ N = Len(l.stored)
        /\ l.len \in Nat /\ l.first.seq <= N
    BY LaidIs
  <1>2. n \in Nat /\ n <= N /\ n \in 0 .. N /\ N \in 0 .. N /\ g[n] \in Nat BY <1>1
  <1>3. h[n] = g[n] BY <1>1, <1>2 DEF Longer
  <1>4. m.len = l.len /\ m.stored = Append(l.stored, r) BY PutFields
  <1>5. g[N] = x
    <2>1. l.next = Cursor(N, g[N]) BY LaidIs
    <2> QED BY <2>1 DEF Cursor
  <1>6. g[n] + HdrLen <= l.len BY DEF Laid
  <1>7. HdrLen \in Nat \ {0} BY Sizes1
  <1>8. g[n] \in 0 .. l.len - 1 BY <1>1, <1>2, <1>6, <1>7
  <1>9. CASE n < N
    <2>1. n \in l.first.seq .. N - 1 BY <1>1, <1>9
    <2>2. m.stored[n + 1] = l.stored[n + 1]
      <3>1. l.stored \in Seq(Record) BY DEF LogTyped
      <3> QED BY <1>1, <1>4, <1>9, <3>1
    <2>3. h[n + 1] = g[n + 1] BY <1>1, <1>9 DEF Longer
    <2>4. m.mem[g[n]] = l.mem[g[n]] BY <1>8, <2>1, PutKeeps
    <2>5. From(m, h[n]) = From(l, g[n]) BY <1>3, <2>4 DEF From
    <2>6. Whole(l, g, n) BY <2>1 DEF Laid
    <2>7. From(l, g[n]) \in Nat /\ l.stored[n + 1].size \in Nat \ {0} BY <2>1, StepIs
    <2> DEFINE p == From(l, g[n])
               s == l.stored[n + 1].size
    <2>8. s > 0 /\ g[n + 1] = p + s
          /\ \A k \in 0 .. s - 1 : p + k < l.len /\ l.mem[p + k] = <<n, k>>
      BY <2>6 DEF Whole
    <2>9. ASSUME NEW k \in 0 .. s - 1 PROVE m.mem[p + k] = l.mem[p + k]
      <3>1. p \in Nat /\ s \in Nat BY <2>7
      <3>2. p + k < l.len BY <2>8
      <3>3. k \in Nat /\ k < s BY <3>1
      <3>4. p + k \in 0 .. l.len - 1 /\ p <= p + k /\ p + k < p + s
        <4>1. l.len \in Nat BY <1>1
        <4> HIDE DEF p, s
        <4> QED BY <3>1, <3>2, <3>3, <4>1
      <3> QED BY <2>1, <3>4, PutKeeps
    <2> HIDE DEF p, s, m, h
    <2>10. \A k \in 0 .. s - 1 : p + k < m.len /\ m.mem[p + k] = <<n, k>>
      BY <1>4, <2>8, <2>9
    <2>11. From(m, h[n]) = p /\ m.stored[n + 1].size = s /\ h[n + 1] = p + s
      BY <2>2, <2>3, <2>5, <2>8 DEF p, s
    <2>12. Whole(m, h, n) BY <2>8, <2>10, <2>11 DEF Whole
    <2> QED BY <2>12 DEF m, h, at
  <1>10. CASE n = N
    <2>1. /\ at \in Nat /\ at + size + HdrLen <= l.len
          /\ Wraps(l, size) => at = 0 /\ size < x
          /\ ~Wraps(l, size) => at = x
      BY PlaceIs
    <2>2. m.stored[n + 1] = r
      <3>1. l.stored \in Seq(Record) BY DEF LogTyped
      <3> QED BY <1>1, <1>4, <1>10, <3>1
    <2>3. h[n + 1] = at + size BY <1>1, <1>10 DEF Longer
    <2>4. ASSUME NEW k \in 0 .. size - 1
          PROVE  at + k < m.len /\ m.mem[at + k] = <<n, k>>
      <3>1. at + k \in 0 .. l.len - 1 /\ at + k \in at .. at + size - 1 /\ (at + k) - at = k
        BY <1>1, <1>7, <2>1, SMTT(20)
      <3>2. m.mem[at + k] = <<l.next.seq, (at + k) - at>> BY <3>1, PutBytes
      <3> HIDE DEF m, at
      <3> QED BY <1>1, <1>4, <1>10, <3>1, <3>2
    <2>5. From(m, h[n]) = at
      <3>1. CASE Wraps(l, size)
        <4>1. at = 0 /\ size < x BY <2>1, <3>1
        <4>2. x \in 0 .. l.len - 1 /\ x \notin at .. at + size - 1 /\ x \in x .. x + HdrLen - 1
          BY <1>1, <1>2, <1>5, <1>7, <1>8, <1>10, <4>1
        <4>3. ASSUME NEW i \in 0 .. l.len - 1, i \notin at .. at + size - 1,
                     i \in x .. x + HdrLen - 1
              PROVE  m.mem[i] = Zero
          BY <3>1, <4>3, PutBytes, ZenonT(40)
        <4> HIDE DEF m, at, x
        <4>4. m.mem[x] = Zero BY <4>2, <4>3
        <4> QED BY <1>3, <1>5, <1>10, <4>1, <4>4 DEF From
      <3>2. CASE ~Wraps(l, size)
        <4>1. at = x BY <2>1, <3>2
        <4>2. 0 \in 0 .. size - 1 /\ at + 0 = at BY <2>1
        <4>3. m.mem[at] = <<n, 0>> BY <2>4, <4>2
        <4>4. m.mem[x] # Zero BY <1>2, <4>1, <4>3 DEF Zero
        <4> QED BY <1>3, <1>5, <1>10, <4>1, <4>4 DEF From
      <3> QED BY <3>1, <3>2
    <2> HIDE DEF m, h, at
    <2>6. Whole(m, h, n) BY <2>2, <2>3, <2>4, <2>5 DEF Whole
    <2> QED BY <2>6 DEF m, h, at
  <1> QED BY <1>2, <1>1, <1>9, <1>10

(* The end of the new record comes after all cut points, going round.      *)
LEMMA EndInTurn ==
  ASSUME NEW l, NEW g, LogTyped(l), Laid(l, g),
         NEW size \in Nat, size > 0, 2 * (size + HdrLen) <= BufLen, Roomy(l, size),
         NEW a \in l.first.seq .. l.next.seq
  PROVE  LET y == Place(l, size) + size
         IN  /\ y \in Nat /\ g[a] \in Nat /\ g[a] # y
             /\ \A b \in l.first.seq .. l.next.seq : a < b => Turn(g[a], g[b], y)
  <1> DEFINE F == l.first.seq
             N == l.next.seq
             f == l.first.idx
             x == l.next.idx
             at == Place(l, size)
             y == at + size
  <1>1. F \in Nat /\ N \in Nat /\ g \in [0 .. N -> Nat] BY LaidIs
  <1>2. x = g[N]
    <2>1. l.next = Cursor(N, g[N]) BY LaidIs
    <2> QED BY <2>1 DEF Cursor
  <1>3. \A n \in F .. N - 1 :
          /\ g[n] # x
          /\ f < x => f <= g[n] /\ g[n] < x
          /\ x < f => g[n] < x \/ f <= g[n]
    <2> SUFFICES ASSUME NEW n \in F .. N - 1
                 PROVE  /\ g[n] # x
                        /\ f < x => f <= g[n] /\ g[n] < x
                        /\ x < f => g[n] < x \/ f <= g[n]
      OBVIOUS
    <2> DEFINE p == From(l, g[n])
               s == l.stored[n + 1].size
    <2>1. p \in Nat /\ s \in Nat \ {0} BY StepIs
    <2>2. /\ f \in Nat /\ x \in Nat /\ g[n] # x
          /\ f < x => p = g[n] /\ f <= p /\ p + s <= x
          /\ x < f => g[n] < x \/ f <= g[n]
      BY LiveIs
    <2> HIDE DEF p, s, f, x
    <2> QED BY <2>1, <2>2
  <1>4. /\ f \in Nat /\ x \in Nat /\ at \in Nat
        /\ Wraps(l, size) => at = 0 /\ size < x
        /\ ~Wraps(l, size) => at = x
        /\ F # N =>
             \/ f < x /\ (Wraps(l, size) => size + HdrLen <= f)
             \/ x < f /\ ~Wraps(l, size) /\ at + size + HdrLen <= f
    BY PlaceIs
  <1>5. HdrLen \in Nat \ {0} BY Sizes1
  <1>6. \A n \in F .. N : g[n] \in Nat
    <2>1. \A n \in F .. N : n \in 0 .. N BY <1>1
    <2> QED BY <1>1, <2>1
  <1>7. ASSUME NEW b \in F .. N, a < b, b < N PROVE Turn(g[a], g[b], x)
    <2>1. InTurn(l, g) BY DEF Laid
    <2>2. N \in F .. N BY <1>1
    <2> QED BY <1>2, <1>7, <2>1, <2>2 DEF InTurn
  <1>8. a \in F .. N - 1 \/ a = N BY <1>1
  <1> HIDE DEF F, N, f, x, at
  <1>9. y \in Nat /\ g[a] \in Nat BY <1>4, <1>6 DEF F, N
  <1>10. g[a] # y
    <2>1. CASE a = N BY <1>2, <1>4, <2>1
    <2>2. CASE a \in F .. N - 1
      <3>1. /\ f < x => f <= g[a] /\ g[a] < x
            /\ x < f => g[a] < x \/ f <= g[a]
        BY <1>3, <2>2
      <3>2. F # N BY <1>1, <2>2
      <3> QED BY <1>4, <1>5, <1>9, <3>1, <3>2
    <2> QED BY <1>8, <2>1, <2>2
  <1>11. ASSUME NEW b \in F .. N, a < b PROVE Turn(g[a], g[b], y)
    <2>1. a \in F .. N - 1 /\ F # N BY <1>1, <1>8, <1>11
    <2>2. /\ f < x => f <= g[a] /\ g[a] < x
          /\ x < f => g[a] < x \/ f <= g[a]
      BY <1>3, <2>1
    <2>3. CASE b = N BY <1>2, <1>4, <1>5, <1>9, <2>1, <2>2, <2>3 DEF Turn
    <2>4. CASE b # N
      <3>1. b \in F .. N - 1 /\ b < N BY <1>1, <2>4
      <3>2. /\ f < x => f <= g[b] /\ g[b] < x
            /\ x < f => g[b] < x \/ f <= g[b]
        BY <1>3, <3>1
      <3>3. Turn(g[a], g[b], x) BY <1>7, <1>11, <3>1
      <3>4. g[b] \in Nat BY <1>6
      <3> QED BY <1>4, <1>5, <1>9, <2>1, <2>2, <3>2, <3>3, <3>4 DEF Turn
    <2> QED BY <2>3, <2>4
  <1> QED BY <1>9, <1>10, <1>11 DEF F, N, at

LEMMA PutLaid ==
  ASSUME NEW l, NEW g, LogTyped(l), Laid(l, g),
         NEW size \in Nat, size > 0, 2 * (size + HdrLen) <= BufLen, Roomy(l, size),
         NEW r \in Record, r.size = size
  PROVE  LET m == Put(l, size, r)
         IN  LogTyped(m) /\ Laid(m, Longer(l, g, Place(l, size) + size))
  <1> DEFINE m == Put(l, size, r)
             y == Place(l, size) + size
             h == Longer(l, g, y)
             F == l.first.seq
             N == l.next.seq
  <1>1. /\ F \in Nat /\ N \in Nat /\ F <= N /\ g \in [0 .. N -> Nat]
        /\ l.clear.seq \in Nat /\ l.clear.seq <= N
        /\ l.first = Cursor(F, g[F]) /\ l.clear = Cursor(l.clear.seq, g[l.clear.seq])
        /\ l.len \in Nat
    BY LaidIs
  <1>2. Place(l, size) \in Nat /\ y + HdrLen <= l.len /\ y \in Nat BY PlaceIs
  <1>3. LogTyped(m) BY <1>2, PutTyped
  <1>4. m.len = l.len /\ m.first = l.first /\ m.clear = l.clear /\ m.next = Cursor(N + 1, y)
    BY PutFields
  <1>5. m.next.seq = N + 1 BY <1>4 DEF Cursor
  <1>6. ASSUME NEW a \in F .. N
        PROVE  /\ g[a] \in Nat /\ g[a] # y
               /\ \A b \in F .. N : a < b => Turn(g[a], g[b], y)
    BY EndInTurn
  <1>7. ASSUME NEW n \in F .. N PROVE Whole(m, h, n) BY PutWhole
  <1> HIDE DEF m, y
  <1>8. /\ \A n \in 0 .. N : h[n] = g[n]
        /\ h[N + 1] = y /\ h \in [0 .. N + 1 -> Nat]
    BY <1>1, <1>2, SMTT(20) DEF Longer
  <1> HIDE DEF h
  <1>9. OnWay(h, m.first) /\ OnWay(h, m.next) /\ OnWay(h, m.clear)
    <2>1. F \in 0 .. N /\ l.clear.seq \in 0 .. N BY <1>1
    <2>2. F \in 0 .. N + 1 /\ l.clear.seq \in 0 .. N + 1 /\ N + 1 \in 0 .. N + 1 BY <1>1
    <2>3. DOMAIN h = 0 .. N + 1 BY <1>8
    <2>4. OnWay(h, l.first) /\ OnWay(h, l.clear) BY <1>1, <1>8, <2>1, <2>2, <2>3 DEF OnWay
    <2> QED BY <1>4, <1>5, <1>8, <2>2, <2>3, <2>4 DEF OnWay
  <1>10. \A n \in F .. N + 1 : h[n] + HdrLen <= m.len
    <2> SUFFICES ASSUME NEW n \in F .. N + 1 PROVE h[n] + HdrLen <= m.len OBVIOUS
    <2>1. CASE n = N + 1 BY <1>2, <1>4, <1>8, <2>1
    <2>2. CASE n # N + 1
      <3>1. n \in F .. N /\ n \in 0 .. N BY <1>1, <2>2
      <3>2. g[n] + HdrLen <= l.len BY <3>1 DEF Laid
      <3> QED BY <1>4, <1>8, <3>1, <3>2
    <2> QED BY <2>1, <2>2
  <1>11. \A n \in F .. N : n \in 0 .. N BY <1>1
  <1>12. InTurn(m, h)
    <2>1. InTurn(l, g) BY DEF Laid
    <2> SUFFICES ASSUME NEW a \in F .. N + 1, NEW b \in F .. N + 1, a < b
                 PROVE  /\ h[a] # h[b]
                        /\ \A c \in F .. N + 1 : b < c => Turn(h[a], h[b], h[c])
      BY <1>4, <1>5 DEF InTurn
    <2>2. a \in F .. N /\ h[a] = g[a] BY <1>1, <1>8, <1>11
    <2>3. CASE b = N + 1 BY <1>1, <1>6, <1>8, <2>2, <2>3
    <2>4. CASE b # N + 1
      <3>1. b \in F .. N /\ h[b] = g[b] BY <1>1, <1>8, <1>11, <2>4, SMTT(20)
      <3>2. g[a] # g[b] BY <2>1, <2>2, <3>1 DEF InTurn
      <3>3. ASSUME NEW c \in F .. N + 1, b < c PROVE Turn(h[a], h[b], h[c])
        <4>1. CASE c = N + 1 BY <1>6, <1>8, <2>2, <3>1, <4>1
        <4>2. CASE c # N + 1
          <5>1. c \in F .. N /\ h[c] = g[c] BY <1>1, <1>8, <1>11, <4>2
          <5> QED BY <2>1, <2>2, <3>1, <3>3, <5>1 DEF InTurn
        <4> QED BY <4>1, <4>2
      <3> QED BY <2>2, <3>1, <3>2, <3>3
    <2> QED BY <2>3, <2>4
  <1>13. \A n \in m.first.seq .. m.next.seq - 1 : Whole(m, h, n)
    <2>1. (N + 1) - 1 = N BY <1>1
    <2> QED BY <1>4, <1>5, <1>7, <2>1
  <1>14. \A n \in m.first.seq .. m.next.seq : h[n] + HdrLen <= m.len BY <1>4, <1>5, <1>10
  <1>15. h[0] = 0
    <2>1. g[0] = 0 BY DEF Laid
    <2> QED BY <1>1, <1>8, <2>1
  <1>16. Laid(m, h) BY <1>5, <1>8, <1>9, <1>12, <1>13, <1>14, <1>15 DEF Laid
  <1> QED BY <1>3, <1>16 DEF m, h, y

-----------------------------------------------------------------------------
(* What a step does to a log and its histories.                            *)

Grown(l, g, t, m, h, u) ==
  /\ Carried(m, h, u)
  /\ l.first.seq <= m.first.seq /\ l.next.seq <= m.next.seq
  /\ \A n \in 0 .. l.next.seq :
       h[n] = g[n] /\ \A time \in BOOLEAN : u[time][n] = t[time][n]
  /\ \A n \in 0 .. l.next.seq - 1 : m.stored[n + 1] = l.stored[n + 1]

LEMMA GrownStays ==
  ASSUME NEW l, NEW g, NEW t, Carried(l, g, t)
  PROVE  Grown(l, g, t, l, g, t)
  <1>1. l.first.seq \in Nat /\ l.next.seq \in Nat BY LaidIs DEF Carried
  <1> QED BY <1>1 DEF Grown

LEMMA GrownTwice ==
  ASSUME NEW l, NEW g, NEW t, NEW m, NEW h, NEW u, NEW k, NEW i, NEW v,
         Carried(l, g, t), Grown(l, g, t, m, h, u), Grown(m, h, u, k, i, v)
  PROVE  Grown(l, g, t, k, i, v)
  <1>1. l.first.seq \in Nat /\ l.next.seq \in Nat BY LaidIs DEF Carried
  <1>2. Carried(m, h, u) /\ Carried(k, i, v) BY DEF Grown
  <1>3. m.first.seq \in Nat /\ m.next.seq \in Nat BY <1>2, LaidIs DEF Carried
  <1>4. k.first.seq \in Nat /\ k.next.seq \in Nat BY <1>2, LaidIs DEF Carried
  <1>5. /\ l.first.seq <= m.first.seq /\ l.next.seq <= m.next.seq
        /\ m.first.seq <= k.first.seq /\ m.next.seq <= k.next.seq
    BY DEF Grown
  <1>6. l.first.seq <= k.first.seq /\ l.next.seq <= k.next.seq
    BY <1>1, <1>3, <1>4, <1>5
  <1>7. ASSUME NEW n \in 0 .. l.next.seq
        PROVE  i[n] = g[n] /\ \A time \in BOOLEAN : v[time][n] = t[time][n]
    <2>1. n \in 0 .. m.next.seq BY <1>1, <1>3, <1>5
    <2>2. h[n] = g[n] /\ \A time \in BOOLEAN : u[time][n] = t[time][n] BY DEF Grown
    <2>3. i[n] = h[n] /\ \A time \in BOOLEAN : v[time][n] = u[time][n] BY <2>1 DEF Grown
    <2> QED BY <2>2, <2>3
  <1>8. ASSUME NEW n \in 0 .. l.next.seq - 1
        PROVE  k.stored[n + 1] = l.stored[n + 1]
    <2>1. n \in 0 .. m.next.seq - 1 BY <1>1, <1>3, <1>5
    <2>2. m.stored[n + 1] = l.stored[n + 1] BY DEF Grown
    <2>3. k.stored[n + 1] = m.stored[n + 1] BY <2>1 DEF Grown
    <2> QED BY <2>2, <2>3
  <1> QED BY <1>2, <1>6, <1>7, <1>8 DEF Grown

(* Dropping records or clearing the log changes no record.                 *)
LEMMA LaterGrows ==
  ASSUME NEW l, NEW g, NEW t, NEW m, Carried(l, g, t), Later(l, m),
         LogTyped(m), Laid(m, g)
  PROVE  Grown(l, g, t, m, g, t)
  <1>1. m.next = l.next /\ m.stored = l.stored BY DEF Later, Carried, LogTyped
  <1>2. Summed(m, t) BY <1>1 DEF Carried, Summed, LineOf
  <1>3. l.first.seq <= m.first.seq BY DEF Later
  <1>4. l.next.seq \in Nat BY LaidIs DEF Carried
  <1> QED BY <1>1, <1>2, <1>3, <1>4 DEF Carried, Grown

(* The greatest element of a set of numbers, none greater than m.          *)
LEMMA MaxOfSet ==
  ASSUME NEW S \in SUBSET Nat, S # {}, NEW m \in Nat, \A x \in S : x <= m
  PROVE  Max(S) \in S /\ \A y \in S : Max(S) >= y
  <1> DEFINE R == {m - x : x \in S}
  <1>1. R \in SUBSET Nat /\ R # {}
    <2>1. ASSUME NEW x \in S PROVE m - x \in Nat
      <3>1. x \in Nat /\ x <= m OBVIOUS
      <3> QED BY <3>1
    <2> QED BY <2>1
  <1>2. Min(R) \in R /\ \A y \in R : Min(R) <= y BY <1>1, MinOfSet
  <1>3. PICK x \in S : Min(R) = m - x BY <1>2
  <1>4. ASSUME NEW y \in S PROVE x >= y
    <2>1. m - x <= m - y BY <1>2, <1>3
    <2>2. x \in Nat /\ y \in Nat OBVIOUS
    <2> QED BY <2>1, <2>2
  <1>5. \E z \in S : \A y \in S : z >= y BY <1>4
  <1> QED BY <1>5 DEF Max

(* Where lines end.                                                        *)
LEMMA EndsAre ==
  ASSUME NEW rec \in Record
  PROVE  /\ Ends(rec) \subseteq 1 .. LineMax + 1
         /\ rec.len + 1 \in Ends(rec) /\ rec.len \in Nat
         /\ \A e \in Ends(rec) : e <= rec.len + 1
  <1>1. rec.len \in 0 .. LineMax /\ rec.breaks \subseteq 1 .. rec.len BY DEF Record
  <1>2. LineMax \in Nat BY Sizes1
  <1> QED BY <1>1, <1>2 DEF Ends

LEMMA PrintedIs ==
  ASSUME NEW rec \in Record, NEW time \in BOOLEAN, NEW e \in Ends(rec)
  PROVE  /\ PrintedTo(rec, e, time) \in Nat \ {0}
         /\ PrintedTo(rec, e, time) <= LineSize(rec, time)
         /\ (\A b \in Ends(rec) : e <= b) => PrintedTo(rec, e, time) < LineMax + PrefixMax
  <1> DEFINE m == rec.len + 1
             A == {b \in Ends(rec) : b <= e}
             B == {b \in Ends(rec) : b <= m}
             p == 1 + IF time THEN TimeLen ELSE 0
             i == Cardinality(A)
             j == Cardinality(B)
  <1>1. /\ Ends(rec) \subseteq 1 .. LineMax + 1
        /\ m \in Ends(rec) /\ rec.len \in Nat
        /\ \A b \in Ends(rec) : b <= m
    BY EndsAre
  <1>2. LineMax \in Nat /\ TimeLen \in Nat /\ PrefixMax \in Nat /\ TimeLen + 2 < PrefixMax
    BY Sizes1
  <1>3. p \in Nat /\ p <= TimeLen + 1 BY <1>2
  <1>4. e \in Nat /\ 1 <= e /\ e <= LineMax + 1 /\ e <= m /\ m \in Nat BY <1>1, <1>2
  <1>5. IsFiniteSet(1 .. LineMax + 1)
    <2>1. 1 \in Int /\ LineMax + 1 \in Int BY <1>2
    <2> QED BY <2>1, FS_Interval
  <1>6. A \subseteq B /\ B \subseteq 1 .. LineMax + 1 BY <1>1
  <1>7. IsFiniteSet(B) BY <1>5, <1>6, FS_Subset
  <1>8. IsFiniteSet(A) /\ i <= j BY <1>6, <1>7, FS_Subset
  <1>9. i \in Nat /\ j \in Nat BY <1>7, <1>8, FS_CardinalityType
  <1>10. (\A b \in Ends(rec) : e <= b) => i = 1
    <2> SUFFICES ASSUME \A b \in Ends(rec) : e <= b PROVE i = 1 OBVIOUS
    <2>1. \A b \in A : b = e
      <3> SUFFICES ASSUME NEW b \in A PROVE b = e OBVIOUS
      <3>1. e <= b /\ b <= e /\ b \in 1 .. LineMax + 1 BY <1>1
      <3> QED BY <1>2, <1>4, <3>1
    <2>2. e \in A BY <1>4
    <2>3. A = {e} BY <2>1, <2>2
    <2> HIDE DEF A
    <2> QED BY <2>3, FS_Singleton
  <1>11. PrintedTo(rec, e, time) = e + p * i /\ LineSize(rec, time) = m + p * j
    BY DEF PrintedTo, LineSize
  <1> HIDE DEF i, j, p, m
  <1>12. p * i \in Nat /\ p * j \in Nat BY <1>3, <1>9
  <1>13. p * i <= p * j
    <2>1. i * p <= j * p BY <1>3, <1>8, <1>9, TimesMonotone
    <2>2. i * p = p * i /\ j * p = p * j BY <1>3, <1>9
    <2> QED BY <2>1, <2>2
  <1>14. (\A b \in Ends(rec) : e <= b) => PrintedTo(rec, e, time) < LineMax + PrefixMax
    <2> SUFFICES ASSUME \A b \in Ends(rec) : e <= b
                 PROVE  PrintedTo(rec, e, time) < LineMax + PrefixMax
      OBVIOUS
    <2>1. i = 1 BY <1>10
    <2>2. p * i = p BY <1>3, <2>1
    <2> QED BY <1>2, <1>3, <1>4, <1>11, <2>2
  <1> QED BY <1>4, <1>11, <1>12, <1>13, <1>14

(* At least the first line of a record is printed, and all of them unless  *)
(* they are together too long for text[].                                  *)
LEMMA TextIs ==
  ASSUME NEW rec \in Record, NEW time \in BOOLEAN
  PROVE  /\ LineSize(rec, time) \in Nat \ {0}
         /\ TextSize(rec, time) \in Nat \ {0}
         /\ TextSize(rec, time) <= LineSize(rec, time)
         /\ TextSize(rec, time) # LineSize(rec, time) =>
              LineSize(rec, time) >= LineMax + PrefixMax
  <1> DEFINE M == LineMax + PrefixMax
             N == LineSize(rec, time)
             P == {0} \cup {n \in {PrintedTo(rec, e, time) : e \in Ends(rec)} : n < M}
  <1>1. Ends(rec) \subseteq 1 .. LineMax + 1 /\ rec.len + 1 \in Ends(rec) BY EndsAre
  <1>2. \A e \in Ends(rec) : PrintedTo(rec, e, time) \in Nat \ {0} /\ PrintedTo(rec, e, time) <= N
    BY PrintedIs
  <1>3. N = PrintedTo(rec, rec.len + 1, time) BY DEF LineSize
  <1>4. N \in Nat \ {0} BY <1>1, <1>2, <1>3
  <1>5. M \in Nat BY Sizes1
  <1>6. PICK f \in Ends(rec) : \A b \in Ends(rec) : f <= b
    <2>1. Ends(rec) \in SUBSET Nat /\ Ends(rec) # {} BY <1>1
    <2> QED BY <2>1, MinOfSet
  <1>7. PrintedTo(rec, f, time) < M /\ PrintedTo(rec, f, time) \in Nat \ {0} BY <1>2, <1>6, PrintedIs
  <1>8. TextSize(rec, time) = Max(P) BY DEF TextSize
  <1>9. PrintedTo(rec, f, time) \in P BY <1>7
  <1>10. N < M => N \in P BY <1>1, <1>3
  <1> HIDE DEF N, M
  <1>11. P \in SUBSET Nat /\ P # {} /\ \A x \in P : x <= N BY <1>2, <1>4
  <1> HIDE DEF P
  <1>12. Max(P) \in P /\ \A y \in P : Max(P) >= y BY <1>4, <1>11, MaxOfSet
  <1>13. Max(P) \in Nat /\ Max(P) <= N BY <1>11, <1>12
  <1>14. Max(P) >= PrintedTo(rec, f, time) BY <1>9, <1>12
  <1>15. Max(P) # 0 BY <1>7, <1>13, <1>14
  <1>16. Max(P) # N => N >= M
    <2> SUFFICES ASSUME ~(N >= M) PROVE Max(P) = N OBVIOUS
    <2>1. Max(P) >= N BY <1>4, <1>5, <1>10, <1>12
    <2> QED BY <1>4, <1>13, <2>1
  <1> QED BY <1>4, <1>8, <1>13, <1>15, <1>16 DEF N, M

LEMMA LineOfIs ==
  ASSUME NEW l, NEW g, LogTyped(l), Laid(l, g),
         NEW n \in 0 .. l.next.seq - 1, NEW time \in BOOLEAN
  PROVE  LineOf(l, n, time) \in Nat \ {0}
  <1>1. l.stored[n + 1] \in Record BY LaidIs
  <1> QED BY <1>1, TextIs DEF LineOf

LEMMA PutGrows ==
  ASSUME NEW l, NEW g, NEW t, Carried(l, g, t),
         NEW size \in Nat, size > 0, 2 * (size + HdrLen) <= BufLen, Roomy(l, size),
         NEW r \in Record, r.size = size
  PROVE  \E h, u : Grown(l, g, t, Put(l, size, r), h, u)
  <1> DEFINE N == l.next.seq
             m == Put(l, size, r)
             y == Place(l, size) + size
             h == Longer(l, g, y)
             len(time) == LineSize(r, time)
             u == [time \in BOOLEAN |->
                     [n \in 0 .. N + 1 |-> IF n <= N THEN t[time][n]
                                           ELSE t[time][N] + len(time)]]
  <1>1. LogTyped(l) /\ Laid(l, g) /\ Summed(l, t) BY DEF Carried
  <1>2. LogTyped(m) /\ Laid(m, h) BY <1>1, PutLaid
  <1>3. N \in Nat /\ N = Len(l.stored) /\ l.first.seq \in Nat BY <1>1, LaidIs
  <1>4. m.first = l.first /\ m.next = Cursor(N + 1, y) /\ m.stored = Append(l.stored, r)
    BY <1>1, PutFields
  <1>5. m.next.seq = N + 1 BY <1>4 DEF Cursor
  <1> HIDE DEF m, y
  <1>6. \A n \in 0 .. N : h[n] = g[n] BY <1>3 DEF Longer
  <1> HIDE DEF h
  <1>7. l.stored \in Seq(Record) BY <1>1 DEF LogTyped
  <1>8. \A n \in 0 .. N - 1 : m.stored[n + 1] = l.stored[n + 1]
    BY <1>3, <1>4, <1>7
  <1>9. m.stored[N + 1] = r BY <1>3, <1>4, <1>7
  <1>10. t \in [BOOLEAN -> [0 .. N -> Nat]] BY <1>1 DEF Summed
  <1>11. \A time \in BOOLEAN, n \in 0 .. N - 1 :
           t[time][n + 1] = t[time][n] + LineOf(l, n, time)
    BY <1>1 DEF Summed
  <1>12. \A time \in BOOLEAN : len(time) \in Nat
    <2> QED BY TextIs
  <1> HIDE DEF len
  <1>13. \A time \in BOOLEAN, n \in 0 .. N : t[time][n] \in Nat BY <1>10
  <1>14. u \in [BOOLEAN -> [0 .. N + 1 -> Nat]]
    <2> SUFFICES ASSUME NEW time \in BOOLEAN, NEW n \in 0 .. N + 1
                 PROVE  (IF n <= N THEN t[time][n] ELSE t[time][N] + len(time)) \in Nat
      OBVIOUS
    <2>1. N \in 0 .. N /\ (n <= N => n \in 0 .. N) BY <1>3
    <2> QED BY <1>12, <1>13, <2>1
  <1>15. \A time \in BOOLEAN :
           /\ \A n \in 0 .. N : u[time][n] = t[time][n]
           /\ u[time][N + 1] = t[time][N] + len(time)
    BY <1>3
  <1> HIDE DEF u
  <1>16. Summed(m, u)
    <2>1. u \in [BOOLEAN -> [0 .. m.next.seq -> Nat]] BY <1>5, <1>14
    <2>2. ASSUME NEW time \in BOOLEAN, NEW n \in 0 .. N
          PROVE  u[time][n + 1] = u[time][n] + LineOf(m, n, time)
      <3>1. CASE n = N
        <4>1. LineOf(m, n, time) = len(time) BY <1>9, <3>1 DEF LineOf, len
        <4>2. N \in 0 .. N BY <1>3
        <4> QED BY <1>15, <3>1, <4>1, <4>2
      <3>2. CASE n # N
        <4>1. n \in 0 .. N - 1 /\ n + 1 \in 0 .. N BY <1>3, <3>2
        <4>2. LineOf(m, n, time) = LineOf(l, n, time) BY <1>8, <4>1 DEF LineOf
        <4> QED BY <1>11, <1>15, <4>1, <4>2
      <3> QED BY <3>1, <3>2
    <2>3. (N + 1) - 1 = N BY <1>3
    <2> QED BY <1>5, <2>1, <2>2, <2>3 DEF Summed
  <1>17. Grown(l, g, t, m, h, u)
    <2>1. Carried(m, h, u) BY <1>2, <1>16 DEF Carried
    <2>2. l.first.seq <= m.first.seq /\ l.next.seq <= m.next.seq BY <1>3, <1>4, <1>5
    <2> QED BY <1>6, <1>8, <1>15, <2>1, <2>2 DEF Grown
  <1> QED BY <1>17 DEF m

LEMMA StoreGrows ==
  ASSUME NEW l, NEW g, NEW t, Carried(l, g, t),
         NEW texts \in Seq(Nat), NEW len \in 0 .. LineMax,
         NEW breaks \in SUBSET (1 .. LineMax), breaks \subseteq 1 .. len,
         NEW who \in Nat, NEW newline \in BOOLEAN
  PROVE  \E h, u : Grown(l, g, t, Store(l, texts, len, breaks, who, newline), h, u)
  <1> DEFINE size == RoundUp(HdrLen + len)
             k == MakeRoom(l, size)
             r == Rec(texts, len, breaks, size, who, newline)
             m == Put(k, size, r)
  <1>1. size \in Nat /\ size > 0 /\ 2 * (size + HdrLen) <= BufLen BY RecordSize
  <1> HIDE DEF size
  <1>2. LogTyped(k) /\ Laid(k, g) /\ Later(l, k) /\ Roomy(k, size)
    BY <1>1, MakeRoomIs DEF Carried
  <1>3. Store(l, texts, len, breaks, who, newline) = m BY StoreIsPut DEF size
  <1> HIDE DEF k
  <1>4. Grown(l, g, t, k, g, t) BY <1>2, LaterGrows
  <1>5. r \in Record /\ r.size = size BY <1>1 DEF Rec, Record
  <1> HIDE DEF r
  <1>6. Carried(k, g, t) BY <1>4 DEF Grown
  <1>7. PICK h, u : Grown(k, g, t, m, h, u) BY <1>1, <1>2, <1>5, <1>6, PutGrows
  <1> HIDE DEF m
  <1>8. Grown(l, g, t, m, h, u) BY <1>4, <1>7, GrownTwice
  <1> QED BY <1>3, <1>8

-----------------------------------------------------------------------------
(* What printing does: at most two records are stored, and the line that   *)
(* is not ended yet never gets too long for one.                           *)

Grows(l, g, t, m) == \E h, u : Grown(l, g, t, m, h, u)

LEMMA ContFlushGrows ==
  ASSUME NEW l, NEW g, NEW t, Carried(l, g, t), NEW c \in Line
  PROVE  LET f == ContFlush(Pair(l, c))
         IN  /\ Grows(l, g, t, f.log)
             /\ f.cont \in Line /\ f.cont.len = 0
  <1> DEFINE f == ContFlush(Pair(l, c))
  <1>1. Pair(l, c).log = l /\ Pair(l, c).cont = c BY DEF Pair
  <1>2. CASE c.len = 0
    <2>1. f = Pair(l, c) BY <1>1, <1>2 DEF ContFlush
    <2>2. Grows(l, g, t, l) BY GrownStays DEF Grows
    <2> QED BY <1>1, <1>2, <2>1, <2>2
  <1>3. CASE c.len # 0
    <2> DEFINE m == Store(l, c.texts, c.len, c.breaks, c.who, c.newline)
               d == [c EXCEPT !.len = 0, !.texts = <<>>, !.breaks = {}]
    <2>1. f = Pair(m, d) BY <1>1, <1>3 DEF ContFlush
    <2>2. c.texts \in Seq(Nat) /\ c.len \in 0 .. LineMax /\ c.who \in Nat /\ c.newline \in BOOLEAN
          /\ c.breaks \in SUBSET (1 .. LineMax) /\ c.breaks \subseteq 1 .. c.len
      BY DEF Line
    <2>3. Grows(l, g, t, m) BY <2>2, StoreGrows DEF Grows
    <2>4. 0 \in 0 .. LineMax /\ <<>> \in Seq(Nat) BY Sizes1
    <2>5. d \in Line /\ d.len = 0 BY <2>4 DEF Line
    <2> HIDE DEF m, d
    <2>6. Pair(m, d).log = m /\ Pair(m, d).cont = d BY DEF Pair
    <2> QED BY <2>1, <2>3, <2>5, <2>6
  <1> QED BY <1>2, <1>3

(* The newlines of a line that goes on.                                    *)
LEMMA BreaksGrow ==
  ASSUME NEW m \in 0 .. LineMax, NEW n \in 0 .. LineMax, m + n <= LineMax,
         NEW A, A \subseteq 1 .. m, NEW B, B \subseteq 1 .. n
  PROVE  /\ (A \cup Behind(m, B)) \in SUBSET (1 .. LineMax)
         /\ (A \cup Behind(m, B)) \subseteq 1 .. m + n
  <1>1. LineMax \in Nat BY Sizes1
  <1>2. \A x \in A : x \in 1 .. m + n BY <1>1
  <1>3. \A b \in B : m + b \in 1 .. m + n BY <1>1
  <1>4. 1 .. m + n \subseteq 1 .. LineMax BY <1>1
  <1> QED BY <1>2, <1>3, <1>4 DEF Behind

LEMMA ContAddGrows ==
  ASSUME NEW l, NEW g, NEW t, Carried(l, g, t), NEW c \in Line,
         NEW m \in Messages, NEW text \in Seq(Nat), c.len + m.len <= LineMax
  PROVE  LET f == ContAdd(Pair(l, c), m, text)
         IN  Grows(l, g, t, f.log) /\ f.cont \in Line
  <1> DEFINE d == [texts |-> c.texts \o text, len |-> c.len + m.len,
                   breaks |-> c.breaks \cup Behind(c.len, m.breaks),
                   who |-> IF c.len = 0 THEN m.who ELSE c.who,
                   newline |-> m.newline \/ (c.len > 0 /\ c.newline)]
             f == ContAdd(Pair(l, c), m, text)
  <1>1. Pair(l, c).log = l /\ Pair(l, c).cont = c BY DEF Pair
  <1>2. f = IF m.newline THEN ContFlush(Pair(l, d)) ELSE Pair(l, d)
    BY <1>1 DEF ContAdd
  <1>3. d \in Line
    <2>1. c.texts \in Seq(Nat) /\ c.len \in 0 .. LineMax /\ c.who \in Nat /\ c.newline \in BOOLEAN
          /\ c.breaks \in SUBSET (1 .. LineMax) /\ c.breaks \subseteq 1 .. c.len
      BY DEF Line
    <2>2. /\ m \in [who : Nat, len : 0 .. LineMax, breaks : SUBSET (1 .. LineMax),
                    newline : BOOLEAN, cont : BOOLEAN]
          /\ m.breaks \subseteq 1 .. m.len
      BY Sizes1
    <2>3. m.who \in Nat /\ m.len \in 0 .. LineMax /\ m.newline \in BOOLEAN BY <2>2
    <2>4. c.len + m.len \in 0 .. LineMax BY <2>1, <2>3, Sizes1
    <2>5. c.texts \o text \in Seq(Nat) BY <2>1
    <2>6. (m.newline \/ (c.len > 0 /\ c.newline)) \in BOOLEAN BY <2>3
    <2>7. (IF c.len = 0 THEN m.who ELSE c.who) \in Nat BY <2>1, <2>3
    <2>8. d.breaks \in SUBSET (1 .. LineMax) /\ d.breaks \subseteq 1 .. c.len + m.len
      <3>1. c.breaks \subseteq 1 .. c.len /\ m.breaks \subseteq 1 .. m.len BY <2>1, <2>2
      <3>2. d.breaks = c.breaks \cup Behind(c.len, m.breaks) OBVIOUS
      <3> HIDE DEF d
      <3> QED BY <2>1, <2>3, <3>1, <3>2, BreaksGrow
    <2> QED BY <2>4, <2>5, <2>6, <2>7, <2>8 DEF Line
  <1> HIDE DEF d
  <1>4. CASE m.newline
    <2>1. f = ContFlush(Pair(l, d)) BY <1>2, <1>4
    <2> QED BY <1>3, <2>1, ContFlushGrows
  <1>5. CASE ~m.newline
    <2>1. f = Pair(l, d) BY <1>2, <1>5
    <2>2. f.log = l /\ f.cont = d BY <2>1 DEF Pair
    <2>3. Grows(l, g, t, l) BY GrownStays DEF Grows
    <2> QED BY <1>3, <2>2, <2>3
  <1> QED BY <1>4, <1>5

LEMMA GrowsTwice ==
  ASSUME NEW l, NEW g, NEW t, Carried(l, g, t), NEW m, NEW k, Grows(l, g, t, m),
         \A h, u : Carried(m, h, u) => Grows(m, h, u, k)
  PROVE  Grows(l, g, t, k)
  <1>1. PICK h, u : Grown(l, g, t, m, h, u) BY DEF Grows
  <1>2. Carried(m, h, u) BY <1>1 DEF Grown
  <1>3. PICK i, v : Grown(m, h, u, k, i, v) BY <1>2 DEF Grows
  <1>4. Grown(l, g, t, k, i, v) BY <1>1, <1>3, GrownTwice
  <1> QED BY <1>4 DEF Grows

LEMMA LogOutputGrows ==
  ASSUME NEW l, NEW g, NEW t, Carried(l, g, t), NEW c \in Line,
         NEW m \in Messages, NEW text \in Seq(Nat)
  PROVE  LET r == LogOutput(Pair(l, c), m, text)
         IN  Grows(l, g, t, r.log) /\ r.cont \in Line
  <1> DEFINE r == LogOutput(Pair(l, c), m, text)
             f == ContFlush(Pair(l, c))
             k == f.log
             d == f.cont
             s == Store(k, text, m.len, m.breaks, m.who, TRUE)
  <1>1. Pair(l, c).log = l /\ Pair(l, c).cont = c BY DEF Pair
  <1>2. /\ m.who \in Nat /\ m.len \in 0 .. LineMax
        /\ m.breaks \in SUBSET (1 .. LineMax) /\ m.breaks \subseteq 1 .. m.len
    <2>1. /\ m \in [who : Nat, len : 0 .. LineMax, breaks : SUBSET (1 .. LineMax),
                    newline : BOOLEAN, cont : BOOLEAN]
          /\ m.breaks \subseteq 1 .. m.len
      BY Sizes1
    <2> QED BY <2>1
  <1>3. CASE c.len > 0 /\ c.who = m.who /\ m.cont /\ ~ContFull(Pair(l, c), m)
    <2>1. r = ContAdd(Pair(l, c), m, text) BY <1>1, <1>3 DEF LogOutput
    <2>2. ~(c.len + m.len > LineMax) BY <1>1, <1>3 DEF ContFull
    <2>3. c.len \in 0 .. LineMax BY DEF Line
    <2>4. c.len + m.len <= LineMax BY <1>2, <2>2, <2>3, Sizes1
    <2> QED BY <2>1, <2>4, ContAddGrows
  <1>4. CASE ~(c.len > 0 /\ c.who = m.who /\ m.cont /\ ~ContFull(Pair(l, c), m))
    <2>1. r = IF m.len = 0 /\ m.cont THEN f
              ELSE IF ~m.newline THEN ContAdd(f, m, text)
              ELSE Pair(s, d)
      BY <1>1, <1>4 DEF LogOutput
    <2>2. Grows(l, g, t, k) /\ d \in Line /\ d.len = 0 BY ContFlushGrows
    <2>3. f = Pair(k, d) BY DEF ContFlush, Pair
    <2> HIDE DEF f, r
    <2>4. CASE m.len = 0 /\ m.cont BY <2>1, <2>2, <2>4 DEF r
    <2>5. CASE ~(m.len = 0 /\ m.cont) /\ ~m.newline
      <3>1. r = ContAdd(Pair(k, d), m, text) BY <2>1, <2>3, <2>5
      <3>2. d.len + m.len <= LineMax BY <1>2, <2>2
      <3> HIDE DEF k, d
      <3>3. ASSUME NEW h, NEW u, Carried(k, h, u) PROVE Grows(k, h, u, r.log) /\ r.cont \in Line
        BY <2>2, <3>1, <3>2, <3>3, ContAddGrows
      <3>4. Grows(l, g, t, r.log) BY <2>2, <3>3, GrowsTwice
      <3>5. PICK h, u : Grown(l, g, t, k, h, u) BY <2>2 DEF Grows
      <3>6. Carried(k, h, u) BY <3>5 DEF Grown
      <3> QED BY <3>3, <3>4, <3>6 DEF r
    <2>6. CASE ~(m.len = 0 /\ m.cont) /\ m.newline
      <3>1. r = Pair(s, d) BY <2>1, <2>6
      <3> HIDE DEF k, d
      <3>2. ASSUME NEW h, NEW u, Carried(k, h, u) PROVE Grows(k, h, u, s)
        BY <1>2, <3>2, StoreGrows DEF Grows
      <3> HIDE DEF s
      <3>3. r.log = s /\ r.cont = d BY <3>1 DEF Pair
      <3>4. Grows(l, g, t, s) BY <2>2, <3>2, GrowsTwice
      <3> QED BY <2>2, <3>3, <3>4 DEF r
    <2> QED BY <2>4, <2>5, <2>6 DEF r
  <1> QED BY <1>3, <1>4

LEMMA BiggerIsLaid ==
  ASSUME NEW l, NEW g, LogTyped(l), Laid(l, g), l.len < BigLen
  PROVE  LET m == [l EXCEPT !.len = BigLen,
                            !.mem = [i \in 0 .. BigLen - 1 |->
                                       IF i < BufLen THEN l.mem[i] ELSE Zero]]
         IN  LogTyped(m) /\ Laid(m, g)
  <1> DEFINE mem == [i \in 0 .. BigLen - 1 |-> IF i < BufLen THEN l.mem[i] ELSE Zero]
             m == [l EXCEPT !.len = BigLen, !.mem = mem]
  <1>1. l.len = BufLen /\ l.mem \in [0 .. BufLen - 1 -> Byte]
    BY Sizes1 DEF LogTyped
  <1>2. BufLen \in Nat /\ BigLen \in Nat /\ BufLen <= BigLen BY Sizes1
  <1>3. mem \in [0 .. BigLen - 1 -> Byte]
    <2>1. Zero \in Byte BY DEF Zero, Byte
    <2>2. \A i \in 0 .. BigLen - 1 : i < BufLen => i \in 0 .. BufLen - 1 BY <1>2
    <2> QED BY <1>1, <2>1, <2>2
  <1>4. \A i \in 0 .. BufLen - 1 : mem[i] = l.mem[i] BY <1>2
  <1> HIDE DEF mem
  <1>5. /\ m.len = BigLen /\ m.mem = mem /\ m.first = l.first /\ m.next = l.next
        /\ m.clear = l.clear /\ m.stored = l.stored
    BY DEF LogTyped
  <1>6. LogTyped(m)
    <2> DEFINE Ms == [0 .. BufLen - 1 -> Byte] \cup [0 .. BigLen - 1 -> Byte]
               Ls == {BufLen, BigLen}
               Ss == Seq(Record)
    <2>1. l \in [len : Ls, mem : Ms, first : Cursors, next : Cursors, clear : Cursors, stored : Ss]
      BY DEF LogTyped
    <2>2. BigLen \in Ls /\ mem \in Ms BY <1>3
    <2> HIDE DEF Ms, Ls, Ss
    <2>3. m \in [len : Ls, mem : Ms, first : Cursors, next : Cursors, clear : Cursors, stored : Ss]
      BY <2>1, <2>2
    <2> HIDE DEF m
    <2> QED BY <1>3, <1>5, <2>3 DEF LogTyped, Ms, Ls, Ss
  <1> HIDE DEF m
  <1>7. ASSUME NEW n \in l.first.seq .. l.next.seq - 1 PROVE Whole(m, g, n)
    <2> DEFINE p == From(l, g[n])
               s == l.stored[n + 1].size
    <2>1. Whole(l, g, n) BY DEF Laid
    <2>2. p \in Nat /\ s \in Nat \ {0} BY StepIs
    <2>3. g[n] \in 0 .. BufLen - 1
      <3>1. /\ g \in [0 .. l.next.seq -> Nat] /\ l.first.seq \in Nat /\ l.next.seq \in Nat
        BY LaidIs
      <3>2. n \in 0 .. l.next.seq /\ n \in l.first.seq .. l.next.seq BY <3>1
      <3>3. g[n] + HdrLen <= BufLen BY <1>1, <3>2 DEF Laid
      <3>4. g[n] \in Nat BY <3>1, <3>2
      <3> QED BY <1>2, <3>3, <3>4, Sizes1
    <2>4. From(m, g[n]) = p BY <1>4, <1>5, <2>3 DEF From
    <2>5. s > 0 /\ g[n + 1] = p + s
          /\ \A k \in 0 .. s - 1 : p + k < l.len /\ l.mem[p + k] = <<n, k>>
      BY <2>1 DEF Whole
    <2> HIDE DEF p, s
    <2>6. ASSUME NEW k \in 0 .. s - 1 PROVE p + k < m.len /\ m.mem[p + k] = <<n, k>>
      <3>1. k \in Nat BY <2>2
      <3>2. p + k \in 0 .. BufLen - 1
        <4>1. p + k < BufLen BY <1>1, <2>5
        <4> QED BY <1>2, <2>2, <3>1, <4>1
      <3> QED BY <1>2, <1>4, <1>5, <2>5, <3>2
    <2>7. m.stored[n + 1].size = s BY <1>5 DEF s
    <2> QED BY <2>4, <2>5, <2>6, <2>7 DEF Whole
  <1>8. \A n \in m.first.seq .. m.next.seq : g[n] + HdrLen <= m.len
    <2> SUFFICES ASSUME NEW n \in l.first.seq .. l.next.seq PROVE g[n] + HdrLen <= BigLen
      BY <1>5
    <2>1. g[n] + HdrLen <= BufLen BY <1>1 DEF Laid
    <2>2. g \in [0 .. l.next.seq -> Nat] /\ l.first.seq \in Nat /\ l.next.seq \in Nat BY LaidIs
    <2>3. n \in 0 .. l.next.seq BY <2>2
    <2>4. g[n] \in Nat BY <2>2, <2>3
    <2> QED BY <1>2, <2>1, <2>4, Sizes1
  <1>9. InTurn(m, g) BY <1>5 DEF Laid, InTurn
  <1>10. OnWay(g, m.first) /\ OnWay(g, m.next) /\ OnWay(g, m.clear)
         /\ g \in [0 .. m.next.seq -> Nat] /\ g[0] = 0
    BY <1>5 DEF Laid
  <1>11. Laid(m, g) BY <1>5, <1>7, <1>8, <1>9, <1>10 DEF Laid
  <1> QED BY <1>6, <1>11 DEF m, mem

-----------------------------------------------------------------------------
(* What a reader sees at a cursor on the way.                              *)

LEMMA CursorIs ==
  ASSUME NEW g, NEW t, Carried(log, g, t), NEW c, OnWay(g, c),
         log.first.seq <= c.seq, c.seq < log.next.seq
  PROVE  LET d == Following(log, c)
         IN  /\ c.seq \in Nat /\ OnWay(g, d) /\ d \in Cursors /\ d.seq = c.seq + 1
             /\ \A time \in BOOLEAN :
                  /\ LineLen(c, time) = LineOf(log, c.seq, time) /\ LineLen(c, time) \in Nat \ {0}
                  /\ TextSize(RecordOf(c), time) = TextOf(log, c.seq, time)
                  /\ TextSize(RecordOf(c), time) \in Nat \ {0}
                  /\ TextSize(RecordOf(c), time) <= LineLen(c, time)
                  /\ TextSize(RecordOf(c), time) # LineLen(c, time) => TooLong(c.seq)
             /\ RecordAt(log, c.idx) = c.seq
  <1> DEFINE n == c.seq
             d == Cursor(n + 1, g[n + 1])
  <1>1. LogTyped(log) /\ Laid(log, g) BY DEF Carried
  <1>2. log.first.seq \in Nat /\ log.next.seq \in Nat /\ g \in [0 .. log.next.seq -> Nat]
    BY <1>1, LaidIs
  <1>3. n \in DOMAIN g /\ c = Cursor(n, g[n]) BY DEF OnWay
  <1>4. n \in Nat BY <1>2, <1>3
  <1>5. n \in log.first.seq .. log.next.seq - 1 /\ n \in 0 .. log.next.seq - 1
        /\ n + 1 \in 0 .. log.next.seq
    BY <1>2, <1>4
  <1>6. Following(log, Cursor(n, g[n])) = d BY <1>1, <1>5, FollowingIs
  <1>7. d.seq = n + 1 /\ d.idx = g[n + 1] /\ g[n + 1] \in Nat BY <1>2, <1>5 DEF Cursor
  <1>8. OnWay(g, d) /\ d \in Cursors BY <1>2, <1>4, <1>5, <1>7 DEF OnWay, Cursor, Cursors
  <1>9. RecordAt(log, g[n]) = n BY <1>1, <1>5, RecordAtIs
  <1>10. c.idx = g[n] BY <1>3 DEF Cursor
  <1> DEFINE q == log.stored[n + 1]
  <1>11. \A time \in BOOLEAN : LineLen(c, time) = LineSize(q, time)
           /\ LineSize(q, time) = LineOf(log, n, time) /\ TextSize(q, time) = TextOf(log, n, time)
           /\ RecordOf(c) = q
    BY <1>9, <1>10 DEF LineLen, LineOf, TextOf, RecordOf
  <1>12. q \in Record BY <1>1, <1>5, LaidIs
  <1> HIDE DEF q
  <1>13. ASSUME NEW time \in BOOLEAN
         PROVE  /\ LineLen(c, time) = LineOf(log, n, time) /\ LineLen(c, time) \in Nat \ {0}
                /\ TextSize(RecordOf(c), time) = TextOf(log, n, time)
                /\ TextSize(RecordOf(c), time) \in Nat \ {0}
                /\ TextSize(RecordOf(c), time) <= LineLen(c, time)
                /\ TextSize(RecordOf(c), time) # LineLen(c, time) => TooLong(n)
    <2>1. /\ LineSize(q, time) \in Nat \ {0} /\ TextSize(q, time) \in Nat \ {0}
          /\ TextSize(q, time) <= LineSize(q, time)
          /\ TextSize(q, time) # LineSize(q, time) => LineSize(q, time) >= LineMax + PrefixMax
      BY <1>12, TextIs
    <2>2. LineSize(q, time) >= LineMax + PrefixMax => TooLong(n) BY <1>5 DEF TooLong, q
    <2> QED BY <1>11, <2>1, <2>2
  <1> HIDE DEF d
  <1> QED BY <1>3, <1>4, <1>6, <1>7, <1>8, <1>9, <1>10, <1>13

LEMMA CaughtIs ==
  ASSUME NEW g, NEW t, Carried(log, g, t), NEW c, OnWay(g, c)
  PROVE  LET d == Caught(c)
         IN  /\ OnWay(g, d) /\ d \in Cursors /\ c.seq \in Nat
             /\ log.first.seq <= d.seq /\ d.seq <= log.next.seq
             /\ c.seq <= d.seq
             /\ d.seq # c.seq => d.seq = log.first.seq
             /\ ~Gone(c) => d = c
             /\ Gone(c) => d = log.first /\ c.seq < d.seq
  <1>1. LogTyped(log) /\ Laid(log, g) BY DEF Carried
  <1>2. /\ log.first.seq \in Nat /\ log.next.seq \in Nat /\ g \in [0 .. log.next.seq -> Nat]
        /\ log.first.seq <= log.next.seq
    <2>1. /\ log.first.seq \in Nat /\ log.next.seq \in Nat /\ log.clear.seq \in Nat
          /\ log.first.seq <= log.clear.seq /\ log.clear.seq <= log.next.seq
      BY <1>1, LaidIs
    <2>2. g \in [0 .. log.next.seq -> Nat] BY <1>1, LaidIs
    <2> QED BY <2>1, <2>2
  <1>3. c.seq \in DOMAIN g /\ c = Cursor(c.seq, g[c.seq]) BY DEF OnWay
  <1>4. c.seq \in Nat /\ c.seq <= log.next.seq /\ g[c.seq] \in Nat BY <1>2, <1>3
  <1>5. c \in Cursors BY <1>3, <1>4 DEF Cursor, Cursors
  <1>6. log.first \in Cursors /\ OnWay(g, log.first) BY <1>1 DEF LogTyped, Laid
  <1>7. CASE Gone(c)
    <2>1. c.seq < log.first.seq /\ Caught(c) = log.first BY <1>7 DEF Gone, Caught
    <2> QED BY <1>2, <1>4, <1>6, <1>7, <2>1
  <1>8. CASE ~Gone(c)
    <2>1. ~(c.seq < log.first.seq) /\ Caught(c) = c BY <1>8 DEF Gone, Caught
    <2> QED BY <1>2, <1>4, <1>5, <1>8, <2>1
  <1> QED BY <1>7, <1>8

-----------------------------------------------------------------------------
(* How much the lines of some records take.                                *)

Sums(c, stop, time, f) ==
  f = [n \in c.seq .. stop |-> IF n = c.seq THEN 0
                               ELSE f[n - 1] + LineLen(Walk(log, c, stop)[n - 1], time)]

LEMMA LinesAreSums ==
  ASSUME NEW c, NEW stop, NEW time, NEW f, Sums(c, stop, time, f)
  PROVE  Sums(c, stop, time, LinesUpTo(c, stop, time))
  BY Zenon DEF LinesUpTo, Sums

LEMMA TotalsGrow ==
  ASSUME NEW l, NEW g, NEW t, Carried(l, g, t), NEW time \in BOOLEAN,
         NEW a \in 0 .. l.next.seq, NEW b \in a .. l.next.seq
  PROVE  t[time][a] \in Nat /\ t[time][b] \in Nat /\ t[time][a] <= t[time][b]
  <1> DEFINE N == l.next.seq
             v == t[time]
             S == {n \in a .. N : v[a] <= v[n]}
  <1>1. LogTyped(l) /\ Laid(l, g) /\ Summed(l, t) BY DEF Carried
  <1>2. N \in Nat BY <1>1, LaidIs
  <1>3. v \in [0 .. N -> Nat] BY <1>1 DEF Summed
  <1>4. ASSUME NEW n \in a .. N - 1 PROVE v[n] <= v[n + 1]
    <2>1. n \in 0 .. N - 1 /\ n \in 0 .. N /\ n + 1 \in 0 .. N BY <1>2
    <2>2. v[n + 1] = v[n] + LineOf(l, n, time) BY <1>1, <2>1 DEF Summed
    <2>3. LineOf(l, n, time) \in Nat BY <1>1, <2>1, LineOfIs
    <2>4. v[n] \in Nat /\ v[n + 1] \in Nat BY <1>3, <2>1
    <2> HIDE DEF v
    <2> QED BY <2>2, <2>3, <2>4
  <1> HIDE DEF v
  <1>5. \A n \in a .. N : n \in 0 .. N BY <1>2
  <1>6. a \in S BY <1>2, <1>3
  <1>7. \A n \in a .. N - 1 : n \in S => n + 1 \in S
    <2> SUFFICES ASSUME NEW n \in a .. N - 1, n \in S PROVE n + 1 \in S OBVIOUS
    <2>1. n \in a .. N /\ n + 1 \in a .. N BY <1>2
    <2>2. v[a] <= v[n] /\ v[n] <= v[n + 1] BY <1>4
    <2>3. v[a] \in Nat /\ v[n] \in Nat /\ v[n + 1] \in Nat BY <1>3, <1>5, <2>1
    <2> QED BY <2>1, <2>2, <2>3
  <1>8. a .. N \subseteq S
    <2>1. a \in Nat BY <1>2
    <2> HIDE DEF S, N
    <2> QED BY <1>2, <1>6, <1>7, <2>1, Stretch
  <1>9. b \in a .. N /\ v[a] <= v[b] BY <1>8
  <1> QED BY <1>3, <1>5, <1>9 DEF v

LEMMA LinesUpToIs ==
  ASSUME NEW g, NEW t, Carried(log, g, t), NEW c, OnWay(g, c), NEW stop \in Nat,
         log.first.seq <= c.seq, c.seq <= stop, stop <= log.next.seq, NEW time \in BOOLEAN
  PROVE  LinesUpTo(c, stop, time) = [n \in c.seq .. stop |-> t[time][n] - t[time][c.seq]]
  <1> DEFINE a == c.seq
             v == t[time]
             f == [n \in a .. stop |-> v[n] - v[a]]
             w == LinesUpTo(c, stop, time)
             at == Walk(log, c, stop)
  <1>1. LogTyped(log) /\ Laid(log, g) /\ Summed(log, t) BY DEF Carried
  <1>2. /\ log.first.seq \in Nat /\ log.next.seq \in Nat
        /\ g \in [0 .. log.next.seq -> Nat]
    BY <1>1, LaidIs
  <1>3. a \in DOMAIN g /\ c = Cursor(a, g[a]) BY DEF OnWay
  <1>4. a \in Nat /\ a \in log.first.seq .. log.next.seq /\ stop \in a .. log.next.seq
    BY <1>2, <1>3
  <1>5. at = [n \in a .. stop |-> Cursor(n, g[n])]
    <2>1. Walk(log, Cursor(a, g[a]), stop) = [n \in a .. stop |-> Cursor(n, g[n])]
      BY <1>1, <1>4, WalkIs
    <2> QED BY <1>3, <2>1
  <1>6. v \in [0 .. log.next.seq -> Nat] BY <1>1 DEF Summed
  <1>7. ASSUME NEW n \in a .. stop - 1
        PROVE  /\ LineLen(at[n], time) \in Nat
               /\ v[n] \in Nat /\ v[n + 1] \in Nat
               /\ v[n + 1] = v[n] + LineLen(at[n], time)
    <2> DEFINE d == Cursor(n, g[n])
    <2>1. n \in 0 .. log.next.seq /\ n + 1 \in 0 .. log.next.seq /\ n \in 0 .. log.next.seq - 1
          /\ n \in Nat /\ log.first.seq <= n /\ n < log.next.seq /\ n \in a .. stop
      BY <1>2, <1>4
    <2>2. at[n] = d BY <1>5, <2>1
    <2>3. d.seq = n BY DEF Cursor
    <2>4. OnWay(g, d) BY <1>2, <2>1, <2>3 DEF OnWay
    <2> HIDE DEF d
    <2>5. LineLen(d, time) = LineOf(log, n, time) /\ LineLen(d, time) \in Nat \ {0}
      BY <2>1, <2>3, <2>4, CursorIs
    <2>6. v[n + 1] = v[n] + LineOf(log, n, time) BY <1>1, <2>1 DEF Summed
    <2>7. v[n] \in Nat /\ v[n + 1] \in Nat BY <1>6, <2>1
    <2> QED BY <2>2, <2>5, <2>6, <2>7
  <1> HIDE DEF v, at
  <1>8. v[a] \in Nat BY <1>2, <1>4, <1>6
  <1>9. ASSUME NEW n \in a .. stop, n # a
        PROVE  f[n - 1] + LineLen(at[n - 1], time) = v[n] - v[a]
    <2>1. n - 1 \in a .. stop - 1 /\ n - 1 \in a .. stop /\ (n - 1) + 1 = n BY <1>4, <1>9
    <2>2. f[n - 1] = v[n - 1] - v[a] BY <2>1
    <2>3. /\ LineLen(at[n - 1], time) \in Nat /\ v[n - 1] \in Nat /\ v[n] \in Nat
          /\ v[n] = v[n - 1] + LineLen(at[n - 1], time)
      BY <1>7, <2>1
    <2> HIDE DEF f
    <2> QED BY <1>8, <2>2, <2>3
  <1>10. Sums(c, stop, time, f)
    <2>1. \A n \in a .. stop :
            f[n] = IF n = a THEN 0 ELSE f[n - 1] + LineLen(at[n - 1], time)
      <3> SUFFICES ASSUME NEW n \in a .. stop
                   PROVE  f[n] = IF n = a THEN 0 ELSE f[n - 1] + LineLen(at[n - 1], time)
        OBVIOUS
      <3>1. f[n] = v[n] - v[a] OBVIOUS
      <3> HIDE DEF f
      <3>2. CASE n = a BY <1>8, <3>1, <3>2
      <3>3. CASE n # a BY <1>9, <3>1, <3>3
      <3> QED BY <3>2, <3>3
    <2> QED BY <2>1 DEF Sums, at
  <1>11. Sums(c, stop, time, w) BY <1>10, LinesAreSums
  <1> HIDE DEF w
  <1>12. w = [n \in a .. stop |-> IF n = a THEN 0 ELSE w[n - 1] + LineLen(at[n - 1], time)]
    BY <1>11 DEF Sums, at
  <1> DEFINE S == {n \in a .. stop : w[n] = f[n]}
  <1>13. a \in S BY <1>4, <1>8, <1>12
  <1>14. \A n \in a .. stop - 1 : n \in S => n + 1 \in S
    <2> SUFFICES ASSUME NEW n \in a .. stop - 1, n \in S PROVE n + 1 \in S OBVIOUS
    <2>1. n + 1 \in a .. stop /\ n + 1 # a /\ (n + 1) - 1 = n BY <1>4
    <2>2. w[n + 1] = w[n] + LineLen(at[n], time) BY <1>12, <2>1
    <2>3. f[n] + LineLen(at[n], time) = v[n + 1] - v[a] BY <1>9, <2>1
    <2>4. f[n + 1] = v[n + 1] - v[a] BY <2>1
    <2>5. w[n] = f[n] OBVIOUS
    <2> HIDE DEF f
    <2> QED BY <2>1, <2>2, <2>3, <2>4, <2>5
  <1> HIDE DEF S
  <1>15. a .. stop \subseteq S BY <1>4, <1>13, <1>14, Stretch
  <1>16. \A n \in a .. stop : w[n] = f[n] BY <1>15 DEF S
  <1>17. w = f BY <1>12, <1>16
  <1> QED BY <1>17 DEF w, v

(* The youngest records whose lines fit.                                   *)
LEMMA YoungestIs ==
  ASSUME NEW g, NEW t, Carried(log, g, t), NEW c, OnWay(g, c), NEW stop \in Nat,
         log.first.seq <= c.seq, c.seq <= stop, stop <= log.next.seq,
         NEW max \in Int, NEW time \in BOOLEAN
  PROVE  LET y == Youngest(c, stop, max, time)
         IN  /\ OnWay(g, y) /\ y \in Cursors
             /\ y.seq \in Nat /\ c.seq <= y.seq /\ y.seq <= stop
             /\ y.seq < stop => t[time][stop] - t[time][y.seq] <= max
  <1> DEFINE a == c.seq
             v == t[time]
             sum == LinesUpTo(c, stop, time)
             at == Walk(log, c, stop)
             S == {n \in a .. stop : n = stop \/ sum[stop] - sum[n] <= max}
             m == Min(S)
  <1>1. LogTyped(log) /\ Laid(log, g) /\ Summed(log, t) BY DEF Carried
  <1>2. /\ log.first.seq \in Nat /\ log.next.seq \in Nat
        /\ g \in [0 .. log.next.seq -> Nat]
    BY <1>1, LaidIs
  <1>3. a \in DOMAIN g /\ c = Cursor(a, g[a]) BY DEF OnWay
  <1>4. a \in Nat /\ a \in log.first.seq .. log.next.seq /\ stop \in a .. log.next.seq
    BY <1>2, <1>3
  <1>5. at = [n \in a .. stop |-> Cursor(n, g[n])]
    <2>1. Walk(log, Cursor(a, g[a]), stop) = [n \in a .. stop |-> Cursor(n, g[n])]
      BY <1>1, <1>4, WalkIs
    <2> QED BY <1>3, <2>1
  <1>6. sum = [n \in a .. stop |-> v[n] - v[a]] BY LinesUpToIs
  <1>7. Youngest(c, stop, max, time) = at[m] BY DEF Youngest
  <1>8. v \in [0 .. log.next.seq -> Nat] BY <1>1 DEF Summed
  <1> HIDE DEF sum, at, v
  <1>9. a .. stop \in SUBSET Nat /\ stop \in a .. stop BY <1>4
  <1>10. S \in SUBSET Nat /\ stop \in S BY <1>9
  <1>11. m \in S BY <1>10, MinOfSet
  <1>12. m \in a .. stop /\ (m = stop \/ sum[stop] - sum[m] <= max) BY <1>11
  <1> HIDE DEF m
  <1>13. at[m] = Cursor(m, g[m]) BY <1>5, <1>12
  <1>14. m \in Nat /\ a <= m /\ m <= stop /\ m \in 0 .. log.next.seq BY <1>2, <1>4, <1>12
  <1>15. OnWay(g, at[m]) /\ at[m] \in Cursors /\ at[m].seq = m
    BY <1>2, <1>13, <1>14 DEF OnWay, Cursor, Cursors
  <1>16. m < stop => v[stop] - v[m] <= max
    <2>1. sum[stop] = v[stop] - v[a] /\ sum[m] = v[m] - v[a] BY <1>6, <1>9, <1>12
    <2>2. v[stop] \in Nat /\ v[a] \in Nat /\ v[m] \in Nat
      <3>1. stop \in 0 .. log.next.seq /\ a \in 0 .. log.next.seq BY <1>2, <1>4
      <3> QED BY <1>8, <1>14, <3>1
    <2>3. m < stop => m # stop BY <1>14
    <2> QED BY <1>12, <2>1, <2>2, <2>3
  <1> QED BY <1>7, <1>14, <1>15, <1>16 DEF v

-----------------------------------------------------------------------------
(* Steps of the writers.                                                   *)

LEMMA ReaderHas ==
  ASSUME reader \in Readers
  PROVE  /\ reader.kind \in {"devkmsg", "syslog", "all", "lines", "blocks"}
         /\ reader.cur \in Cursors /\ reader.cur.seq \in Nat
         /\ reader.start \in Nat /\ reader.stop \in Nat /\ reader.end \in Nat
         /\ reader.partial \in Nat /\ reader.time \in BOOLEAN /\ reader.size \in Nat
         /\ reader.len \in Int /\ reader.held \in Pieces
  BY DEF Readers, Cursors

LEMMA GrownReads ==
  ASSUME NEW g, NEW t, Reading(g, t), Grows(log, g, t, log'), Typed',
         UNCHANGED <<reader, last, given, lost>>
  PROVE  LogInv'
  <1>1. Carried(log, g, t) /\ Typed /\ AllAccounted /\ InOrder BY DEF Reading
  <1>2. PICK h, u : Grown(log, g, t, log', h, u) BY DEF Grows
  <1>3. reader' = reader /\ last' = last /\ given' = given /\ lost' = lost OBVIOUS
  <1>4. Carried(log', h, u) BY <1>2 DEF Grown
  <1>5. /\ log.first.seq \in Nat /\ log.next.seq \in Nat
        /\ g \in [0 .. log.next.seq -> Nat]
    BY <1>1, LaidIs DEF Carried
  <1>6. /\ log'.first.seq \in Nat /\ log'.next.seq \in Nat
        /\ h \in [0 .. log'.next.seq -> Nat]
    BY <1>4, LaidIs DEF Carried
  <1>7. log.first.seq <= log'.first.seq /\ log.next.seq <= log'.next.seq BY <1>2 DEF Grown
  <1>8. \A n \in 0 .. log.next.seq :
          h[n] = g[n] /\ \A time \in BOOLEAN : u[time][n] = t[time][n]
    BY <1>2 DEF Grown
  <1>9. \A n \in 0 .. log.next.seq - 1, time \in BOOLEAN :
          TextOf(log', n, time) = TextOf(log, n, time)
    BY <1>2 DEF Grown, TextOf
  <1>10. reader # Closed => reader \in Readers BY <1>1 DEF Typed
  <1>11. ASSUME reader # Closed PROVE ReaderOk(h, u)'
    <2>1. ReaderOk(g, t) BY <1>11 DEF Reading
    <2>2. OnWay(g, reader.cur) /\ reader.stop <= log.next.seq /\ Holding /\ Room(t)
      BY <2>1 DEF ReaderOk
    <2>3. reader.stop \in Nat /\ reader.time \in BOOLEAN BY <1>10, <1>11, ReaderHas
    <2>4. reader.cur.seq \in 0 .. log.next.seq BY <1>5, <2>2 DEF OnWay
    <2>5. OnWay(h, reader.cur)
      <3>1. reader.cur.seq \in DOMAIN h BY <1>5, <1>6, <1>7, <2>4
      <3>2. h[reader.cur.seq] = g[reader.cur.seq] BY <1>8, <2>4
      <3> QED BY <2>2, <3>1, <3>2 DEF OnWay
    <2>6. reader.stop <= log'.next.seq BY <1>5, <1>6, <1>7, <2>2, <2>3
    <2>7. Holding' BY <1>3, <2>2 DEF Holding
    <2>8. Room(u)'
      <3>1. reader.stop \in 0 .. log.next.seq BY <1>5, <2>2, <2>3
      <3>2. /\ u[reader.time][reader.stop] = t[reader.time][reader.stop]
            /\ u[reader.time][reader.cur.seq] = t[reader.time][reader.cur.seq]
        BY <1>8, <2>3, <2>4, <3>1
      <3> QED BY <1>3, <2>2, <3>2 DEF Room
    <2> QED BY <1>3, <2>5, <2>6, <2>7, <2>8 DEF ReaderOk
  <1>12. AllAccounted'
    <2>1. \A seq \in Nat : Accounted(seq) => Accounted(seq)'
      BY <1>3, <1>5, <1>6, <1>7 DEF Accounted
    <2> SUFFICES ASSUME reader # Closed
                 PROVE  /\ \A seq \in reader.start .. reader.cur.seq - 1 : Accounted(seq)'
                        /\ reader.kind = "blocks" =>
                             \A seq \in reader.stop .. reader.end - 1 : Accounted(seq)'
      BY <1>3 DEF AllAccounted
    <2>2. /\ \A seq \in reader.start .. reader.cur.seq - 1 : seq \in Nat
          /\ \A seq \in reader.stop .. reader.end - 1 : seq \in Nat
      BY <1>10, ReaderHas
    <2>3. /\ \A seq \in reader.start .. reader.cur.seq - 1 : Accounted(seq)
          /\ reader.kind = "blocks" =>
               \A seq \in reader.stop .. reader.end - 1 : Accounted(seq)
      BY <1>1 DEF AllAccounted
    <2> QED BY <2>1, <2>2, <2>3
  <1>13. InOrder'
    <2>1. CASE reader = Closed \/ reader.kind = "blocks" \/ reader.kind = "all"
      BY <1>1, <1>3, <2>1 DEF InOrder
    <2>2. CASE ~(reader = Closed \/ reader.kind = "blocks" \/ reader.kind = "all")
      <3>1. Begun BY <1>1, <2>2 DEF InOrder
      <3>2. reader.cur.seq \in Nat /\ reader.time \in BOOLEAN BY <1>10, <2>2, ReaderHas
      <3>3. Begun'
        <4>1. CASE reader.partial = 0 BY <1>3, <3>1, <4>1 DEF Begun
        <4>2. CASE reader.partial # 0
          <5>1. reader.cur.seq < log.next.seq BY <3>1, <4>2 DEF Begun
          <5>2. reader.cur.seq \in 0 .. log.next.seq - 1 BY <1>5, <3>2, <5>1
          <5>3. TextOf(log', reader.cur.seq, reader.time) = TextOf(log, reader.cur.seq, reader.time)
            BY <1>9, <3>2, <5>2
          <5>4. reader.cur.seq < log'.next.seq BY <1>5, <1>6, <1>7, <3>2, <5>1
          <5> QED BY <1>3, <3>1, <4>2, <5>3, <5>4 DEF Begun
        <4> QED BY <4>1, <4>2
      <3> QED BY <1>3, <2>2, <3>3 DEF InOrder
    <2> QED BY <2>1, <2>2
  <1>14. Reading(h, u)'
    BY <1>3, <1>4, <1>11, <1>12, <1>13 DEF Reading
  <1> QED BY <1>14 DEF LogInv

LEMMA SayGrows ==
  ASSUME NEW g, NEW t, Reading(g, t), NEW m \in Messages, Say(m)
  PROVE  Grows(log, g, t, log') /\ Typed'
  <1> DEFINE text == IF m.len = 0 THEN <<>> ELSE <<Len(said) + 1>>
             r == LogOutput(Pair(log, cont), m, text)
  <1>1. Carried(log, g, t) /\ Typed BY DEF Reading
  <1>2. cont \in Line /\ said \in Seq(Messages) BY <1>1 DEF Typed
  <1>3. text \in Seq(Nat) BY <1>2
  <1>4. log' = r.log /\ cont' = r.cont BY DEF Say
  <1>5. /\ said' = Append(said, m)
        /\ UNCHANGED <<timeset, reader, last, given, cut, lost>>
    BY DEF Say
  <1> HIDE DEF text
  <1>6. Grows(log, g, t, r.log) /\ r.cont \in Line BY <1>1, <1>2, <1>3, LogOutputGrows
  <1> HIDE DEF r
  <1>7. said' \in Seq(Messages) BY <1>2, <1>5
  <1>8. Typed' BY <1>1, <1>4, <1>5, <1>6, <1>7 DEF Typed
  <1>9. Grows(log, g, t, log') BY <1>4, <1>6
  <1> QED BY <1>8, <1>9

LEMMA SayReads ==
  ASSUME NEW g, NEW t, Reading(g, t), NEW m \in Messages, Say(m)
  PROVE  LogInv'
  <1>1. UNCHANGED <<reader, last, given, cut, lost>> BY DEF Say
  <1> QED BY <1>1, SayGrows, GrownReads

LEMMA SetupLogBufReads ==
  ASSUME NEW g, NEW t, Reading(g, t), SetupLogBuf
  PROVE  LogInv'
  <1>1. Carried(log, g, t) /\ Typed BY DEF Reading
  <1>2. LogTyped(log) /\ Laid(log, g) BY <1>1 DEF Carried
  <1>3. log.len < BigLen /\ UNCHANGED <<cont, said, timeset, reader, last, given, cut, lost>>
    BY DEF SetupLogBuf
  <1>4. log' = [log EXCEPT !.len = BigLen,
                           !.mem = [i \in 0 .. BigLen - 1 |->
                                      IF i < BufLen THEN log.mem[i] ELSE Zero]]
    BY DEF SetupLogBuf
  <1>5. LogTyped(log') /\ Laid(log', g) BY <1>2, <1>3, <1>4, BiggerIsLaid
  <1>6. log'.first = log.first /\ log'.next = log.next /\ log'.stored = log.stored
    BY <1>2, <1>4 DEF LogTyped
  <1>7. Summed(log', t) BY <1>1, <1>6 DEF Carried, Summed, LineOf
  <1>8. log.first.seq \in Nat /\ log.next.seq \in Nat BY <1>2, LaidIs
  <1>9. Grown(log, g, t, log', g, t)
    BY <1>5, <1>6, <1>7, <1>8 DEF Grown, Carried
  <1>10. Typed' BY <1>1, <1>3 DEF Typed
  <1>11. Grows(log, g, t, log') BY <1>9 DEF Grows
  <1> QED BY <1>3, <1>10, <1>11, GrownReads

LEMMA ClearedGrows ==
  ASSUME NEW g, NEW t, Carried(log, g, t)
  PROVE  LET m == [log EXCEPT !.clear = log.next]
         IN  /\ Grown(log, g, t, m, g, t)
             /\ m.first = log.first /\ m.next = log.next /\ m.stored = log.stored
  <1> DEFINE m == [log EXCEPT !.clear = log.next]
             F == log.first.seq
             N == log.next.seq
  <1>1. LogTyped(log) /\ Laid(log, g) BY DEF Carried
  <1>2. /\ F \in Nat /\ N \in Nat /\ F <= N /\ log.clear.seq \in Nat /\ log.clear.seq <= N
        /\ log.first = Cursor(F, g[F]) /\ log.next = Cursor(N, g[N])
    <2>1. /\ F \in Nat /\ N \in Nat /\ log.clear.seq \in Nat
          /\ F <= log.clear.seq /\ log.clear.seq <= N
      BY <1>1, LaidIs
    <2>2. log.first = Cursor(F, g[F]) /\ log.next = Cursor(N, g[N]) BY <1>1, LaidIs
    <2> QED BY <2>1, <2>2
  <1>3. m = [log EXCEPT !.first = Cursor(F, g[F]), !.clear = Cursor(N, g[N])]
    BY <1>1, <1>2 DEF LogTyped
  <1>4. F \in F .. N /\ N \in F .. N BY <1>2
  <1>5. m.first = log.first /\ m.clear = log.next /\ m.next = log.next /\ m.stored = log.stored
    BY <1>1 DEF LogTyped
  <1>6. m = [log EXCEPT !.first = m.first, !.clear = m.clear] BY <1>3, <1>5, <1>2
  <1> HIDE DEF m
  <1>7. LogTyped(m) /\ Laid(m, g) BY <1>1, <1>3, <1>4, DroppedIsLaid
  <1>8. Later(log, m) BY <1>2, <1>5, <1>6 DEF Later
  <1>9. Grown(log, g, t, m, g, t) BY <1>7, <1>8, LaterGrows
  <1> QED BY <1>5, <1>9 DEF m

LEMMA SyslogClearReads ==
  ASSUME NEW g, NEW t, Reading(g, t), SyslogClear
  PROVE  LogInv'
  <1>1. Carried(log, g, t) /\ Typed BY DEF Reading
  <1>2. log' = [log EXCEPT !.clear = log.next]
        /\ UNCHANGED <<cont, said, timeset, reader, last, given, cut, lost>>
    BY DEF SyslogClear
  <1>3. Grows(log, g, t, log') BY <1>1, <1>2, ClearedGrows DEF Grows
  <1>4. Typed' BY <1>1, <1>2 DEF Typed
  <1> QED BY <1>2, <1>3, <1>4, GrownReads

LEMMA SetTimeReads ==
  ASSUME NEW g, NEW t, Reading(g, t), SetTime
  PROVE  LogInv'
  <1>1. Carried(log, g, t) /\ Typed BY DEF Reading
  <1>2. timeset' = timeset + 1 /\ UNCHANGED <<log, cont, said, reader, last, given, cut, lost>>
    BY DEF SetTime
  <1>3. Grows(log, g, t, log') BY <1>1, <1>2, GrownStays DEF Grows
  <1>4. Typed' BY <1>1, <1>2 DEF Typed
  <1> QED BY <1>2, <1>3, <1>4, GrownReads

-----------------------------------------------------------------------------
(* Steps of the readers.                                                   *)

LEMMA ReadReads ==
  ASSUME NEW g, NEW t, Reading(g, t), UNCHANGED <<cont, said, timeset>>,
         Carried(log', g, t), reader' \in Readers, last' \in Pieces,
         given' \subseteq Nat, lost' \subseteq Nat,
         ReaderOk(g, t)', AllAccounted', InOrder'
  PROVE  LogInv'
  <1>1. Typed BY DEF Reading
  <1>2. Typed' BY <1>1 DEF Typed
  <1>3. Reading(g, t)' BY <1>2 DEF Reading
  <1> QED BY <1>3 DEF LogInv

LEMMA LogHas ==
  ASSUME NEW g, NEW t, Reading(g, t)
  PROVE  /\ Carried(log, g, t) /\ Typed /\ AllAccounted /\ InOrder
         /\ log.first.seq \in Nat /\ log.clear.seq \in Nat /\ log.next.seq \in Nat
         /\ log.first.seq <= log.clear.seq /\ log.clear.seq <= log.next.seq
         /\ g \in [0 .. log.next.seq -> Nat] /\ g[0] = 0
         /\ \A c \in {log.first, log.clear, log.next} : OnWay(g, c) /\ c \in Cursors
         /\ reader # Closed => reader \in Readers
  <1>1. Carried(log, g, t) /\ Typed /\ AllAccounted /\ InOrder BY DEF Reading
  <1>2. LogTyped(log) /\ Laid(log, g) BY <1>1 DEF Carried
  <1>3. /\ log.first.seq \in Nat /\ log.clear.seq \in Nat /\ log.next.seq \in Nat
        /\ log.first.seq <= log.clear.seq /\ log.clear.seq <= log.next.seq
    BY <1>2, LaidIs
  <1>4. /\ g \in [0 .. log.next.seq -> Nat] /\ g[0] = 0
        /\ OnWay(g, log.first) /\ OnWay(g, log.clear) /\ OnWay(g, log.next)
    BY <1>2 DEF Laid
  <1>5. log.first \in Cursors /\ log.clear \in Cursors /\ log.next \in Cursors
    BY <1>2 DEF LogTyped
  <1> QED BY <1>1, <1>3, <1>4, <1>5 DEF Typed

LEMMA ReaderIs ==
  ASSUME NEW g, NEW t, Reading(g, t), reader # Closed
  PROVE  /\ reader \in Readers /\ ReaderOk(g, t)
         /\ OnWay(g, reader.cur) /\ reader.stop <= log.next.seq /\ Holding /\ Room(t)
         /\ last \in Pieces /\ given \subseteq Nat /\ lost \subseteq Nat
  <1>1. Typed /\ ReaderOk(g, t) BY DEF Reading
  <1> QED BY <1>1 DEF Typed, ReaderOk

LEMMA NoPieceIs == NoPiece \in Pieces /\ NoPiece.seq = -1
  BY DEF NoPiece, Pieces

LEMMA NewReads ==
  ASSUME NEW g, NEW t, Reading(g, t), UNCHANGED <<log, cont, said, timeset>>,
         NEW kind \in {"devkmsg", "syslog", "all", "lines", "blocks"},
         NEW cur \in Cursors, OnWay(g, cur), NEW stop \in Nat, stop <= log.next.seq,
         reader' = NewReader(kind, cur, stop),
         last' = NoPiece, given' \subseteq Nat, lost' \subseteq Nat
  PROVE  LogInv'
  <1> DEFINE r == NewReader(kind, cur, stop)
  <1>1. /\ r.kind = kind /\ r.cur = cur /\ r.start = cur.seq /\ r.stop = stop /\ r.end = stop
        /\ r.partial = 0 /\ r.size = 0 /\ r.held = NoPiece
    BY DEF NewReader
  <1>2. cur.seq \in Nat BY DEF Cursors
  <1>3. r \in Readers
    <2>1. 0 \in Nat /\ 0 \in Int OBVIOUS
    <2> QED BY <1>2, <2>1, NoPieceIs DEF NewReader, Readers
  <1>4. reader' = r OBVIOUS
  <1> HIDE DEF r
  <1>5. ReaderOk(g, t)'
    <2>1. Holding' BY <1>1, <1>4 DEF Holding
    <2>2. Room(t)' BY <1>1, <1>4 DEF Room
    <2> QED BY <1>1, <1>4, <2>1, <2>2 DEF ReaderOk
  <1>6. AllAccounted'
    <2>1. cur.seq .. cur.seq - 1 = {} /\ stop .. stop - 1 = {} BY <1>2
    <2> QED BY <1>1, <1>4, <2>1 DEF AllAccounted
  <1>7. InOrder'
    <2>1. (NoPiece).seq < cur.seq BY <1>2, NoPieceIs
    <2>2. kind = "all" => InOrder' BY <1>1, <1>3, <1>4 DEF InOrder, Readers, Closed
    <2>3. kind # "all" => InOrder' BY <1>1, <1>4, <2>1 DEF InOrder, Begun
    <2> QED BY <2>2, <2>3
  <1>8. Carried(log', g, t) BY LogHas
  <1> QED BY <1>3, <1>4, <1>5, <1>6, <1>7, <1>8, NoPieceIs, ReadReads

LEMMA OpenReads ==
  ASSUME NEW g, NEW t, Reading(g, t), Open
  PROVE  LogInv' /\ last' = last
  <1>1. reader = Closed /\ UNCHANGED <<log, cont, said, timeset>> /\ UNCHANGED <<last, given, cut, lost>>
    BY DEF Open, NothingRead
  <1>2. last = NoPiece BY <1>1 DEF Reading, InOrder
  <1>3. given' \subseteq Nat /\ lost' \subseteq Nat BY <1>1 DEF Reading, Typed
  <1>4. PICK kind \in Kinds :
          reader' = CASE kind = "devkmsg" -> NewReader(kind, log.first, 0)
                      [] kind = "syslog"  -> NewReader(kind, Cursor(0, 0), 0)
                      [] kind = "all"     -> NewReader(kind, log.clear, 0)
                      [] OTHER            -> NewReader(kind, log.clear, log.next.seq)
    BY DEF Open
  <1>5. kind \in {"devkmsg", "syslog", "all", "lines", "blocks"} BY LogAssumption
  <1>6. /\ OnWay(g, log.first) /\ log.first \in Cursors
        /\ OnWay(g, log.clear) /\ log.clear \in Cursors
        /\ log.next.seq \in Nat
    BY LogHas
  <1>7. OnWay(g, Cursor(0, 0)) /\ Cursor(0, 0) \in Cursors
    <2>1. g \in [0 .. log.next.seq -> Nat] /\ g[0] = 0 BY LogHas
    <2>2. 0 \in DOMAIN g BY <1>6, <2>1
    <2> QED BY <2>1, <2>2 DEF OnWay, Cursor, Cursors
  <1>8. 0 \in Nat /\ 0 <= log.next.seq /\ log.next.seq <= log.next.seq BY <1>6
  <1>9. LogInv'
    <2>1. CASE kind = "devkmsg"
      <3>1. reader' = NewReader(kind, log.first, 0) BY <1>4, <2>1
      <3> QED BY <1>1, <1>2, <1>3, <1>5, <1>6, <1>8, <3>1, NewReads
    <2>2. CASE kind = "syslog"
      <3>1. reader' = NewReader(kind, Cursor(0, 0), 0) BY <1>4, <2>2
      <3> QED BY <1>1, <1>2, <1>3, <1>5, <1>7, <1>8, <3>1, NewReads
    <2>3. CASE kind = "all"
      <3>1. reader' = NewReader(kind, log.clear, 0) BY <1>4, <2>3
      <3> QED BY <1>1, <1>2, <1>3, <1>5, <1>6, <1>8, <3>1, NewReads
    <2>4. CASE kind \in {"lines", "blocks"}
      <3>1. reader' = NewReader(kind, log.clear, log.next.seq) BY <1>4, <2>4
      <3> QED BY <1>1, <1>2, <1>3, <1>5, <1>6, <1>8, <3>1, NewReads
    <2> QED BY <1>5, <2>1, <2>2, <2>3, <2>4
  <1> QED BY <1>1, <1>9

LEMMA DumpRewindReads ==
  ASSUME NEW g, NEW t, Reading(g, t), DumpRewind
  PROVE  LogInv' /\ last' = NoPiece
  <1>1. UNCHANGED <<log, cont, said, timeset>> /\ last' = NoPiece /\ given' = {} /\ lost' = {}
    BY DEF DumpRewind, Forget
  <1>2. PICK kind \in {"lines", "blocks"} : reader' = NewReader(kind, log.clear, log.next.seq)
    BY DEF DumpRewind
  <1>3. kind \in {"devkmsg", "syslog", "all", "lines", "blocks"} OBVIOUS
  <1>4. OnWay(g, log.clear) /\ log.clear \in Cursors /\ log.next.seq \in Nat BY LogHas
  <1>5. log.next.seq <= log.next.seq BY <1>4
  <1> QED BY <1>1, <1>2, <1>3, <1>4, <1>5, NewReads

(* Nothing is skipped when every record gone past is accounted for.        *)
LEMMA MovesOn ==
  ASSUME AllAccounted, reader \in Readers, reader' \in Readers,
         reader'.start = reader.start, reader'.kind = reader.kind, reader.kind # "blocks",
         log'.first = log.first, given \subseteq given', lost \subseteq lost',
         reader.held.seq \in given' \cup lost' \cup {-1, reader'.held.seq},
         \A seq \in Nat :
           reader.cur.seq <= seq /\ seq < reader'.cur.seq => Accounted(seq)'
  PROVE  AllAccounted'
  <1>1. reader # Closed BY DEF Readers, Closed
  <1>2. \A seq \in reader.start .. reader.cur.seq - 1 : Accounted(seq)
    BY <1>1 DEF AllAccounted
  <1>3. reader.start \in Nat /\ reader.cur.seq \in Nat BY ReaderHas
  <1>4. reader'.cur.seq \in Nat BY DEF Readers, Cursors
  <1>5. ASSUME NEW seq \in reader.start .. reader'.cur.seq - 1 PROVE Accounted(seq)'
    <2>1. seq \in Nat /\ reader.start <= seq /\ seq < reader'.cur.seq BY <1>3, <1>4
    <2>2. CASE reader.cur.seq <= seq BY <2>1, <2>2
    <2>3. CASE ~(reader.cur.seq <= seq)
      <3>1. seq \in reader.start .. reader.cur.seq - 1 BY <1>3, <2>1, <2>3
      <3>2. Accounted(seq) BY <1>2, <3>1
      <3>3. seq # -1 BY <2>1
      <3> QED BY <3>2, <3>3 DEF Accounted
    <2> QED BY <2>2, <2>3
  <1> QED BY <1>5 DEF AllAccounted

LEMMA PieceIs ==
  ASSUME NEW g, NEW t, Carried(log, g, t), NEW c, OnWay(g, c),
         log.first.seq <= c.seq, c.seq < log.next.seq,
         NEW from \in Nat, NEW n \in Int, NEW of \in Nat, NEW left \in Nat
  PROVE  LET p == Piece(c, from, n, of, left)
         IN  /\ p \in Pieces /\ p.seq = c.seq /\ p.rec = c.seq /\ p.seq \in Nat
             /\ p.from = from /\ p.n = n /\ p.of = of /\ p.left = left
  <1>1. c.seq \in Nat /\ RecordAt(log, c.idx) = c.seq BY CursorIs
  <1> QED BY <1>1 DEF Piece, Pieces

(* /dev/kmsg and kmsg_dump_get_line() go to the oldest record there is...  *)
LEMMA JumpReads ==
  ASSUME NEW g, NEW t, Reading(g, t), UNCHANGED <<log, cont, said, timeset>>, NothingRead,
         reader # Closed, reader.kind \in {"devkmsg", "syslog", "lines"},
         reader.partial = 0 \/ Gone(reader.cur),
         reader' = [reader EXCEPT !.cur = Caught(reader.cur), !.partial = 0]
  PROVE  LogInv'
  <1> DEFINE d == Caught(reader.cur)
  <1>1. /\ reader \in Readers /\ OnWay(g, reader.cur) /\ reader.stop <= log.next.seq
        /\ Holding /\ last \in Pieces /\ given \subseteq Nat /\ lost \subseteq Nat
    BY ReaderIs
  <1>2. Carried(log, g, t) /\ AllAccounted /\ InOrder BY DEF Reading
  <1>3. /\ OnWay(g, d) /\ d \in Cursors /\ reader.cur.seq \in Nat
        /\ reader.cur.seq <= d.seq /\ (d.seq # reader.cur.seq => d.seq = log.first.seq)
        /\ ~Gone(reader.cur) => d = reader.cur
        /\ Gone(reader.cur) => reader.cur.seq < d.seq
    BY <1>1, <1>2, CaughtIs
  <1>4. last' = last /\ given' = given /\ lost' = lost /\ log' = log BY DEF NothingRead
  <1> HIDE DEF d
  <1>5. /\ reader'.kind = reader.kind /\ reader'.cur = d /\ reader'.start = reader.start
        /\ reader'.stop = reader.stop /\ reader'.size = reader.size /\ reader'.held = reader.held
        /\ reader'.partial = 0 /\ reader'.time = reader.time
    BY <1>1 DEF Readers, d
  <1>6. reader' \in Readers BY <1>1, <1>3 DEF Readers, d
  <1>7. reader.held = NoPiece BY <1>1 DEF Holding
  <1>8. ReaderOk(g, t)'
    <2>1. Holding' BY <1>5, <1>7 DEF Holding
    <2>2. Room(t)' BY <1>5 DEF Room
    <2> QED BY <1>1, <1>3, <1>4, <1>5, <2>1, <2>2 DEF ReaderOk
  <1>9. AllAccounted'
    <2>1. \A seq \in Nat : reader.cur.seq <= seq /\ seq < d.seq => Accounted(seq)'
      BY <1>3, <1>4 DEF Accounted
    <2>2. reader.held.seq = -1 BY <1>7, NoPieceIs
    <2> QED BY <1>1, <1>2, <1>4, <1>5, <1>6, <2>1, <2>2, MovesOn
  <1>10. InOrder'
    <2>1. Begun BY <1>2 DEF InOrder
    <2>2. last.seq < d.seq
      <3>1. d.seq \in Nat /\ last.seq \in Int BY <1>1, <1>3 DEF Cursors, Pieces
      <3>2. CASE reader.partial = 0
        <4>1. last.seq < reader.cur.seq BY <2>1, <3>2 DEF Begun
        <4> QED BY <1>3, <3>1, <4>1
      <3>3. CASE reader.partial # 0
        <4>1. last.seq <= reader.cur.seq BY <2>1, <3>3 DEF Begun
        <4>2. reader.cur.seq < d.seq BY <1>3, <3>3
        <4> QED BY <1>3, <3>1, <4>1, <4>2
      <3> QED BY <3>2, <3>3
    <2>3. Begun' BY <1>4, <1>5, <2>2 DEF Begun
    <2>4. reader' # Closed BY <1>6 DEF Readers, Closed
    <2> QED BY <1>5, <2>3, <2>4 DEF InOrder
  <1>11. Carried(log', g, t) BY <1>2, <1>4
  <1> QED BY <1>1, <1>4, <1>6, <1>8, <1>9, <1>10, <1>11, ReadReads

(* ... and give the next line as a whole, or lose it.                      *)
LEMMA LineReads ==
  ASSUME NEW g, NEW t, Reading(g, t), UNCHANGED <<log, cont, said, timeset>>,
         reader # Closed, reader.kind \in {"devkmsg", "lines"},
         NEW c, OnWay(g, c), log.first.seq <= c.seq, c.seq < log.next.seq,
         reader.cur.seq <= c.seq,
         c.seq # reader.cur.seq => c.seq = log.first.seq,
         NEW time \in BOOLEAN,
         reader' = [reader EXCEPT !.cur = Following(log, c)],
         \/ HandOver(Piece(c, 0, LineLen(c, time), LineLen(c, time), 0))
         \/ lost' = lost \cup {c.seq} /\ UNCHANGED <<last, given, cut>>
  PROVE  /\ LogInv' /\ (last' = last \/ Ordered)
         /\ cut' = cut /\ reader'.held = reader.held
  <1> DEFINE d == Following(log, c)
             n == LineLen(c, time)
             p == Piece(c, 0, n, n, 0)
  <1>1. /\ reader \in Readers /\ OnWay(g, reader.cur) /\ reader.stop <= log.next.seq
        /\ Holding /\ last \in Pieces /\ given \subseteq Nat /\ lost \subseteq Nat
    BY ReaderIs
  <1>2. Carried(log, g, t) /\ AllAccounted /\ InOrder BY DEF Reading
  <1>3. /\ c.seq \in Nat /\ OnWay(g, d) /\ d \in Cursors /\ d.seq = c.seq + 1
        /\ n \in Nat \ {0}
    BY <1>2, CursorIs
  <1>4. 0 \in Nat /\ n \in Nat /\ n \in Int BY <1>3
  <1>5. /\ p \in Pieces /\ p.seq = c.seq /\ p.rec = c.seq
        /\ p.from = 0 /\ p.n = n /\ p.of = n /\ p.left = 0
    <2> HIDE DEF n
    <2> QED BY <1>2, <1>4, PieceIs
  <1> HIDE DEF d, n, p
  <1>6. /\ cut' = cut
        /\ \/ last' = p /\ given' = given \cup {c.seq} /\ lost' = lost
           \/ last' = last /\ given' = given /\ lost' = lost \cup {c.seq}
    <2>1. CASE HandOver(p)
      <3>1. p.from + p.n = p.of BY <1>4, <1>5
      <3> QED BY <1>5, <2>1, <3>1 DEF HandOver
    <2>2. CASE lost' = lost \cup {c.seq} /\ UNCHANGED <<last, given, cut>> BY <2>2
    <2> QED BY <2>1, <2>2 DEF p, n
  <1>7. /\ reader'.kind = reader.kind /\ reader'.cur = d /\ reader'.start = reader.start
        /\ reader'.stop = reader.stop /\ reader'.size = reader.size /\ reader'.held = reader.held
        /\ reader'.partial = reader.partial
    BY <1>1 DEF Readers, d
  <1>8. reader' \in Readers BY <1>1, <1>3 DEF Readers, d
  <1>9. reader.held = NoPiece BY <1>1 DEF Holding
  <1>10. ReaderOk(g, t)'
    <2>1. Holding' BY <1>7, <1>9 DEF Holding
    <2>2. Room(t)' BY <1>7 DEF Room
    <2> QED BY <1>1, <1>3, <1>7, <2>1, <2>2 DEF ReaderOk
  <1>11. reader.cur.seq \in Nat /\ log.first.seq \in Nat BY <1>1, ReaderHas, LogHas
  <1>12. AllAccounted'
    <2>1. \A seq \in Nat : reader.cur.seq <= seq /\ seq < d.seq => Accounted(seq)'
      <3> SUFFICES ASSUME NEW seq \in Nat, reader.cur.seq <= seq, seq < d.seq
                   PROVE  Accounted(seq)'
        OBVIOUS
      <3>1. seq = c.seq \/ seq < c.seq BY <1>3
      <3>2. CASE seq = c.seq BY <1>6, <3>2 DEF Accounted
      <3>3. CASE seq < c.seq
        <4>1. seq < log.first.seq BY <1>3, <1>11, <3>3
        <4> QED BY <4>1 DEF Accounted
      <3> QED BY <3>1, <3>2, <3>3
    <2>2. reader.held.seq = -1 BY <1>9, NoPieceIs
    <2>3. given \subseteq given' /\ lost \subseteq lost' BY <1>6
    <2> QED BY <1>1, <1>2, <1>7, <1>8, <2>1, <2>2, <2>3, MovesOn
  <1>13. reader.partial = 0 /\ last.seq < reader.cur.seq
    BY <1>2 DEF InOrder, Begun
  <1>14. last.seq \in Int /\ last.seq < c.seq
    <2>1. last.seq \in Int BY <1>1 DEF Pieces
    <2> QED BY <1>3, <1>11, <1>13, <2>1
  <1>15. InOrder'
    <2>1. last'.seq < d.seq BY <1>3, <1>5, <1>6, <1>14
    <2>2. Begun' BY <1>7, <1>13, <2>1 DEF Begun
    <2>3. reader' # Closed BY <1>8 DEF Readers, Closed
    <2> QED BY <1>7, <2>2, <2>3 DEF InOrder
  <1>16. last' = last \/ Ordered
    <2>1. CASE last' = p
      <3>1. 0 + n <= n BY <1>4
      <3>2. last'.seq > last.seq BY <1>3, <1>5, <1>14, <2>1
      <3> QED BY <1>5, <2>1, <3>1, <3>2 DEF Ordered
    <2> QED BY <1>6, <2>1
  <1>17. Carried(log', g, t) BY <1>2
  <1>18. last' \in Pieces /\ given' \subseteq Nat /\ lost' \subseteq Nat
    BY <1>1, <1>3, <1>5, <1>6
  <1>19. LogInv' BY <1>8, <1>10, <1>12, <1>15, <1>17, <1>18, ReadReads
  <1> QED BY <1>6, <1>7, <1>16, <1>19

LEMMA DevkmsgReadReads ==
  ASSUME NEW g, NEW t, Reading(g, t), DevkmsgRead
  PROVE  /\ LogInv' /\ (last' = last \/ Ordered)
         /\ cut' = cut /\ reader'.held = reader.held
  <1>1. /\ reader.kind = "devkmsg" /\ reader.cur.seq # log.next.seq
        /\ UNCHANGED <<log, cont, said, timeset>>
    BY DEF DevkmsgRead
  <1>2. reader # Closed BY <1>1 DEF Closed
  <1>3. reader \in Readers /\ OnWay(g, reader.cur) BY <1>2, ReaderIs
  <1>4. Carried(log, g, t) /\ InOrder BY DEF Reading
  <1>5. reader.partial = 0 BY <1>1, <1>2, <1>4 DEF InOrder, Begun
  <1>6. CASE Gone(reader.cur)
    <2>1. reader' = [reader EXCEPT !.cur = log.first] /\ NothingRead BY <1>6 DEF DevkmsgRead
    <2>2. Caught(reader.cur) = log.first BY <1>6 DEF Caught
    <2>3. reader' = [reader EXCEPT !.cur = Caught(reader.cur), !.partial = 0]
      BY <1>3, <1>5, <2>1, <2>2 DEF Readers
    <2>4. LogInv' BY <1>1, <1>2, <1>5, <2>1, <2>3, JumpReads
    <2>5. reader'.held = reader.held BY <1>3, <2>1 DEF Readers
    <2> QED BY <2>1, <2>4, <2>5 DEF NothingRead
  <1>7. CASE ~Gone(reader.cur)
    <2> DEFINE n == LineLen(reader.cur, TRUE)
               p == Piece(reader.cur, 0, n, n, 0)
    <2>1. reader' = [reader EXCEPT !.cur = Following(log, reader.cur)]
          /\ (HandOver(p) \/ Lose(p))
      BY <1>7 DEF DevkmsgRead
    <2>2. Caught(reader.cur) = reader.cur BY <1>7 DEF Caught
    <2>3. reader.cur.seq \in Nat /\ log.first.seq <= reader.cur.seq /\ reader.cur.seq <= log.next.seq
      BY <1>3, <1>4, <2>2, CaughtIs
    <2>4. log.next.seq \in Nat BY LogHas
    <2>5. reader.cur.seq < log.next.seq BY <1>1, <2>3, <2>4
    <2>6. HandOver(p) \/ (lost' = lost \cup {reader.cur.seq} /\ UNCHANGED <<last, given, cut>>)
      BY <2>1 DEF Lose, Piece
    <2>7. TRUE \in BOOLEAN /\ reader.cur.seq <= reader.cur.seq BY <2>3
    <2> QED BY <1>1, <1>2, <1>3, <2>1, <2>3, <2>5, <2>6, <2>7, LineReads
  <1> QED BY <1>6, <1>7

LEMMA DumpGetLineReads ==
  ASSUME NEW g, NEW t, Reading(g, t), DumpGetLine
  PROVE  /\ LogInv' /\ (last' = last \/ Ordered)
         /\ cut' = cut /\ reader'.held = reader.held
  <1> DEFINE c == Caught(reader.cur)
  <1>1. reader.kind = "lines" /\ UNCHANGED <<log, cont, said, timeset>> BY DEF DumpGetLine
  <1>2. reader # Closed BY <1>1 DEF Closed
  <1>3. reader \in Readers /\ OnWay(g, reader.cur) BY <1>2, ReaderIs
  <1>4. Carried(log, g, t) /\ InOrder BY DEF Reading
  <1>5. reader.partial = 0 BY <1>1, <1>2, <1>4 DEF InOrder, Begun
  <1>6. /\ OnWay(g, c) /\ c \in Cursors /\ reader.cur.seq \in Nat
        /\ log.first.seq <= c.seq /\ c.seq <= log.next.seq
        /\ reader.cur.seq <= c.seq /\ (c.seq # reader.cur.seq => c.seq = log.first.seq)
    BY <1>3, <1>4, CaughtIs
  <1>7. CASE c.seq >= log.next.seq
    <2>1. reader' = [reader EXCEPT !.cur = c] /\ NothingRead BY <1>7 DEF DumpGetLine
    <2>2. reader' = [reader EXCEPT !.cur = Caught(reader.cur), !.partial = 0]
      BY <1>3, <1>5, <2>1 DEF Readers
    <2>3. LogInv' BY <1>1, <1>2, <1>5, <2>1, <2>2, JumpReads
    <2>4. reader'.held = reader.held BY <1>3, <2>1 DEF Readers
    <2> QED BY <2>1, <2>3, <2>4 DEF NothingRead
  <1>8. CASE ~(c.seq >= log.next.seq)
    <2> DEFINE n == LineLen(c, printk_time)
               p == Piece(c, 0, n, n, 0)
    <2>1. reader' = [reader EXCEPT !.cur = Following(log, c)]
          /\ (HandOver(p) \/ (lost' = lost \cup {c.seq} /\ UNCHANGED <<last, given, cut>>))
      BY <1>8 DEF DumpGetLine
    <2>2. log.next.seq \in Nat /\ c.seq \in Nat BY <1>6, LogHas DEF Cursors
    <2>3. c.seq < log.next.seq BY <1>8, <2>2
    <2>4. printk_time \in BOOLEAN BY DEF printk_time
    <2> HIDE DEF c
    <2> QED BY <1>1, <1>2, <1>6, <2>1, <2>3, <2>4, LineReads
  <1> QED BY <1>7, <1>8

LEMMA DevkmsgSeekReads ==
  ASSUME NEW g, NEW t, Reading(g, t), DevkmsgSeek
  PROVE  LogInv' /\ last' = NoPiece
  <1>1. /\ reader.kind = "devkmsg" /\ UNCHANGED <<log, cont, said, timeset>>
        /\ last' = NoPiece /\ given' = {} /\ lost' = {}
    BY DEF DevkmsgSeek, Forget
  <1>2. reader # Closed BY <1>1 DEF Closed
  <1>3. PICK c \in {log.first, log.clear, log.next} :
          reader' = [reader EXCEPT !.cur = c, !.start = c.seq]
    BY DEF DevkmsgSeek
  <1>4. reader \in Readers /\ reader.stop <= log.next.seq /\ Holding BY <1>2, ReaderIs
  <1>5. Carried(log, g, t) /\ InOrder /\ OnWay(g, c) /\ c \in Cursors BY LogHas
  <1>6. c.seq \in Nat BY <1>5 DEF Cursors
  <1>7. /\ reader'.kind = "devkmsg" /\ reader'.cur = c /\ reader'.start = c.seq
        /\ reader'.stop = reader.stop /\ reader'.held = reader.held
        /\ reader'.partial = reader.partial
    BY <1>1, <1>3, <1>4 DEF Readers
  <1>8. reader' \in Readers BY <1>3, <1>4, <1>5, <1>6 DEF Readers
  <1>9. ReaderOk(g, t)'
    <2>1. Holding' BY <1>1, <1>4, <1>7 DEF Holding
    <2>2. Room(t)' BY <1>7 DEF Room
    <2> QED BY <1>1, <1>4, <1>5, <1>7, <2>1, <2>2 DEF ReaderOk
  <1>10. AllAccounted'
    <2>1. c.seq .. c.seq - 1 = {} BY <1>6
    <2> QED BY <1>7, <2>1 DEF AllAccounted
  <1>11. InOrder'
    <2>1. reader.partial = 0 BY <1>1, <1>2, <1>5 DEF InOrder, Begun
    <2>2. last'.seq < c.seq BY <1>1, <1>6, NoPieceIs
    <2>3. reader' # Closed BY <1>8 DEF Readers, Closed
    <2> QED BY <1>7, <2>1, <2>2, <2>3 DEF InOrder, Begun
  <1>12. last' \in Pieces /\ given' \subseteq Nat /\ lost' \subseteq Nat /\ Carried(log', g, t)
    BY <1>1, <1>5, NoPieceIs
  <1>13. LogInv' BY <1>1, <1>8, <1>9, <1>10, <1>11, <1>12, ReadReads
  <1> QED BY <1>1, <1>13

(* The call that consumes.                                                 *)
LEMMA SyslogReads ==
  ASSUME NEW g, NEW t, Reading(g, t), UNCHANGED <<log, cont, said, timeset>>,
         reader.kind = "syslog", reader' \in Readers, reader'.kind = "syslog",
         reader'.start = reader.start, reader'.stop = reader.stop, reader'.held = reader.held,
         OnWay(g, reader'.cur),
         last' \in Pieces, given \subseteq given', lost \subseteq lost',
         given' \subseteq Nat, lost' \subseteq Nat,
         \A seq \in Nat :
           reader.cur.seq <= seq /\ seq < reader'.cur.seq => Accounted(seq)',
         Begun'
  PROVE  LogInv'
  <1>1. reader # Closed BY DEF Closed
  <1>2. reader \in Readers /\ reader.stop <= log.next.seq /\ Holding BY <1>1, ReaderIs
  <1>3. Carried(log, g, t) /\ AllAccounted BY LogHas
  <1>4. reader.held = NoPiece BY <1>2 DEF Holding
  <1>5. ReaderOk(g, t)'
    <2>1. Holding' BY <1>4 DEF Holding
    <2>2. Room(t)' BY DEF Room
    <2> QED BY <1>2, <2>1, <2>2 DEF ReaderOk
  <1>6. AllAccounted'
    <2>1. reader.held.seq = -1 BY <1>4, NoPieceIs
    <2> QED BY <1>2, <1>3, <2>1, MovesOn
  <1>7. InOrder'
    <2>1. reader' # Closed BY DEF Readers, Closed
    <2> QED BY <2>1 DEF InOrder
  <1> QED BY <1>3, <1>5, <1>6, <1>7, ReadReads

LEMMA ResyncedIs ==
  ASSUME NEW g, NEW t, Reading(g, t), reader.kind = "syslog"
  PROVE  LET r == Resynced(reader)
         IN  /\ r = [reader EXCEPT !.cur = Caught(reader.cur),
                                   !.partial = IF Gone(reader.cur) THEN 0 ELSE reader.partial]
             /\ r \in Readers /\ OnWay(g, r.cur)
             /\ log.first.seq <= r.cur.seq /\ r.cur.seq <= log.next.seq
             /\ \A seq \in Nat : reader.cur.seq <= seq /\ seq < r.cur.seq => seq < log.first.seq
             /\ r.kind = "syslog" /\ r.start = reader.start /\ r.stop = reader.stop
             /\ r.held = reader.held /\ r.size = reader.size /\ r.len = reader.len
             /\ r.partial = 0 => last.seq < r.cur.seq
             /\ r.partial # 0 =>
                  /\ r.time = reader.time /\ r.partial = reader.partial /\ r.cur = reader.cur
                  /\ r.cur.seq < log.next.seq /\ last.seq <= r.cur.seq
                  /\ r.partial < TextOf(log, r.cur.seq, r.time)
                  /\ \/ /\ last.seq = r.cur.seq /\ last.from + last.n = r.partial
                        /\ last.of = TextOf(log, r.cur.seq, r.time)
                     \/ r.cur.seq \in lost
  <1> DEFINE r == Resynced(reader)
             d == Caught(reader.cur)
  <1>1. reader # Closed BY DEF Closed
  <1>2. /\ reader \in Readers /\ OnWay(g, reader.cur) /\ last \in Pieces
    BY <1>1, ReaderIs
  <1>3. Carried(log, g, t) /\ InOrder BY LogHas
  <1>4. Begun BY <1>1, <1>3 DEF InOrder
  <1>5. /\ OnWay(g, d) /\ d \in Cursors /\ reader.cur.seq \in Nat
        /\ log.first.seq <= d.seq /\ d.seq <= log.next.seq
        /\ reader.cur.seq <= d.seq /\ (d.seq # reader.cur.seq => d.seq = log.first.seq)
        /\ ~Gone(reader.cur) => d = reader.cur
        /\ Gone(reader.cur) => d = log.first /\ reader.cur.seq < d.seq
    BY <1>2, <1>3, CaughtIs
  <1> HIDE DEF d
  <1>6. r = [reader EXCEPT !.cur = d,
                           !.partial = IF Gone(reader.cur) THEN 0 ELSE reader.partial]
    <2>1. CASE Gone(reader.cur) BY <1>5, <2>1 DEF Resynced
    <2>2. CASE ~Gone(reader.cur) BY <1>2, <1>5, <2>2 DEF Resynced, Readers
    <2> QED BY <2>1, <2>2
  <1> HIDE DEF r
  <1>7. r \in Readers
    <2>1. (IF Gone(reader.cur) THEN 0 ELSE reader.partial) \in Nat BY <1>2, ReaderHas
    <2> QED BY <1>2, <1>5, <1>6, <2>1 DEF Readers
  <1>8. /\ r.cur = d /\ r.kind = "syslog" /\ r.start = reader.start /\ r.stop = reader.stop
        /\ r.held = reader.held /\ r.size = reader.size /\ r.len = reader.len
        /\ r.time = reader.time
        /\ r.partial = IF Gone(reader.cur) THEN 0 ELSE reader.partial
    BY <1>2, <1>6 DEF Readers
  <1>9. d.seq \in Nat /\ last.seq \in Int BY <1>2, <1>5 DEF Cursors, Pieces
  <1>10. log.first.seq \in Nat BY LogHas
  <1>11. \A seq \in Nat : reader.cur.seq <= seq /\ seq < d.seq => seq < log.first.seq
    BY <1>5, <1>9, <1>10
  <1>12. r.partial = 0 => last.seq < d.seq
    <2>1. CASE Gone(reader.cur)
      <3>1. last.seq <= reader.cur.seq
        BY <1>4, <1>5, <1>9 DEF Begun
      <3> QED BY <1>5, <1>9, <2>1, <3>1
    <2>2. CASE ~Gone(reader.cur) BY <1>4, <1>5, <1>8, <2>2 DEF Begun
    <2> QED BY <2>1, <2>2
  <1>13. r.partial # 0 =>
           /\ r.partial = reader.partial /\ d = reader.cur
           /\ d.seq < log.next.seq /\ last.seq <= d.seq
           /\ r.partial < TextOf(log, d.seq, r.time)
           /\ \/ /\ last.seq = d.seq /\ last.from + last.n = r.partial
                 /\ last.of = TextOf(log, d.seq, r.time)
              \/ d.seq \in lost
    BY <1>4, <1>5, <1>8 DEF Begun
  <1> QED BY <1>5, <1>6, <1>7, <1>8, <1>11, <1>12, <1>13 DEF r, d

LEMMA SyslogReadReads ==
  ASSUME NEW g, NEW t, Reading(g, t), SyslogRead
  PROVE  LogInv' /\ last' = last
  <1>1. /\ reader.kind = "syslog" /\ UNCHANGED <<log, cont, said, timeset>>
        /\ last' = last /\ given' = given /\ lost' = lost
    BY DEF SyslogRead, NothingRead
  <1>2. PICK size \in Sizes : reader' = [reader EXCEPT !.size = size, !.len = 0]
    BY DEF SyslogRead
  <1>3. reader # Closed BY <1>1 DEF Closed
  <1>4. /\ reader \in Readers /\ OnWay(g, reader.cur)
        /\ last \in Pieces /\ given \subseteq Nat /\ lost \subseteq Nat
    BY <1>3, ReaderIs
  <1>5. size \in Nat BY LogAssumption
  <1>6. /\ reader'.kind = "syslog" /\ reader'.cur = reader.cur /\ reader'.start = reader.start
        /\ reader'.stop = reader.stop /\ reader'.held = reader.held
        /\ reader'.partial = reader.partial /\ reader'.time = reader.time
    BY <1>1, <1>2, <1>4 DEF Readers
  <1>7. reader' \in Readers
    <2>1. 0 \in Int OBVIOUS
    <2> QED BY <1>2, <1>4, <1>5, <2>1 DEF Readers
  <1>8. Begun BY <1>1, <1>3, LogHas DEF InOrder
  <1>9. Begun' BY <1>1, <1>6, <1>8 DEF Begun, TextOf
  <1>10. reader.cur.seq \in Nat BY <1>4, ReaderHas
  <1>11. \A seq \in Nat : reader.cur.seq <= seq /\ seq < reader'.cur.seq => Accounted(seq)'
    BY <1>6, <1>10
  <1>12. LogInv' BY <1>1, <1>4, <1>6, <1>7, <1>9, <1>11, SyslogReads
  <1> QED BY <1>1, <1>12

LEMMA SyslogSizeUnreadReads ==
  ASSUME NEW g, NEW t, Reading(g, t), SyslogSizeUnread
  PROVE  LogInv' /\ last' = last
  <1> DEFINE r == Resynced(reader)
  <1>1. /\ reader.kind = "syslog" /\ UNCHANGED <<log, cont, said, timeset>>
        /\ last' = last /\ given' = given /\ lost' = lost /\ reader' = r
    BY DEF SyslogSizeUnread, NothingRead
  <1>2. reader # Closed BY <1>1 DEF Closed
  <1>3. last \in Pieces /\ given \subseteq Nat /\ lost \subseteq Nat BY <1>2, ReaderIs
  <1>4. /\ r \in Readers /\ OnWay(g, r.cur)
        /\ \A seq \in Nat : reader.cur.seq <= seq /\ seq < r.cur.seq => seq < log.first.seq
        /\ r.kind = "syslog" /\ r.start = reader.start /\ r.stop = reader.stop
        /\ r.held = reader.held
        /\ r.partial = 0 => last.seq < r.cur.seq
        /\ r.partial # 0 =>
             /\ r.cur.seq < log.next.seq /\ last.seq <= r.cur.seq
             /\ r.partial < TextOf(log, r.cur.seq, r.time)
             /\ \/ /\ last.seq = r.cur.seq /\ last.from + last.n = r.partial
                   /\ last.of = TextOf(log, r.cur.seq, r.time)
                \/ r.cur.seq \in lost
    BY <1>1, ResyncedIs
  <1> HIDE DEF r
  <1>5. Begun' BY <1>1, <1>4 DEF Begun, TextOf
  <1>6. \A seq \in Nat : reader.cur.seq <= seq /\ seq < reader'.cur.seq => Accounted(seq)'
    BY <1>1, <1>4 DEF Accounted
  <1>7. LogInv' BY <1>1, <1>3, <1>4, <1>5, <1>6, SyslogReads
  <1> QED BY <1>1, <1>7

(* How a turn of syslog_print() leaves the reader. *)
LEMMA TurnLeaves ==
  ASSUME NEW r \in Readers, NEW after \in Readers, after.size = r.size,
         NEW m \in Int, m <= r.size,
         \/ reader' = Ended(after)
         \/ reader' = IF m = r.size THEN Ended(after)
                      ELSE [after EXCEPT !.size = @ - m, !.len = @ + m]
  PROVE  /\ reader' \in Readers
         /\ reader'.kind = after.kind /\ reader'.start = after.start
         /\ reader'.stop = after.stop /\ reader'.held = after.held
         /\ reader'.cur = after.cur /\ reader'.partial = after.partial
         /\ reader'.time = after.time
  <1>1. CASE reader' = Ended(after)
    <2>1. 0 \in Nat /\ 0 \in Int OBVIOUS
    <2> QED BY <1>1, <2>1 DEF Ended, Readers
  <1>2. CASE m # r.size /\ reader' = [after EXCEPT !.size = @ - m, !.len = @ + m]
    <2>1. after.size \in Nat /\ after.len \in Int BY DEF Readers
    <2>2. after.size - m \in Nat /\ after.len + m \in Int BY <2>1
    <2> QED BY <1>2, <2>2 DEF Readers
  <1> QED BY <1>1, <1>2

LEMMA SyslogTurnReads ==
  ASSUME NEW g, NEW t, Reading(g, t), SyslogTurn
  PROVE  /\ LogInv' /\ (last' = last \/ Ordered)
         /\ (\A seq \in cut' : seq \in cut \/ TooLong(seq)) /\ reader'.held = reader.held
  <1> DEFINE r == Resynced(reader)
             time == LineTime(r)
             n == TextSize(RecordOf(r.cur), time)
             left == LineLen(r.cur, time) - n
             rest == n - r.partial
             Copy(p, after) ==
               \/ /\ HandOver(p)
                  /\ reader' = IF p.n = r.size THEN Ended(after)
                               ELSE [after EXCEPT !.size = @ - p.n, !.len = @ + p.n]
               \/ Lose(p) /\ reader' = Ended(after)
             done == [r EXCEPT !.cur = Following(log, @), !.partial = 0, !.time = FALSE]
             part == [r EXCEPT !.partial = @ + r.size, !.time = time]
  <1>1. /\ reader.kind = "syslog" /\ reader.size > 0 /\ UNCHANGED <<log, cont, said, timeset>>
    BY DEF SyslogTurn
  <1>2. IF r.cur.seq = log.next.seq THEN reader' = Ended(r) /\ NothingRead
        ELSE IF rest <= r.size THEN Copy(Piece(r.cur, r.partial, rest, n, left), done)
        ELSE IF r.len = 0 THEN Copy(Piece(r.cur, r.partial, r.size, n, left), part)
        ELSE reader' = Ended(r) /\ NothingRead
    BY DEF SyslogTurn
  <1>3. reader # Closed BY <1>1 DEF Closed
  <1>4. last \in Pieces /\ given \subseteq Nat /\ lost \subseteq Nat BY <1>3, ReaderIs
  <1>5. /\ r \in Readers /\ OnWay(g, r.cur)
        /\ log.first.seq <= r.cur.seq /\ r.cur.seq <= log.next.seq
        /\ \A seq \in Nat : reader.cur.seq <= seq /\ seq < r.cur.seq => seq < log.first.seq
        /\ r.kind = "syslog" /\ r.start = reader.start /\ r.stop = reader.stop
        /\ r.held = reader.held /\ r.size = reader.size
    BY <1>1, ResyncedIs
  <1>6. r.partial = 0 => last.seq < r.cur.seq BY <1>1, ResyncedIs
  <1>7. r.partial # 0 =>
          /\ r.cur.seq < log.next.seq /\ last.seq <= r.cur.seq
          /\ r.partial < TextOf(log, r.cur.seq, r.time)
          /\ \/ /\ last.seq = r.cur.seq /\ last.from + last.n = r.partial
                /\ last.of = TextOf(log, r.cur.seq, r.time)
             \/ r.cur.seq \in lost
    BY <1>1, ResyncedIs
  <1>8. Carried(log, g, t) /\ log.next.seq \in Nat BY LogHas
  <1> HIDE DEF r
  <1>9. r.size \in Nat /\ r.size > 0 /\ r.partial \in Nat /\ r.cur.seq \in Nat /\ r.time \in BOOLEAN
    BY <1>1, <1>5 DEF Readers, Cursors
  <1>10. time \in BOOLEAN /\ (r.partial # 0 => time = r.time)
    BY <1>9 DEF LineTime, printk_time
  <1>11. last.seq \in Int /\ last.seq <= r.cur.seq
    <2>1. last.seq \in Int BY <1>4 DEF Pieces
    <2> QED BY <1>6, <1>7, <1>9, <2>1
  <1> HIDE DEF time
  <1>12. CASE reader' = Ended(r) /\ NothingRead
    <2>1. last' = last /\ given' = given /\ cut' = cut /\ lost' = lost /\ log' = log
      BY <1>1, <1>12 DEF NothingRead
    <2>2. 0 \in Int /\ 0 <= r.size BY <1>9
    <2>3. /\ reader' \in Readers
          /\ reader'.kind = r.kind /\ reader'.start = r.start
          /\ reader'.stop = r.stop /\ reader'.held = r.held
          /\ reader'.cur = r.cur /\ reader'.partial = r.partial /\ reader'.time = r.time
      BY <1>5, <1>12, <2>2, TurnLeaves
    <2>4. Begun' BY <1>5, <1>6, <1>7, <2>1, <2>3 DEF Begun, TextOf
    <2>5. \A seq \in Nat : reader.cur.seq <= seq /\ seq < reader'.cur.seq => Accounted(seq)'
      BY <1>5, <2>1, <2>3 DEF Accounted
    <2>6. LogInv' BY <1>1, <1>4, <1>5, <2>1, <2>3, <2>4, <2>5, SyslogReads
    <2> QED BY <1>5, <2>1, <2>3, <2>6
  <1>13. ASSUME NEW m \in Int, m <= r.size, NEW after \in Readers, after.size = r.size,
                after.kind = r.kind, after.start = r.start, after.stop = r.stop,
                after.held = r.held, OnWay(g, after.cur),
                r.cur.seq < log.next.seq, Copy(Piece(r.cur, r.partial, m, n, left), after),
                \/ m = rest /\ after.partial = 0 /\ after.cur.seq = r.cur.seq + 1
                \/ /\ m < rest /\ after.partial = r.partial + m /\ m > 0
                   /\ after.cur = r.cur /\ after.time = time
         PROVE  /\ LogInv' /\ (last' = last \/ Ordered)
                /\ (\A seq \in cut' : seq \in cut \/ TooLong(seq))
                /\ reader'.held = reader.held
    <2> DEFINE p == Piece(r.cur, r.partial, m, n, left)
    <2>1. /\ n = TextOf(log, r.cur.seq, time) /\ n \in Nat \ {0}
          /\ LineLen(r.cur, time) \in Nat /\ n <= LineLen(r.cur, time)
          /\ n # LineLen(r.cur, time) => TooLong(r.cur.seq)
      BY <1>5, <1>8, <1>10, <1>13, CursorIs
    <2> HIDE DEF n
    <2>2. /\ p \in Pieces /\ p.seq = r.cur.seq /\ p.rec = r.cur.seq
          /\ p.from = r.partial /\ p.n = m /\ p.of = n
          /\ p.left # 0 => TooLong(r.cur.seq)
      <3>1. n \in Nat BY <2>1
      <3>2. left \in Nat /\ (left # 0 => TooLong(r.cur.seq)) BY <2>1
      <3> HIDE DEF left
      <3> QED BY <1>5, <1>8, <1>9, <1>13, <3>1, <3>2, PieceIs
    <2> HIDE DEF p
    <2>3. Copy(p, after) BY <1>13 DEF p
    <2>4. /\ reader' \in Readers
          /\ reader'.kind = after.kind /\ reader'.start = after.start
          /\ reader'.stop = after.stop /\ reader'.held = after.held
          /\ reader'.cur = after.cur /\ reader'.partial = after.partial
          /\ reader'.time = after.time
      <3>1. \/ reader' = Ended(after)
            \/ reader' = IF m = r.size THEN Ended(after)
                         ELSE [after EXCEPT !.size = @ - m, !.len = @ + m]
        BY <2>2, <2>3
      <3> HIDE DEF Copy
      <3> QED BY <1>5, <1>13, <3>1, TurnLeaves
    <2>5. \/ /\ last' = p /\ lost' = lost
             /\ given' = IF r.partial + m = n THEN given \cup {r.cur.seq} ELSE given
          \/ last' = last /\ given' = given /\ lost' = lost \cup {r.cur.seq}
      BY <2>2, <2>3 DEF HandOver, Lose
    <2> HIDE DEF Copy
    <2>6. /\ last' \in Pieces /\ given \subseteq given' /\ lost \subseteq lost'
          /\ given' \subseteq Nat /\ lost' \subseteq Nat
      BY <1>4, <1>9, <2>2, <2>5
    <2>7. m = rest => r.partial + m = n BY <1>9, <2>1
    <2>8. m < rest => r.partial + m < n BY <1>9, <2>1
    <2>9. \A seq \in Nat : reader.cur.seq <= seq /\ seq < reader'.cur.seq => Accounted(seq)'
      <3> SUFFICES ASSUME NEW seq \in Nat, reader.cur.seq <= seq, seq < reader'.cur.seq
                   PROVE  Accounted(seq)'
        OBVIOUS
      <3>1. CASE seq < r.cur.seq
        <4>1. seq < log.first.seq BY <1>5, <3>1
        <4> QED BY <1>1, <4>1 DEF Accounted
      <3>2. CASE ~(seq < r.cur.seq)
        <4>1. seq = r.cur.seq /\ m = rest BY <1>9, <1>13, <2>4, <3>2
        <4>2. seq \in given' \cup lost' BY <2>5, <2>7, <4>1
        <4> QED BY <4>2 DEF Accounted
      <3> QED BY <3>1, <3>2
    <2>10. Begun'
      <3>1. CASE after.partial = 0 /\ after.cur.seq = r.cur.seq + 1
        <4>1. last'.seq < r.cur.seq + 1 BY <1>9, <1>11, <2>2, <2>5
        <4> QED BY <2>4, <3>1, <4>1 DEF Begun
      <3>2. CASE /\ m < rest /\ after.partial = r.partial + m /\ m > 0
                 /\ after.cur = r.cur /\ after.time = time
        <4>1. reader'.partial # 0 /\ reader'.partial = r.partial + m BY <1>9, <2>4, <3>2
        <4>2. reader'.cur.seq = r.cur.seq /\ reader'.time = time BY <2>4, <3>2
        <4>3. TextOf(log', r.cur.seq, time) = n BY <1>1, <2>1 DEF TextOf
        <4>4. r.partial + m < n BY <2>8, <3>2
        <4>5. last'.seq <= r.cur.seq BY <1>9, <1>11, <2>2, <2>5
        <4>6. \/ /\ last'.seq = r.cur.seq /\ last'.from + last'.n = r.partial + m
                 /\ last'.of = n
              \/ r.cur.seq \in lost'
          BY <2>2, <2>5
        <4>7. reader'.kind = "syslog" /\ r.cur.seq < log'.next.seq BY <1>1, <1>5, <1>13, <2>4
        <4> QED BY <4>1, <4>2, <4>3, <4>4, <4>5, <4>6, <4>7 DEF Begun
      <3> QED BY <1>13, <3>1, <3>2
    <2>11. last' = last \/ Ordered
      <3> SUFFICES ASSUME last' = p PROVE Ordered BY <2>5
      <3>1. r.partial + m <= n BY <1>9, <1>13, <2>1, <2>7, <2>8
      <3>2. CASE r.partial = 0 BY <1>6, <1>9, <1>11, <2>2, <3>1, <3>2 DEF Ordered
      <3>3. CASE r.partial # 0
        <4>1. \/ /\ last.seq = r.cur.seq /\ last.from + last.n = r.partial /\ last.of = n
              \/ r.cur.seq \in lost
          BY <1>7, <1>10, <2>1, <3>3
        <4> QED BY <2>2, <3>1, <4>1 DEF Ordered
      <3> QED BY <3>2, <3>3
    <2>12. OnWay(g, reader'.cur) BY <1>13, <2>4
    <2>13. LogInv'
      BY <1>1, <1>5, <1>13, <2>4, <2>6, <2>9, <2>10, <2>12, SyslogReads
    <2>14. \A seq \in cut' : seq \in cut \/ TooLong(seq)
      BY <2>2, <2>3 DEF Copy, HandOver, Lose
    <2> QED BY <1>5, <1>13, <2>4, <2>11, <2>13, <2>14
  <1>14. CASE r.cur.seq # log.next.seq /\ rest <= r.size
    <2>1. r.cur.seq < log.next.seq BY <1>5, <1>8, <1>9, <1>14
    <2>2. /\ OnWay(g, Following(log, r.cur)) /\ Following(log, r.cur) \in Cursors
          /\ Following(log, r.cur).seq = r.cur.seq + 1
          /\ n \in Nat \ {0}
      BY <1>5, <1>8, <1>10, <2>1, CursorIs
    <2>3. Copy(Piece(r.cur, r.partial, rest, n, left), done) BY <1>2, <1>14
    <2>4. /\ done \in Readers /\ done.size = r.size /\ done.kind = r.kind
          /\ done.start = r.start /\ done.stop = r.stop /\ done.held = r.held
          /\ done.cur = Following(log, r.cur) /\ done.partial = 0
      BY <1>5, <2>2 DEF Readers
    <2>5. rest \in Int
      <3> HIDE DEF n
      <3> QED BY <1>9, <2>2
    <2> HIDE DEF done, left, rest, n, Copy
    <2> QED BY <1>13, <1>14, <2>1, <2>2, <2>3, <2>4, <2>5
  <1>15. CASE r.cur.seq # log.next.seq /\ ~(rest <= r.size) /\ r.len = 0
    <2>1. r.cur.seq < log.next.seq BY <1>5, <1>8, <1>9, <1>15
    <2>2. n \in Nat \ {0} BY <1>5, <1>8, <1>10, <2>1, CursorIs
    <2>3. Copy(Piece(r.cur, r.partial, r.size, n, left), part) BY <1>2, <1>15
    <2>4. /\ part \in Readers /\ part.size = r.size /\ part.kind = r.kind
          /\ part.start = r.start /\ part.stop = r.stop /\ part.held = r.held
          /\ part.cur = r.cur /\ part.partial = r.partial + r.size /\ part.time = time
      <3>1. r.partial + r.size \in Nat BY <1>9
      <3> QED BY <1>5, <1>10, <3>1 DEF Readers
    <2>5. r.size \in Int /\ r.size <= r.size /\ r.size < rest BY <1>9, <1>15, <2>2
    <2> HIDE DEF part, left, rest, n, Copy
    <2> QED BY <1>5, <1>9, <1>13, <2>1, <2>3, <2>4, <2>5
  <1> QED BY <1>2, <1>12, <1>14, <1>15

(* Lines of the record held are left out only if they are too long. *)
HeldCut == reader'.held.left = 0 \/ TooLong(reader'.held.seq)

(* The call that copies everything: the next record is taken, or it ends.  *)
LEMMA AllGoes ==
  ASSUME NEW g, NEW t, Reading(g, t), UNCHANGED <<cont, said, timeset>>,
         NEW r \in Readers, r.kind = "all", r.size > 0, OnWay(g, r.cur),
         log.first.seq <= r.cur.seq, r.stop <= log.next.seq,
         NEW more \in BOOLEAN, AllGoOn(r, more),
         last' \in Pieces, given' \subseteq Nat, lost' \subseteq Nat,
         \A seq \in r.start .. r.cur.seq - 1 : seq \in given' \cup lost' \/ seq < log.first.seq,
         more => r.len + (IF r.cur.seq < r.stop
                          THEN t[r.time][r.stop] - t[r.time][r.cur.seq] ELSE 0) <= r.size,
         last'.seq < r.cur.seq
  PROVE  LogInv' /\ HeldCut
  <1>1. Carried(log, g, t) BY LogHas
  <1>2. /\ r.cur.seq \in Nat /\ r.stop \in Nat /\ r.start \in Nat /\ r.time \in BOOLEAN
        /\ r.len \in Int /\ r.size \in Nat
    BY DEF Readers, Cursors
  <1>3. CASE more /\ r.cur.seq < r.stop
    <2> DEFINE n == TextSize(RecordOf(r.cur), r.time)
               line == LineLen(r.cur, r.time)
               left == line - n
               d == Following(log, r.cur)
               p == Piece(r.cur, 0, n, n, left)
               q == r.cur.seq
    <2>1. reader' = [r EXCEPT !.held = p, !.cur = d] /\ log' = log
      BY <1>3 DEF AllGoOn
    <2>2. log.next.seq \in Nat /\ log.first.seq \in Nat BY LogHas
    <2>3. q < log.next.seq BY <1>2, <1>3, <2>2
    <2>4. /\ OnWay(g, d) /\ d \in Cursors /\ d.seq = q + 1
          /\ line = LineOf(log, q, r.time) /\ line \in Nat /\ n \in Nat \ {0} /\ n <= line
          /\ n # line => TooLong(q)
      BY <1>1, <1>2, <2>3, CursorIs
    <2> HIDE DEF d, n, line
    <2>5. /\ p \in Pieces /\ p.seq = q /\ p.rec = q /\ p.from = 0 /\ p.n = n /\ p.of = n
          /\ p.left # 0 => TooLong(q)
      <3>1. 0 \in Nat /\ n \in Nat /\ n \in Int /\ left \in Nat /\ (left # 0 => TooLong(q))
        BY <2>4
      <3> HIDE DEF left
      <3> QED BY <1>1, <2>3, <3>1, PieceIs
    <2> HIDE DEF p
    <2>6. /\ reader'.kind = "all" /\ reader'.cur = d /\ reader'.start = r.start
          /\ reader'.stop = r.stop /\ reader'.size = r.size /\ reader'.held = p
          /\ reader'.time = r.time /\ reader'.len = r.len
      BY <2>1 DEF Readers
    <2>7. reader' \in Readers BY <2>1, <2>4, <2>5 DEF Readers
    <2>8. Holding' BY <1>2, <2>4, <2>5, <2>6 DEF Holding
    <2>9. t[r.time][q + 1] = t[r.time][q] + line /\ t[r.time][q] \in Nat /\ t[r.time][q + 1] \in Nat
          /\ t[r.time][r.stop] \in Nat
      <3>1. Summed(log, t) BY <1>1 DEF Carried
      <3>2. q \in 0 .. log.next.seq - 1 /\ q \in 0 .. log.next.seq /\ q + 1 \in 0 .. log.next.seq
            /\ r.stop \in 0 .. log.next.seq
        BY <1>2, <2>2, <2>3
      <3>3. t[r.time][q + 1] = t[r.time][q] + LineOf(log, q, r.time)
        BY <1>2, <3>1, <3>2 DEF Summed
      <3>4. t[r.time] \in [0 .. log.next.seq -> Nat] BY <1>2, <3>1 DEF Summed
      <3> QED BY <2>4, <3>2, <3>3, <3>4
    <2>10. Room(t)'
      <3>1. r.len + (t[r.time][r.stop] - t[r.time][q]) <= r.size BY <1>3
      <3>2. CASE d.seq < r.stop
        <4>1. r.len + n + (t[r.time][r.stop] - t[r.time][q + 1]) <= r.size
          BY <1>2, <2>4, <2>9, <3>1
        <4> QED BY <2>4, <2>5, <2>6, <3>2, <4>1 DEF Room
      <3>3. CASE ~(d.seq < r.stop)
        <4>1. r.stop = q + 1 BY <1>2, <1>3, <2>4, <3>3
        <4>2. r.len + n + 0 <= r.size BY <1>2, <2>4, <2>9, <3>1, <4>1
        <4> QED BY <2>5, <2>6, <3>3, <4>2 DEF Room
      <3> QED BY <3>2, <3>3
    <2>11. ReaderOk(g, t)' BY <2>1, <2>4, <2>6, <2>8, <2>10 DEF ReaderOk
    <2>12. AllAccounted'
      <3>1. ASSUME NEW seq \in r.start .. d.seq - 1 PROVE Accounted(seq)'
        <4>1. seq = q \/ seq \in r.start .. q - 1 BY <1>2, <2>4
        <4>2. CASE seq = q BY <2>5, <2>6, <4>2 DEF Accounted
        <4>3. CASE seq \in r.start .. q - 1
          <5>1. seq \in given' \cup lost' \/ seq < log.first.seq BY <4>3
          <5> QED BY <2>1, <5>1 DEF Accounted
        <4> QED BY <4>1, <4>2, <4>3
      <3> QED BY <2>6, <3>1 DEF AllAccounted
    <2>13. InOrder'
      <3>1. reader' # Closed BY <2>7 DEF Readers, Closed
      <3> QED BY <2>5, <2>6, <3>1 DEF InOrder
    <2>14. Carried(log', g, t) BY <1>1, <2>1
    <2>15. HeldCut BY <2>5, <2>6 DEF HeldCut
    <2> QED BY <2>7, <2>11, <2>12, <2>13, <2>14, <2>15, ReadReads
  <1>4. CASE ~(more /\ r.cur.seq < r.stop)
    <2>1. reader' = [r EXCEPT !.held = NoPiece, !.size = 0]
          /\ log' = IF r.clear THEN [log EXCEPT !.clear = log.next] ELSE log
      BY <1>4 DEF AllGoOn
    <2>2. Carried(log', g, t) /\ log'.first = log.first /\ log'.next = log.next
      <3>1. CASE r.clear
        <4>1. log' = [log EXCEPT !.clear = log.next] BY <2>1, <3>1
        <4> QED BY <1>1, <4>1, ClearedGrows DEF Grown
      <3>2. CASE ~r.clear BY <1>1, <2>1, <3>2
      <3> QED BY <3>1, <3>2
    <2>3. /\ reader'.kind = "all" /\ reader'.cur = r.cur /\ reader'.start = r.start
          /\ reader'.stop = r.stop /\ reader'.size = 0 /\ reader'.held = NoPiece
      BY <2>1 DEF Readers
    <2>4. reader' \in Readers
      <3>1. 0 \in Nat OBVIOUS
      <3> QED BY <2>1, <3>1, NoPieceIs DEF Readers
    <2>5. Holding' /\ Room(t)' BY <2>3 DEF Holding, Room
    <2>6. ReaderOk(g, t)' BY <2>2, <2>3, <2>5 DEF ReaderOk
    <2>7. AllAccounted' BY <2>2, <2>3 DEF AllAccounted, Accounted
    <2>8. InOrder'
      <3>1. reader' # Closed BY <2>4 DEF Readers, Closed
      <3> QED BY <2>3, <3>1 DEF InOrder
    <2>9. HeldCut BY <2>3 DEF HeldCut, NoPiece
    <2> QED BY <2>2, <2>4, <2>6, <2>7, <2>8, <2>9, ReadReads
  <1> QED BY <1>3, <1>4

LEMMA AllBeginReads ==
  ASSUME NEW g, NEW t, Reading(g, t), AllBegin
  PROVE  LogInv' /\ last' = NoPiece /\ HeldCut
  <1>1. /\ reader.kind = "all" /\ UNCHANGED <<cont, said, timeset>>
        /\ last' = NoPiece /\ given' = {} /\ lost' = {}
    BY DEF AllBegin, Forget
  <1>2. reader # Closed BY <1>1 DEF Closed
  <1>3. reader \in Readers BY <1>2, ReaderIs
  <1> DEFINE time == printk_time
             N == log.next.seq
             C(size) == Youngest(log.clear, N, size, time)
             R(size, clear) ==
               [reader EXCEPT !.cur = C(size), !.start = C(size).seq, !.stop = N,
                              !.time = time, !.size = size, !.len = 0, !.clear = clear]
  <1>4. PICK size \in Sizes, clear \in BOOLEAN : AllGoOn(R(size, clear), TRUE)
    BY DEF AllBegin
  <1> DEFINE c == C(size)
             r == R(size, clear)
  <1>5. size \in Nat /\ size > 0 /\ size \in Int BY LogAssumption
  <1>6. time \in BOOLEAN BY DEF printk_time
  <1>7. Carried(log, g, t) /\ log.clear.seq \in Nat /\ log.first.seq \in Nat /\ N \in Nat
        /\ log.first.seq <= log.clear.seq /\ log.clear.seq <= N
    BY LogHas
  <1>8. OnWay(g, log.clear) BY LogHas
  <1>9. /\ OnWay(g, c) /\ c \in Cursors /\ c.seq \in Nat
        /\ log.clear.seq <= c.seq /\ c.seq <= N
        /\ c.seq < N => t[time][N] - t[time][c.seq] <= size
    <2>1. N <= N BY <1>7
    <2> HIDE DEF time, N
    <2> QED BY <1>5, <1>6, <1>7, <1>8, <2>1, YoungestIs DEF N
  <1> HIDE DEF C, time, N
  <1>10. /\ r.kind = "all" /\ r.cur = c /\ r.start = c.seq /\ r.stop = N
         /\ r.time = time /\ r.size = size /\ r.len = 0
    BY <1>1, <1>3 DEF Readers
  <1>11. r \in Readers
    <2>1. 0 \in Int OBVIOUS
    <2> QED BY <1>3, <1>5, <1>6, <1>7, <1>9, <2>1 DEF Readers
  <1>12. AllGoOn(r, TRUE) BY <1>4
  <1> HIDE DEF r
  <1>13. log.first.seq <= r.cur.seq /\ r.stop <= log.next.seq
    <2>1. N <= log.next.seq BY <1>7 DEF N
    <2> QED BY <1>7, <1>9, <1>10, <2>1
  <1>14. \A seq \in r.start .. r.cur.seq - 1 : seq \in given' \cup lost' \/ seq < log.first.seq
    <2>1. c.seq .. c.seq - 1 = {} BY <1>9
    <2> QED BY <1>10, <2>1
  <1>15. r.len + (IF r.cur.seq < r.stop
                  THEN t[r.time][r.stop] - t[r.time][r.cur.seq] ELSE 0) <= r.size
    <2>1. CASE c.seq < N
      <3>1. t[time][N] - t[time][c.seq] <= size BY <1>9, <2>1
      <3>2. t[time][N] \in Nat /\ t[time][c.seq] \in Nat
        <4>1. c.seq \in 0 .. log.next.seq /\ log.next.seq \in c.seq .. log.next.seq /\ N = log.next.seq
          BY <1>7, <1>9 DEF N
        <4> QED BY <1>6, <1>7, <4>1, TotalsGrow
      <3>3. 0 + (t[time][N] - t[time][c.seq]) <= size BY <1>5, <3>1, <3>2
      <3> QED BY <1>10, <2>1, <3>3
    <2>2. CASE ~(c.seq < N)
      <3>1. 0 + 0 <= size BY <1>5
      <3> QED BY <1>10, <2>2, <3>1
    <2> QED BY <2>1, <2>2
  <1>16. last'.seq < r.cur.seq BY <1>1, <1>9, <1>10, NoPieceIs
  <1>17. TRUE \in BOOLEAN OBVIOUS
  <1>18. last' \in Pieces /\ given' \subseteq Nat /\ lost' \subseteq Nat BY <1>1, NoPieceIs
  <1>19. r.size > 0 /\ OnWay(g, r.cur) BY <1>5, <1>9, <1>10
  <1>20. LogInv' /\ HeldCut
    BY <1>1, <1>10, <1>11, <1>12, <1>13, <1>14, <1>15, <1>16, <1>17, <1>18, <1>19, AllGoes
  <1> QED BY <1>1, <1>20

LEMMA AllTurnReads ==
  ASSUME NEW g, NEW t, Reading(g, t), AllTurn
  PROVE  LogInv' /\ (last' = last \/ Ordered) /\ HeldCut
  <1> DEFINE d == Caught(reader.cur)
             r == [reader EXCEPT !.cur = d]
             h == reader.held
             s == [r EXCEPT !.len = @ + h.n]
  <1>1. /\ reader.kind = "all" /\ reader.size > 0 /\ UNCHANGED <<cont, said, timeset>>
    BY DEF AllTurn
  <1>2. reader # Closed BY <1>1 DEF Closed
  <1>3. /\ reader \in Readers /\ OnWay(g, reader.cur) /\ reader.stop <= log.next.seq
        /\ Holding /\ Room(t) /\ last \in Pieces /\ given \subseteq Nat /\ lost \subseteq Nat
    BY <1>2, ReaderIs
  <1>4. Carried(log, g, t) /\ AllAccounted /\ InOrder
        /\ log.first.seq \in Nat /\ log.next.seq \in Nat
    BY LogHas
  <1>5. /\ h.from = 0 /\ h.n = h.of /\ h.rec = h.seq
        /\ h.seq \in Nat /\ h.seq < reader.cur.seq
    BY <1>1, <1>3 DEF Holding
  <1>6. h \in Pieces /\ h.n \in Nat
    <2>1. h \in Pieces BY <1>3, ReaderHas
    <2> QED BY <1>5, <2>1 DEF Pieces
  <1>7. last.seq < h.seq BY <1>1, <1>2, <1>4 DEF InOrder
  <1>8. /\ OnWay(g, d) /\ d \in Cursors /\ reader.cur.seq \in Nat
        /\ log.first.seq <= d.seq /\ d.seq <= log.next.seq
        /\ reader.cur.seq <= d.seq /\ (d.seq # reader.cur.seq => d.seq = log.first.seq)
    BY <1>3, <1>4, CaughtIs
  <1>9. \/ HandOver(r.held) /\ AllGoOn([r EXCEPT !.len = @ + r.held.n], TRUE)
        \/ Lose(r.held) /\ AllGoOn(r, FALSE)
    BY DEF AllTurn
  <1> HIDE DEF d
  <1>10. /\ r \in Readers /\ r.held = h /\ r.kind = "all" /\ r.size = reader.size /\ r.cur = d
         /\ r.stop = reader.stop /\ r.start = reader.start
    BY <1>1, <1>3, <1>8 DEF Readers
  <1>11. /\ s \in Readers /\ s.kind = "all" /\ s.size = reader.size /\ s.cur = d
         /\ s.stop = reader.stop /\ s.start = reader.start /\ s.time = reader.time
         /\ s.len = reader.len + h.n
    <2>1. reader.len + h.n \in Int BY <1>3, <1>6, ReaderHas
    <2> QED BY <1>1, <1>3, <1>8, <2>1 DEF Readers
  <1>12. \/ HandOver(h) /\ AllGoOn(s, TRUE)
         \/ Lose(h) /\ AllGoOn(r, FALSE)
    BY <1>9, <1>10
  <1> HIDE DEF r, s, h
  <1>13. \/ /\ last' = h /\ given' = given \cup {h.seq} /\ lost' = lost /\ AllGoOn(s, TRUE)
         \/ /\ last' = last /\ given' = given /\ lost' = lost \cup {h.seq} /\ AllGoOn(r, FALSE)
    <2>1. h.from + h.n = h.of BY <1>5, <1>6
    <2> QED BY <1>12, <2>1 DEF HandOver, Lose
  <1>14. /\ d.seq \in Nat /\ last.seq \in Int
         /\ reader.start \in Nat /\ reader.stop \in Nat /\ reader.time \in BOOLEAN
         /\ reader.len \in Int /\ reader.size \in Nat
    BY <1>3, <1>8, ReaderHas DEF Cursors, Pieces
  <1>15. \A seq \in reader.start .. d.seq - 1 : seq \in given' \cup lost' \/ seq < log.first.seq
    <2> SUFFICES ASSUME NEW seq \in reader.start .. d.seq - 1
                 PROVE  seq \in given' \cup lost' \/ seq < log.first.seq
      OBVIOUS
    <2>1. CASE seq < reader.cur.seq
      <3>1. seq \in reader.start .. reader.cur.seq - 1 BY <1>8, <1>14, <2>1
      <3>2. Accounted(seq) BY <1>2, <1>4, <3>1 DEF AllAccounted
      <3> QED BY <1>13, <3>2 DEF Accounted, h
    <2>2. CASE ~(seq < reader.cur.seq)
      <3>1. d.seq # reader.cur.seq BY <1>8, <1>14, <2>2
      <3> QED BY <1>8, <1>14, <3>1
    <2> QED BY <2>1, <2>2
  <1>16. reader.len + h.n
           + (IF d.seq < reader.stop
              THEN t[reader.time][reader.stop] - t[reader.time][d.seq] ELSE 0) <= reader.size
    <2> DEFINE v == t[reader.time]
               q == reader.cur.seq
    <2>1. reader.len + h.n + (IF q < reader.stop THEN v[reader.stop] - v[q] ELSE 0) <= reader.size
      BY <1>1, <1>3 DEF Room, h
    <2>2. \A i \in 0 .. log.next.seq : \A j \in i .. log.next.seq :
            v[i] \in Nat /\ v[j] \in Nat /\ v[i] <= v[j]
      BY <1>4, <1>14, TotalsGrow
    <2> HIDE DEF v
    <2>3. q \in 0 .. log.next.seq /\ d.seq \in 0 .. log.next.seq /\ d.seq \in q .. log.next.seq
      BY <1>4, <1>8, <1>14
    <2>4. v[q] \in Nat /\ v[d.seq] \in Nat /\ v[q] <= v[d.seq] BY <2>2, <2>3
    <2>5. q < reader.stop => v[reader.stop] \in Nat /\ v[q] <= v[reader.stop]
      <3> SUFFICES ASSUME q < reader.stop
                   PROVE  v[reader.stop] \in Nat /\ v[q] <= v[reader.stop]
        OBVIOUS
      <3>1. reader.stop \in q .. log.next.seq BY <1>3, <1>4, <1>8, <1>14
      <3> QED BY <2>2, <2>3, <3>1
    <2>6. d.seq < reader.stop => q < reader.stop BY <1>8, <1>14
    <2>7. reader.len + h.n
            + (IF d.seq < reader.stop THEN v[reader.stop] - v[d.seq] ELSE 0) <= reader.size
      <3> HIDE DEF q
      <3> QED BY <1>6, <1>14, <2>1, <2>4, <2>5, <2>6
    <2> QED BY <2>7 DEF v
  <1>17. last'.seq < d.seq
    <2>1. last' = h \/ last' = last BY <1>13
    <2>2. last.seq < d.seq /\ h.seq < d.seq BY <1>5, <1>7, <1>8, <1>14
    <2> QED BY <2>1, <2>2
  <1>18. last' \in Pieces /\ given' \subseteq Nat /\ lost' \subseteq Nat
    BY <1>3, <1>5, <1>6, <1>13
  <1>19. last' = last \/ Ordered
    <2> SUFFICES ASSUME last' = h PROVE Ordered BY <1>13
    <2>1. h.from + h.n <= h.of BY <1>5, <1>6
    <2>2. h.seq > last.seq BY <1>5, <1>7, <1>14
    <2> QED BY <1>5, <2>1, <2>2 DEF Ordered
  <1>20. LogInv' /\ HeldCut
    <2>1. CASE AllGoOn(s, TRUE)
      <3>1. TRUE \in BOOLEAN OBVIOUS
      <3>2. s.len + (IF s.cur.seq < s.stop
                     THEN t[s.time][s.stop] - t[s.time][s.cur.seq] ELSE 0) <= s.size
        BY <1>11, <1>16
      <3> QED BY <1>1, <1>3, <1>8, <1>11, <1>15, <1>17, <1>18, <2>1, <3>1, <3>2, AllGoes
    <2>2. CASE AllGoOn(r, FALSE)
      <3>1. FALSE \in BOOLEAN OBVIOUS
      <3> QED BY <1>1, <1>3, <1>8, <1>10, <1>15, <1>17, <1>18, <2>2, <3>1, AllGoes
    <2> QED BY <1>13, <2>1, <2>2
  <1> QED BY <1>19, <1>20

(* kmsg_dump_get_buffer() gives the records before those it gave last, up   *)
(* to the record s.                                                        *)
LEMMA BlockReads ==
  ASSUME NEW g, NEW t, Reading(g, t), reader.kind = "blocks",
         UNCHANGED <<log, cont, said, timeset, last, lost>>,
         NEW s \in Nat, s <= reader.stop,
         reader' = [reader EXCEPT !.cur = Caught(reader.cur), !.stop = s],
         given \subseteq given', given' \subseteq Nat,
         \A seq \in s .. reader.stop - 1 : seq \in given'
  PROVE  LogInv'
  <1> DEFINE d == Caught(reader.cur)
  <1>1. reader # Closed BY DEF Closed
  <1>2. /\ reader \in Readers /\ OnWay(g, reader.cur) /\ reader.stop <= log.next.seq
        /\ Holding /\ last \in Pieces /\ given \subseteq Nat /\ lost \subseteq Nat
    BY <1>1, ReaderIs
  <1>3. Carried(log, g, t) /\ AllAccounted /\ InOrder /\ log.next.seq \in Nat BY LogHas
  <1>4. /\ OnWay(g, d) /\ d \in Cursors /\ d.seq \in Nat
        /\ reader.cur.seq <= d.seq /\ (d.seq # reader.cur.seq => d.seq = log.first.seq)
    BY <1>2, <1>3, CaughtIs DEF Cursors
  <1>5. last' = last /\ lost' = lost /\ log' = log OBVIOUS
  <1> HIDE DEF d
  <1>6. /\ reader'.kind = "blocks" /\ reader'.cur = d /\ reader'.start = reader.start
        /\ reader'.stop = s /\ reader'.end = reader.end /\ reader'.held = reader.held
    BY <1>2 DEF Readers, d
  <1>7. reader' \in Readers BY <1>2, <1>4 DEF Readers, d
  <1>8. reader.held = NoPiece BY <1>2 DEF Holding
  <1>9. ReaderOk(g, t)'
    <2>1. Holding' BY <1>6, <1>8 DEF Holding
    <2>2. Room(t)' BY <1>6 DEF Room
    <2>3. s <= log.next.seq BY <1>2, <1>3, ReaderHas
    <2> QED BY <1>4, <1>5, <1>6, <2>1, <2>2, <2>3 DEF ReaderOk
  <1>10. /\ \A seq \in reader.start .. reader.cur.seq - 1 : Accounted(seq)
         /\ \A seq \in reader.stop .. reader.end - 1 : Accounted(seq)
    BY <1>1, <1>3 DEF AllAccounted
  <1>11. \A seq : Accounted(seq) => Accounted(seq)' BY <1>5, <1>6 DEF Accounted
  <1>12. AllAccounted'
    <2>1. /\ reader.start \in Nat /\ reader.cur.seq \in Nat /\ reader.stop \in Nat
          /\ reader.end \in Nat
      BY <1>2, ReaderHas
    <2>2. ASSUME NEW seq \in reader.start .. d.seq - 1 PROVE Accounted(seq)'
      <3>1. CASE seq < reader.cur.seq
        <4>1. seq \in reader.start .. reader.cur.seq - 1 BY <1>4, <2>1, <3>1
        <4> QED BY <1>10, <1>11, <4>1
      <3>2. CASE ~(seq < reader.cur.seq)
        <4>1. seq < log.first.seq BY <1>4, <2>1, <3>2
        <4> QED BY <1>5, <4>1 DEF Accounted
      <3> QED BY <3>1, <3>2
    <2>3. ASSUME NEW seq \in s .. reader.end - 1 PROVE Accounted(seq)'
      <3>1. CASE seq < reader.stop
        <4>1. seq \in s .. reader.stop - 1 BY <2>1, <3>1
        <4> QED BY <4>1 DEF Accounted
      <3>2. CASE ~(seq < reader.stop)
        <4>1. seq \in reader.stop .. reader.end - 1 BY <2>1, <3>2
        <4> QED BY <1>10, <1>11, <4>1
      <3> QED BY <3>1, <3>2
    <2> QED BY <1>6, <2>2, <2>3 DEF AllAccounted
  <1>13. InOrder'
    <2>1. last = NoPiece BY <1>3 DEF InOrder
    <2> QED BY <1>5, <1>6, <2>1 DEF InOrder
  <1>14. Carried(log', g, t) BY <1>3, <1>5
  <1> QED BY <1>2, <1>5, <1>7, <1>9, <1>12, <1>13, <1>14, ReadReads

LEMMA DumpGetBufferReads ==
  ASSUME NEW g, NEW t, Reading(g, t), DumpGetBuffer
  PROVE  LogInv' /\ last' = last
  <1> DEFINE c == Caught(reader.cur)
             r == [reader EXCEPT !.cur = c]
             stop == reader.stop
             time == printk_time
             v == t[time]
  <1>1. reader.kind = "blocks" /\ UNCHANGED <<log, cont, said, timeset>> BY DEF DumpGetBuffer
  <1>2. reader # Closed BY <1>1 DEF Closed
  <1>3. /\ reader \in Readers /\ OnWay(g, reader.cur) /\ stop <= log.next.seq
        /\ given \subseteq Nat /\ stop \in Nat
    BY <1>2, ReaderIs, ReaderHas
  <1>4. Carried(log, g, t) /\ log.first.seq \in Nat /\ log.next.seq \in Nat BY LogHas
  <1>5. OnWay(g, c) /\ c \in Cursors /\ log.first.seq <= c.seq /\ c.seq \in Nat
    BY <1>3, <1>4, CaughtIs DEF Cursors
  <1>6. time \in BOOLEAN BY DEF printk_time
  <1>7. r.cur = c /\ r.stop = stop BY <1>3 DEF Readers
  <1>8. CASE c.seq >= stop
    <2>1. reader' = r /\ NothingRead BY <1>7, <1>8 DEF DumpGetBuffer
    <2>2. reader' = [reader EXCEPT !.cur = c, !.stop = stop] BY <1>3, <2>1 DEF Readers
    <2>3. stop .. stop - 1 = {} /\ stop <= stop BY <1>3
    <2>4. last' = last /\ given' = given /\ lost' = lost BY <2>1 DEF NothingRead
    <2>5. given \subseteq given' /\ given' \subseteq Nat BY <1>3, <2>4
    <2>6. \A seq \in stop .. stop - 1 : seq \in given' BY <2>3
    <2> QED BY <1>1, <1>3, <2>2, <2>3, <2>4, <2>5, <2>6, BlockReads
  <1>9. CASE ~(c.seq >= stop)
    <2> DEFINE sum == LinesUpTo(c, stop, time)
               Y(size) == Youngest(c, stop, size - 1, time)
               Got(size) == {n \in Y(size).seq .. stop - 1 : sum[n + 1] - sum[Y(size).seq] < size}
    <2>1. PICK size \in Sizes : /\ reader' = [r EXCEPT !.stop = Y(size).seq]
                                /\ given' = given \cup Got(size)
                                /\ UNCHANGED <<last, lost>>
      BY <1>7, <1>9 DEF DumpGetBuffer
    <2> DEFINE y == Y(size)
    <2>2. size \in Nat /\ size - 1 \in Int BY LogAssumption
    <2>3. c.seq <= stop BY <1>3, <1>5, <1>9
    <2>4. /\ y.seq \in Nat /\ c.seq <= y.seq /\ y.seq <= stop
          /\ y.seq < stop => v[stop] - v[y.seq] <= size - 1
      <3> HIDE DEF c, stop, time
      <3> QED BY <1>3, <1>4, <1>5, <1>6, <2>2, <2>3, YoungestIs
    <2>5. sum = [n \in c.seq .. stop |-> v[n] - v[c.seq]]
      <3> HIDE DEF c, stop, time
      <3> QED BY <1>3, <1>4, <1>5, <1>6, <2>3, LinesUpToIs
    <2>6. \A a \in 0 .. log.next.seq : \A b \in a .. log.next.seq :
            v[a] \in Nat /\ v[b] \in Nat /\ v[a] <= v[b]
      <3> HIDE DEF time
      <3> QED BY <1>4, <1>6, TotalsGrow
    <2> HIDE DEF sum, v, Y, c, stop, time
    <2>7. \A n \in y.seq .. stop - 1 : n \in Got(size)
      <3> SUFFICES ASSUME NEW n \in y.seq .. stop - 1
                   PROVE  sum[n + 1] - sum[y.seq] < size
        OBVIOUS
      <3>1. /\ n + 1 \in c.seq .. stop /\ y.seq \in c.seq .. stop /\ y.seq < stop
            /\ c.seq \in 0 .. log.next.seq /\ y.seq \in 0 .. log.next.seq
            /\ n + 1 \in 0 .. log.next.seq /\ stop \in n + 1 .. log.next.seq
        BY <1>3, <1>4, <1>5, <2>4
      <3>2. sum[n + 1] = v[n + 1] - v[c.seq] /\ sum[y.seq] = v[y.seq] - v[c.seq]
        BY <2>5, <3>1
      <3>3. /\ v[n + 1] \in Nat /\ v[stop] \in Nat /\ v[n + 1] <= v[stop]
            /\ v[c.seq] \in Nat /\ v[y.seq] \in Nat
        BY <2>6, <3>1
      <3>4. v[stop] - v[y.seq] <= size - 1 BY <2>4, <3>1
      <3> QED BY <2>2, <3>2, <3>3, <3>4
    <2>8. given \subseteq given' /\ given' \subseteq Nat
      <3>1. Got(size) \subseteq Nat BY <1>3, <2>4
      <3> QED BY <1>3, <2>1, <3>1
    <2>9. reader' = [reader EXCEPT !.cur = Caught(reader.cur), !.stop = y.seq]
      BY <1>3, <2>1 DEF Readers, c
    <2>10. \A seq \in y.seq .. reader.stop - 1 : seq \in given' BY <2>1, <2>7 DEF stop
    <2>11. y.seq <= reader.stop BY <2>4 DEF stop
    <2>12. last' = last /\ lost' = lost BY <2>1
    <2> HIDE DEF y, Got
    <2>13. y.seq \in Nat BY <2>4 DEF y
    <2> QED BY <1>1, <2>8, <2>9, <2>10, <2>11, <2>12, <2>13, BlockReads
  <1> QED BY <1>8, <1>9

-----------------------------------------------------------------------------
(* The inductive invariant.                                                *)

LEMMA LogInit == Init => LogInv
  <1> SUFFICES ASSUME Init PROVE LogInv OBVIOUS
  <1> DEFINE g == [n \in 0 .. 0 |-> 0]
             t == [time \in BOOLEAN |-> [n \in 0 .. 0 |-> 0]]
  <1>1. /\ log = Empty /\ cont = NoCont /\ said = <<>> /\ timeset = 0 /\ reader = Closed
        /\ last = NoPiece /\ given = {} /\ lost = {}
    BY DEF Init
  <1>2. /\ log.len = BufLen /\ log.mem = [i \in 0 .. BufLen - 1 |-> Zero]
        /\ log.first = Cursor(0, 0) /\ log.next = Cursor(0, 0) /\ log.clear = Cursor(0, 0)
        /\ log.stored = <<>>
    BY <1>1 DEF Empty
  <1>3. Cursor(0, 0) \in Cursors /\ Cursor(0, 0).seq = 0 /\ Cursor(0, 0).idx = 0
    BY DEF Cursor, Cursors
  <1>4. Zero \in Byte
    <2>1. -1 \in Int /\ 0 \in Nat OBVIOUS
    <2> QED BY <2>1 DEF Zero, Byte
  <1>5. log.mem \in [0 .. BufLen - 1 -> Byte] BY <1>2, <1>4
  <1>6. LogTyped(log)
    <2>1. <<>> \in Seq(Record) /\ Len(<<>>) = 0 OBVIOUS
    <2>2. log \in [len : {BufLen, BigLen},
                   mem : [0 .. BufLen - 1 -> Byte] \cup [0 .. BigLen - 1 -> Byte],
                   first : Cursors, next : Cursors, clear : Cursors, stored : Seq(Record)]
      <3> HIDE DEF Byte
      <3> QED BY <1>1, <1>3, <1>4, <2>1 DEF Empty
    <2> QED BY <1>2, <1>3, <1>5, <2>1, <2>2 DEF LogTyped
  <1>7. 0 .. 0 = {0} OBVIOUS
  <1>8. HdrLen <= BufLen
    <2>1. 0 \in 0 .. LineMax BY Sizes1
    <2>2. /\ RoundUp(HdrLen + 0) \in Nat
          /\ 2 * (RoundUp(HdrLen + 0) + HdrLen) <= BufLen
      BY <2>1, RecordSize
    <2> HIDE DEF RoundUp
    <2> QED BY <2>2, Sizes1
  <1>9. Laid(log, g)
    <2>1. g[0] = 0 /\ g \in [0 .. 0 -> Nat] /\ DOMAIN g = 0 .. 0 BY <1>7
    <2> HIDE DEF g
    <2>2. OnWay(g, Cursor(0, 0)) BY <1>3, <1>7, <2>1 DEF OnWay
    <2>3. \A n \in 0 .. 0 : g[n] + HdrLen <= BufLen BY <1>7, <1>8, <2>1, Sizes1
    <2>4. 0 .. 0 - 1 = {} OBVIOUS
    <2>5. InTurn(log, g) BY <1>2, <1>3, <1>7 DEF InTurn
    <2> QED BY <1>2, <1>3, <2>1, <2>2, <2>3, <2>4, <2>5 DEF Laid
  <1>10. Summed(log, t)
    <2>1. 0 .. 0 - 1 = {} OBVIOUS
    <2>2. t \in [BOOLEAN -> [0 .. 0 -> Nat]] OBVIOUS
    <2> QED BY <1>2, <1>3, <2>1, <2>2 DEF Summed
  <1> HIDE DEF g, t
  <1>11. Typed
    <2>1. NoCont \in Line
      <3>1. <<>> \in Seq(Nat) /\ 0 \in 0 .. LineMax /\ 0 \in Nat BY Sizes1
      <3> QED BY <3>1 DEF NoCont, Line
    <2>2. <<>> \in Seq(Messages) OBVIOUS
    <2> QED BY <1>1, <2>1, <2>2, NoPieceIs DEF Typed
  <1>12. AllAccounted /\ InOrder BY <1>1 DEF AllAccounted, InOrder
  <1>13. Reading(g, t) BY <1>1, <1>6, <1>9, <1>10, <1>11, <1>12 DEF Reading, Carried
  <1> QED BY <1>13 DEF LogInv

LEMMA LogNext ==
  LogInv /\ [Next]_vars => LogInv' /\ (last' = last \/ Ordered)
  <1> SUFFICES ASSUME LogInv, [Next]_vars PROVE LogInv' /\ (last' = last \/ Ordered)
    OBVIOUS
  <1>1. PICK g, t : Reading(g, t) BY DEF LogInv
  <1>2. ASSUME last' = NoPiece PROVE Ordered BY <1>2 DEF Ordered
  <1>3. CASE Write
    <2>1. last' = last BY <1>3 DEF Write, Say, SetupLogBuf, SetTime, SyslogClear
    <2>2. CASE \E m \in Messages : Say(m)
      <3>1. PICK m \in Messages : Say(m) BY <2>2
      <3> QED BY <1>1, <2>1, <3>1, SayReads
    <2>3. CASE SetupLogBuf BY <1>1, <2>1, <2>3, SetupLogBufReads
    <2>4. CASE SetTime BY <1>1, <2>1, <2>4, SetTimeReads
    <2>5. CASE SyslogClear BY <1>1, <2>1, <2>5, SyslogClearReads
    <2> QED BY <1>3, <2>2, <2>3, <2>4, <2>5 DEF Write
  <1>4. CASE Read
    <2>1. CASE Open BY <1>1, <2>1, OpenReads
    <2>2. CASE DevkmsgRead BY <1>1, <2>2, DevkmsgReadReads
    <2>3. CASE DevkmsgSeek BY <1>1, <1>2, <2>3, DevkmsgSeekReads
    <2>4. CASE SyslogRead BY <1>1, <2>4, SyslogReadReads
    <2>5. CASE SyslogTurn BY <1>1, <2>5, SyslogTurnReads
    <2>6. CASE SyslogSizeUnread BY <1>1, <2>6, SyslogSizeUnreadReads
    <2>7. CASE AllBegin BY <1>1, <1>2, <2>7, AllBeginReads
    <2>8. CASE AllTurn BY <1>1, <2>8, AllTurnReads
    <2>9. CASE DumpGetLine BY <1>1, <2>9, DumpGetLineReads
    <2>10. CASE DumpGetBuffer BY <1>1, <2>10, DumpGetBufferReads
    <2>11. CASE DumpRewind BY <1>1, <1>2, <2>11, DumpRewindReads
    <2> QED BY <1>4, <2>1, <2>2, <2>3, <2>4, <2>5, <2>6, <2>7, <2>8, <2>9, <2>10, <2>11 DEF Read
  <1>5. CASE UNCHANGED vars
    <2>1. UNCHANGED <<log, cont, said, timeset, reader, last, given, cut, lost>> BY <1>5 DEF vars
    <2>2. Carried(log, g, t) /\ Typed /\ (reader # Closed => ReaderOk(g, t))
          /\ AllAccounted /\ InOrder
      BY <1>1 DEF Reading
    <2>3. Carried(log', g, t) BY <2>1, <2>2
    <2>4. Typed' BY <2>1, <2>2 DEF Typed
    <2>5. (reader # Closed => ReaderOk(g, t))' BY <2>1, <2>2 DEF ReaderOk, Holding, Room
    <2>6. AllAccounted' BY <2>1, <2>2 DEF AllAccounted, Accounted
    <2>7. InOrder' BY <2>1, <2>2 DEF InOrder, Begun, LineOf
    <2>8. Reading(g, t)' BY <2>3, <2>4, <2>5, <2>6, <2>7 DEF Reading
    <2> QED BY <2>1, <2>8 DEF LogInv
  <1> QED BY <1>3, <1>4, <1>5 DEF Next

-----------------------------------------------------------------------------
(* Which records are cut short.                                            *)

Cuts ==
  /\ \A seq \in cut : TooLong(seq)
  /\ reader # Closed => reader.held.left = 0 \/ TooLong(reader.held.seq)

LEMMA CutsInit == Init => Cuts
  BY DEF Init, Cuts

(* A record stays as long as it is.                                        *)
LEMMA LongStays ==
  ASSUME LogInv, [Next]_vars, NEW seq, TooLong(seq)
  PROVE  TooLong(seq)'
  <1>1. PICK g, t : Reading(g, t) BY DEF LogInv
  <1>2. LogTyped(log) BY <1>1 DEF Reading, Carried
  <1>3. ASSUME log'.stored = log.stored, log'.next = log.next PROVE TooLong(seq)'
    BY <1>3 DEF TooLong
  <1>4. ASSUME NEW m \in Messages, Say(m) PROVE TooLong(seq)'
    <2>1. Grows(log, g, t, log') BY <1>1, <1>4, SayGrows
    <2>2. PICK h, u : Grown(log, g, t, log', h, u) BY <2>1 DEF Grows
    <2>3. log'.next.seq \in Nat /\ log.next.seq \in Nat
      BY <1>1, <2>2, LaidIs DEF Grown, Reading, Carried
    <2>4. log.next.seq <= log'.next.seq BY <2>2 DEF Grown
    <2>5. seq \in 0 .. log.next.seq - 1 BY DEF TooLong
    <2>6. log'.stored[seq + 1] = log.stored[seq + 1] BY <2>2, <2>5 DEF Grown
    <2>7. seq \in 0 .. log'.next.seq - 1 BY <2>3, <2>4, <2>5
    <2> QED BY <2>6, <2>7 DEF TooLong
  <1>5. CASE SetupLogBuf \/ SetTime \/ SyslogClear
    BY <1>2, <1>3, <1>5 DEF SetupLogBuf, SetTime, SyslogClear, LogTyped
  <1>6. CASE Read
    <2>1. ASSUME NEW r, NEW more, AllGoOn(r, more)
          PROVE  log'.stored = log.stored /\ log'.next = log.next
      BY <1>2, <2>1 DEF AllGoOn, LogTyped
    <2>2. CASE AllBegin BY <1>3, <2>1, <2>2 DEF AllBegin
    <2>3. CASE AllTurn BY <1>3, <2>1, <2>3 DEF AllTurn
    <2>4. CASE ~AllBegin /\ ~AllTurn
      <3>1. UNCHANGED log
        BY <1>6, <2>4 DEF Read, Open, DevkmsgRead, DevkmsgSeek, SyslogRead, SyslogTurn,
                  SyslogSizeUnread, DumpGetLine, DumpGetBuffer, DumpRewind
      <3> QED BY <1>3, <3>1
    <2> QED BY <2>2, <2>3, <2>4
  <1>7. CASE UNCHANGED vars BY <1>3, <1>7 DEF vars
  <1> QED BY <1>4, <1>5, <1>6, <1>7 DEF Next, Write

LEMMA CutsNext == LogInv /\ Cuts /\ [Next]_vars => Cuts'
  <1> SUFFICES ASSUME LogInv, Cuts, [Next]_vars PROVE Cuts'
    OBVIOUS
  <1>1. PICK g, t : Reading(g, t) BY DEF LogInv
  <1>2. reader # Closed => reader \in Readers BY <1>1, LogHas
  <1>3. ASSUME \A seq \in cut' : seq \in cut \/ TooLong(seq),
               reader' = Closed \/ HeldCut \/ (reader # Closed /\ reader'.held = reader.held)
        PROVE  Cuts'
    <2>1. \A seq \in cut' : TooLong(seq)
      BY <1>3 DEF Cuts
    <2>2. \A seq \in cut' : TooLong(seq)'
      BY <2>1, LongStays
    <2>3. reader' # Closed => reader'.held.left = 0 \/ TooLong(reader'.held.seq)
      BY <1>3 DEF Cuts, HeldCut
    <2>4. PICK q : q = reader'.held.seq OBVIOUS
    <2>5. TooLong(q) => TooLong(q)' BY LongStays
    <2>6. reader' # Closed => reader'.held.left = 0 \/ TooLong(q)' BY <2>3, <2>4, <2>5
    <2>7. reader' # Closed => reader'.held.left = 0 \/ TooLong(reader.held.seq)'
      BY <2>4, <2>6 DEF TooLong
    <2> QED BY <2>2, <2>7 DEF Cuts
  <1>4. CASE Write
    <2>1. cut' = cut /\ reader' = reader
      BY <1>4 DEF Write, Say, SetupLogBuf, SetTime, SyslogClear
    <2> QED BY <1>3, <2>1
  <1>5. ASSUME NEW kind, NEW cur, NEW stop, reader' = NewReader(kind, cur, stop),
               cut' \subseteq cut
        PROVE  Cuts'
    <2>1. reader'.held.left = 0 BY <1>5 DEF NewReader, NoPiece
    <2> QED BY <1>3, <1>5, <2>1 DEF HeldCut
  <1>6. CASE Open
    <2>1. \E kind, cur, stop : reader' = NewReader(kind, cur, stop)
      <3>1. PICK kind \in Kinds :
              reader' = CASE kind = "devkmsg" -> NewReader(kind, log.first, 0)
                          [] kind = "syslog"  -> NewReader(kind, Cursor(0, 0), 0)
                          [] kind = "all"     -> NewReader(kind, log.clear, 0)
                          [] OTHER            -> NewReader(kind, log.clear, log.next.seq)
        BY <1>6 DEF Open
      <3> HIDE DEF NewReader, Cursor
      <3>2. \/ reader' = NewReader(kind, log.first, 0)
            \/ reader' = NewReader(kind, Cursor(0, 0), 0)
            \/ reader' = NewReader(kind, log.clear, 0)
            \/ reader' = NewReader(kind, log.clear, log.next.seq)
        BY <3>1
      <3> QED BY <3>2
    <2>2. cut' \subseteq cut BY <1>6 DEF Open, NothingRead
    <2> QED BY <1>5, <2>1, <2>2
  <1>7. CASE DumpRewind
    <2>1. \E kind, cur, stop : reader' = NewReader(kind, cur, stop) BY <1>7 DEF DumpRewind
    <2>2. cut' \subseteq cut BY <1>7 DEF DumpRewind, Forget
    <2> QED BY <1>5, <2>1, <2>2
  <1>8. CASE DevkmsgSeek \/ SyslogRead \/ SyslogSizeUnread \/ DumpGetBuffer
    <2>1. reader.kind \in {"devkmsg", "syslog", "blocks"}
      BY <1>8 DEF DevkmsgSeek, SyslogRead, SyslogSizeUnread, DumpGetBuffer
    <2>2. reader # Closed BY <2>1 DEF Closed
    <2>3. reader \in Readers BY <1>2, <2>2
    <2>4. cut' \subseteq cut
      BY <1>8 DEF DevkmsgSeek, SyslogRead, SyslogSizeUnread, DumpGetBuffer, Forget, NothingRead
    <2>5. reader'.held = reader.held
      <3>1. CASE DevkmsgSeek BY <2>3, <3>1 DEF DevkmsgSeek, Readers
      <3>2. CASE SyslogRead BY <2>3, <3>2 DEF SyslogRead, Readers
      <3>3. CASE SyslogSizeUnread BY <2>3, <3>3 DEF SyslogSizeUnread, Resynced, Readers
      <3>4. CASE DumpGetBuffer
        <4> DEFINE r == [reader EXCEPT !.cur = Caught(@)]
        <4>1. r.held = reader.held /\ r \in [DOMAIN r -> UNION {{r[f]} : f \in DOMAIN r}]
          BY <2>3 DEF Readers
        <4>2. reader' = r \/ \E c : reader' = [r EXCEPT !.stop = c]
          BY <3>4 DEF DumpGetBuffer
        <4>3. \A c : [r EXCEPT !.stop = c].held = r.held BY <2>3 DEF Readers
        <4> HIDE DEF r
        <4> QED BY <4>1, <4>2, <4>3
      <3> QED BY <1>8, <3>1, <3>2, <3>3, <3>4
    <2> QED BY <1>3, <2>2, <2>4, <2>5
  <1>9. CASE DevkmsgRead \/ DumpGetLine
    <2>1. cut' = cut /\ reader'.held = reader.held
      BY <1>1, <1>9, DevkmsgReadReads, DumpGetLineReads
    <2>2. reader # Closed
      <3>1. reader.kind \in {"devkmsg", "lines"} BY <1>9 DEF DevkmsgRead, DumpGetLine
      <3> QED BY <3>1 DEF Closed
    <2> QED BY <1>3, <2>1, <2>2
  <1>10. CASE SyslogTurn
    <2>1. (\A seq \in cut' : seq \in cut \/ TooLong(seq)) /\ reader'.held = reader.held
      BY <1>1, <1>10, SyslogTurnReads
    <2>2. reader # Closed
      <3>1. reader.kind = "syslog" BY <1>10 DEF SyslogTurn
      <3> QED BY <3>1 DEF Closed
    <2> QED BY <1>3, <2>1, <2>2
  <1>11. CASE AllBegin
    <2>1. HeldCut BY <1>1, <1>11, AllBeginReads
    <2>2. cut' = {} BY <1>11 DEF AllBegin, Forget
    <2> QED BY <1>3, <2>1, <2>2
  <1>12. CASE AllTurn
    <2>1. HeldCut BY <1>1, <1>12, AllTurnReads
    <2>2. reader # Closed
      <3>1. reader.kind = "all" BY <1>12 DEF AllTurn
      <3> QED BY <3>1 DEF Closed
    <2>3. [reader EXCEPT !.cur = Caught(reader.cur)].held = reader.held BY <1>2, <2>2 DEF Readers
    <2>4. HandOver(reader.held) \/ Lose(reader.held) BY <1>12, <2>3 DEF AllTurn
    <2>5. \A seq \in cut' : seq \in cut \/ TooLong(seq)
      BY <2>2, <2>4 DEF HandOver, Lose, Cuts
    <2> QED BY <1>3, <2>1, <2>5
  <1>13. CASE UNCHANGED vars BY <1>3, <1>13 DEF vars
  <1> QED BY <1>4, <1>6, <1>7, <1>8, <1>9, <1>10, <1>11, <1>12, <1>13 DEF Next, Read

-----------------------------------------------------------------------------
(* What follows from it.                                                   *)

(* Once log_make_free_space() has dropped what it drops, the message fits. *)
LEMMA FitsThen ==
  ASSUME NEW g, LogTyped(log), Laid(log, g), NEW m \in Messages
  PROVE  LET size == RoundUp(HdrLen + m.len) IN Fits(MakeRoom(log, size), size)
  <1> DEFINE size == RoundUp(HdrLen + m.len)
             l == MakeRoom(log, size)
  <1>1. m.len \in 0 .. LineMax BY Sizes1
  <1>2. size \in Nat /\ size > 0 /\ 2 * (size + HdrLen) <= BufLen BY <1>1, RecordSize
  <1> HIDE DEF size
  <1>3. LogTyped(l) /\ Laid(l, g) /\ Roomy(l, size) BY <1>2, MakeRoomIs
  <1> HIDE DEF l
  <1>4. /\ l.first = Cursor(l.first.seq, g[l.first.seq])
        /\ l.next = Cursor(l.next.seq, g[l.next.seq])
        /\ l.next.seq \in Nat /\ g \in [0 .. l.next.seq -> Nat]
        /\ l.len \in Nat /\ BufLen <= l.len
    BY <1>3, LaidIs
  <1>5. ASSUME l.first.seq = l.next.seq PROVE Fits(l, size)
    <2> DEFINE x == g[l.next.seq]
    <2>1. x \in Nat BY <1>4
    <2>2. l.first.idx = x /\ l.next.idx = x BY <1>4, <1>5 DEF Cursor
    <2> HIDE DEF x
    <2>3. Max({l.len - x, x}) >= size + HdrLen
      <3>1. Max({l.len - x, x}) = IF l.len - x >= x THEN l.len - x ELSE x
        BY <1>4, <2>1, MaxOfTwo
      <3>2. HdrLen \in Nat /\ BufLen \in Nat BY Sizes1
      <3> QED BY <1>2, <1>4, <2>1, <3>1, <3>2
    <2> QED BY <1>5, <2>2, <2>3 DEF Fits, HasSpace
  <1>6. ASSUME l.first.seq # l.next.seq PROVE Fits(l, size)
    <2>1. HasSpace(l, l.first, size, FALSE) BY <1>3, <1>6 DEF Roomy
    <2> QED BY <1>6, <2>1 DEF Fits, HasSpace
  <1>7. Fits(l, size) BY <1>5, <1>6
  <1> QED BY <1>7 DEF l, size

LEMMA HoldsThen == LogInv => RingHoldsLog
  <1> SUFFICES ASSUME LogInv PROVE RingHoldsLog OBVIOUS
  <1>1. PICK g, t : Reading(g, t) BY DEF LogInv
  <1>2. LogTyped(log) /\ Laid(log, g) BY <1>1 DEF Reading, Carried
  <1> DEFINE F == log.first.seq
             N == log.next.seq
             at == Walk(log, log.first, N)
  <1>3. /\ F \in Nat /\ N \in Nat /\ F <= log.clear.seq /\ log.clear.seq <= N
        /\ log.clear.seq \in Nat /\ log.first = Cursor(F, g[F]) /\ log.next = Cursor(N, g[N])
        /\ log.clear = Cursor(log.clear.seq, g[log.clear.seq])
        /\ g \in [0 .. N -> Nat] /\ log.stored \in Seq(Record) /\ N = Len(log.stored)
    <2>1. log.stored \in Seq(Record) BY <1>2 DEF LogTyped
    <2> QED BY <1>2, <2>1, LaidIs
  <1>4. at = [n \in F .. N |-> Cursor(n, g[n])]
    <2>1. F \in F .. N /\ N \in F .. N BY <1>3
    <2>2. Walk(log, Cursor(F, g[F]), N) = [n \in F .. N |-> Cursor(n, g[n])]
      BY <1>2, <2>1, WalkIs
    <2> QED BY <1>3, <2>2
  <1> HIDE DEF at
  <1>5. ASSUME NEW seq \in F .. N - 1 PROVE Intact(at[seq].idx, seq)
    <2>1. at[seq].idx = g[seq] BY <1>3, <1>4 DEF Cursor
    <2> DEFINE p == From(log, g[seq])
               size == log.stored[seq + 1].size
    <2>2. Whole(log, g, seq) BY <1>2 DEF Laid
    <2>3. p \in Nat /\ size \in Nat \ {0} BY <1>2, StepIs
    <2>4. \A k \in 0 .. size - 1 : p + k < log.len /\ log.mem[p + k] = <<seq, k>>
      BY <2>2 DEF Whole
    <2> HIDE DEF p, size
    <2>5. log.mem[p] = <<seq, 0>>
      <3>1. 0 \in 0 .. size - 1 /\ p + 0 = p BY <2>3
      <3> QED BY <2>4, <3>1
    <2> QED BY <2>1, <2>4, <2>5 DEF Intact, p, size
  <1>6. at[N] = log.next /\ at[log.clear.seq] = log.clear BY <1>3, <1>4
  <1>7. reader # Closed /\ ~Gone(reader.cur) => at[reader.cur.seq] = reader.cur
    <2> SUFFICES ASSUME reader # Closed, ~Gone(reader.cur)
                 PROVE  at[reader.cur.seq] = reader.cur
      OBVIOUS
    <2>1. OnWay(g, reader.cur) BY <1>1, ReaderIs
    <2>2. reader.cur.seq \in F .. N BY <1>3, <2>1 DEF OnWay, Gone
    <2> QED BY <1>4, <2>1, <2>2 DEF OnWay
  <1>8. log.next.idx + HdrLen <= log.len
    <2>1. N \in F .. N /\ log.next.idx = g[N] BY <1>3 DEF Cursor
    <2> QED BY <1>2, <2>1 DEF Laid
  <1>9. \A m \in Messages :
          LET size == RoundUp(HdrLen + m.len) IN Fits(MakeRoom(log, size), size)
    BY <1>2, FitsThen
  <1> QED BY <1>5, <1>6, <1>7, <1>8, <1>9 DEF RingHoldsLog, at

LEMMA FitsInThen == LogInv => FitsBuffer
  <1> SUFFICES ASSUME LogInv, reader.kind = "all", reader.size > 0
               PROVE  reader.len + reader.held.n <= reader.size
    BY DEF FitsBuffer
  <1>1. PICK g, t : Reading(g, t) BY DEF LogInv
  <1> DEFINE v == t[reader.time]
             q == reader.cur.seq
             n == reader.len + reader.held.n
  <1>2. reader # Closed BY DEF Closed
  <1>3. reader \in Readers /\ OnWay(g, reader.cur) /\ reader.stop <= log.next.seq /\ Room(t)
    BY <1>1, <1>2, ReaderIs
  <1>4. Carried(log, g, t) /\ log.next.seq \in Nat BY <1>1, LogHas
  <1>5. n + (IF q < reader.stop THEN v[reader.stop] - v[q] ELSE 0) <= reader.size
    BY <1>3 DEF Room
  <1>6. /\ q \in Nat /\ reader.stop \in Nat /\ reader.time \in BOOLEAN
        /\ reader.size \in Nat /\ n \in Int
    <2>1. reader.held.n \in Int BY <1>3 DEF Readers, Pieces
    <2> QED BY <1>3, <2>1, ReaderHas
  <1>7. q < reader.stop => v[reader.stop] \in Nat /\ v[q] \in Nat /\ v[q] <= v[reader.stop]
    <2> SUFFICES ASSUME q < reader.stop
                 PROVE  v[reader.stop] \in Nat /\ v[q] \in Nat /\ v[q] <= v[reader.stop]
      OBVIOUS
    <2>1. q \in 0 .. log.next.seq /\ reader.stop \in q .. log.next.seq BY <1>3, <1>4, <1>6
    <2> QED BY <1>4, <1>6, <2>1, TotalsGrow
  <1> HIDE DEF v, q, n
  <1>8. n <= reader.size BY <1>5, <1>6, <1>7
  <1> QED BY <1>8 DEF n

(* Whatever is printed, cleared and enlarged, and wherever the ring wraps,  *)
(* log_next() leads from log_first_idx to log_next_idx through records     *)
(* nothing was written over, the positions of readers that were not         *)
(* overtaken are on the way, and the next message finds room (log_store(), *)
(* log_make_free_space(), logbuf_has_space()).                             *)
THEOREM RingHoldsLogAlways == Spec => []RingHoldsLog
  BY LogInit, LogNext, HoldsThen, PTL DEF Spec

(* No reader of the four kinds passes over a record that is in the ring,   *)
(* whatever is dropped between its calls: devkmsg_read(), syslog_print(),  *)
(* syslog_print_all(), kmsg_dump_get_line() and kmsg_dump_get_buffer();    *)
(* but the two syslog readers leave out the last lines of a record whose   *)
(* lines do not all fit into text[], and of no other (msg_print_text()).   *)
THEOREM NothingSkippedAlways == Spec => []NothingSkipped
  <1>1. LogInv /\ Cuts => NothingSkipped BY DEF LogInv, Reading, Cuts, NothingSkipped
  <1> QED BY <1>1, LogInit, LogNext, CutsInit, CutsNext, PTL DEF Spec

(* The sums syslog_print_all() makes before it releases logbuf_lock bound  *)
(* what it copies afterwards, when the ring is another: records it had not *)
(* counted are none of its, and those it had counted only go.              *)
THEOREM FitsBufferAlways == Spec => []FitsBuffer
  BY LogInit, LogNext, FitsInThen, PTL DEF Spec

(* A reader gets the record at its position and no other, younger after    *)
(* older, and a line in parts that fit together in one form (log_from_idx() *)
(* and syslog_partial, syslog_time of syslog_print()).                     *)
THEOREM ReadInOrderAlways == Spec => ReadInOrder
  <1>1. Ordered \/ last' = last <=>
          [last' # NoPiece =>
             /\ last'.rec = last'.seq /\ last'.from + last'.n <= last'.of
             /\ \/ last'.seq > last.seq /\ last'.from = 0
                \/ last'.seq = last.seq /\ last'.from = last.from + last.n /\ last'.of = last.of
                \/ last'.seq \in lost]_last
    BY DEF Ordered
  <1> QED BY <1>1, LogInit, LogNext, PTL DEF Spec, ReadInOrder

-----------------------------------------------------------------------------
(* The texts.                                                              *)

SumsOf(texts, S, w) ==
  /\ w \in [0 .. Len(texts) -> Int] /\ w[0] = 0
  /\ \A i \in 1 .. Len(texts) : w[i] = w[i - 1] + S[texts[i]].len

(* A line r is made of some of the first n of the messages S, in their     *)
(* order, all from one caller.                                             *)
One(r, S, n) ==
  /\ r.texts \in Seq(Nat)
  /\ \A a \in 1 .. Len(r.texts) :
       LET k == r.texts[a] IN k \in 1 .. n /\ S[k].len > 0 /\ S[k].who = r.who
  /\ \A a, b \in 1 .. Len(r.texts) : a < b => r.texts[a] < r.texts[b]
  /\ \E w : SumsOf(r.texts, S, w) /\ w[Len(r.texts)] = r.len

Before(r, s) ==
  \A a \in 1 .. Len(r.texts), b \in 1 .. Len(s.texts) : r.texts[a] < s.texts[b]

Has(r, k) == \E a \in 1 .. Len(r.texts) : r.texts[a] = k

(* All of the first n messages with a text are in a line of Q or in c.     *)
Kept(Q, c, S, n) ==
  /\ Q \in Seq(Record)
  /\ \A i \in 1 .. Len(Q) : One(Q[i], S, n) /\ Before(Q[i], c)
  /\ \A i, j \in 1 .. Len(Q) : i < j => Before(Q[i], Q[j])
  /\ One(c, S, n)
  /\ c.len = 0 => c.texts = <<>>
  /\ \A k \in 1 .. n : S[k].len > 0 => Has(c, k) \/ \E i \in 1 .. Len(Q) : Has(Q[i], k)

LEMMA OneOfMore ==
  ASSUME NEW r, NEW S, NEW S1, NEW n \in Nat, NEW n1 \in Nat, n <= n1, One(r, S, n),
         \A k \in 1 .. n : S1[k] = S[k]
  PROVE  One(r, S1, n1)
  <1>1. r.texts \in Seq(Nat)
        /\ \A a, b \in 1 .. Len(r.texts) : a < b => r.texts[a] < r.texts[b]
    BY DEF One
  <1>2. ASSUME NEW a \in 1 .. Len(r.texts)
        PROVE  LET k == r.texts[a]
               IN  k \in 1 .. n1 /\ S1[k].len > 0 /\ S1[k].who = r.who /\ S1[k] = S[k]
    <2>1. r.texts[a] \in 1 .. n BY DEF One
    <2>2. S[r.texts[a]].len > 0 /\ S[r.texts[a]].who = r.who BY DEF One
    <2>3. S1[r.texts[a]] = S[r.texts[a]] BY <2>1
    <2> QED BY <2>1, <2>2, <2>3
  <1>3. PICK w : SumsOf(r.texts, S, w) /\ w[Len(r.texts)] = r.len BY DEF One
  <1>4. SumsOf(r.texts, S1, w) BY <1>2, <1>3 DEF SumsOf
  <1> QED BY <1>1, <1>2, <1>3, <1>4 DEF One

(* One more message: first nothing is done with it ...                     *)
LEMMA KeptOfMore ==
  ASSUME NEW Q, NEW c, NEW S, NEW S1, NEW n \in Nat, Kept(Q, c, S, n),
         \A k \in 1 .. n : S1[k] = S[k]
  PROVE  Kept(Q, c, S1, n)
  <1>1. n <= n OBVIOUS
  <1>2. \A i \in 1 .. Len(Q) : One(Q[i], S1, n) BY <1>1, OneOfMore DEF Kept
  <1>3. One(c, S1, n) BY <1>1, OneOfMore DEF Kept
  <1> QED BY <1>2, <1>3 DEF Kept

(* ... then it is seen to have no text ...                                 *)
LEMMA KeptSkips ==
  ASSUME NEW Q, NEW c, NEW d, NEW S, NEW n \in Nat, Kept(Q, c, S, n), S[n + 1].len = 0,
         d.texts = c.texts, d.len = c.len, d.who = c.who \/ c.len = 0
  PROVE  Kept(Q, d, S, n + 1)
  <1>1. n <= n + 1 /\ n + 1 \in Nat OBVIOUS
  <1>2. \A i \in 1 .. Len(Q) : One(Q[i], S, n + 1) BY <1>1, OneOfMore DEF Kept
  <1>3. One(d, S, n + 1)
    <2>1. One(c, S, n + 1) BY <1>1, OneOfMore DEF Kept
    <2>2. CASE d.who = c.who BY <2>1, <2>2 DEF One
    <2>3. CASE c.len = 0
      <3>1. c.texts = <<>> BY <2>3 DEF Kept
      <3>2. 1 .. Len(c.texts) = {} BY <3>1
      <3> QED BY <2>1, <3>2 DEF One
    <2> QED BY <2>2, <2>3
  <1>4. \A i \in 1 .. Len(Q) : Before(Q[i], d) BY DEF Kept, Before
  <1>5. \A k \in 1 .. n + 1 :
          S[k].len > 0 => Has(d, k) \/ \E i \in 1 .. Len(Q) : Has(Q[i], k)
    <2> SUFFICES ASSUME NEW k \in 1 .. n + 1, S[k].len > 0
                 PROVE  Has(d, k) \/ \E i \in 1 .. Len(Q) : Has(Q[i], k)
      OBVIOUS
    <2>1. k # n + 1 OBVIOUS
    <2>2. k \in 1 .. n BY <2>1
    <2> QED BY <2>2 DEF Kept, Has
  <1>6. d.len = 0 => d.texts = <<>> BY DEF Kept
  <1> QED BY <1>2, <1>3, <1>4, <1>5, <1>6 DEF Kept

(* ... or its text is added to the line ...                                *)
LEMMA KeptGains ==
  ASSUME NEW Q, NEW c, NEW d, NEW S, NEW n \in Nat, Kept(Q, c, S, n),
         S[n + 1].len \in Nat \ {0}, c.len \in Nat,
         d.texts = Append(c.texts, n + 1), d.len = c.len + S[n + 1].len,
         d.who = S[n + 1].who, c.len = 0 \/ c.who = d.who
  PROVE  Kept(Q, d, S, n + 1)
  <1> DEFINE L == Len(c.texts)
  <1>1. n <= n + 1 /\ n + 1 \in Nat OBVIOUS
  <1>2. \A i \in 1 .. Len(Q) : One(Q[i], S, n + 1) BY <1>1, OneOfMore DEF Kept
  <1>3. One(c, S, n) BY DEF Kept
  <1>4. c.texts \in Seq(Nat) /\ L \in Nat BY <1>3 DEF One
  <1>5. /\ d.texts \in Seq(Nat) /\ Len(d.texts) = L + 1 /\ d.texts[L + 1] = n + 1
        /\ \A a \in 1 .. L : d.texts[a] = c.texts[a]
    BY <1>4
  <1>6. \A a \in 1 .. L :
          LET k == c.texts[a] IN k \in 1 .. n /\ S[k].len > 0 /\ S[k].who = c.who
    BY <1>3 DEF One
  <1>7. L > 0 => c.who = d.who
    <2>1. c.texts = <<>> => L = 0 OBVIOUS
    <2> QED BY <2>1, <1>4 DEF Kept
  <1> HIDE DEF L
  <1>8. ASSUME NEW a \in 1 .. L + 1
        PROVE  LET k == d.texts[a]
               IN  k \in 1 .. n + 1 /\ S[k].len > 0 /\ S[k].who = d.who
    <2>1. CASE a = L + 1 BY <1>5, <2>1
    <2>2. CASE a # L + 1
      <3>1. a \in 1 .. L /\ L > 0 BY <1>4, <2>2
      <3> QED BY <1>5, <1>6, <1>7, <3>1
    <2> QED BY <2>1, <2>2
  <1>9. ASSUME NEW a \in 1 .. L + 1, NEW b \in 1 .. L + 1, a < b
        PROVE  d.texts[a] < d.texts[b]
    <2>1. a \in 1 .. L BY <1>4, <1>9
    <2>2. CASE b = L + 1 BY <1>5, <1>6, <2>1, <2>2
    <2>3. CASE b # L + 1
      <3>1. b \in 1 .. L BY <1>4, <2>3
      <3>2. c.texts[a] < c.texts[b] BY <1>3, <1>9, <2>1, <3>1 DEF One, L
      <3> QED BY <1>5, <2>1, <3>1, <3>2
    <2> QED BY <2>2, <2>3
  <1>10. PICK w : SumsOf(c.texts, S, w) /\ w[L] = c.len BY <1>3 DEF One, L
  <1> DEFINE v == [i \in 0 .. L + 1 |-> IF i = L + 1 THEN d.len ELSE w[i]]
  <1>11. SumsOf(d.texts, S, v) /\ v[L + 1] = d.len
    <2>1. w \in [0 .. L -> Int] /\ w[0] = 0
          /\ \A i \in 1 .. L : w[i] = w[i - 1] + S[c.texts[i]].len
      BY <1>10 DEF SumsOf, L
    <2>2. v \in [0 .. L + 1 -> Int]
      <3>1. d.len \in Int OBVIOUS
      <3>2. \A i \in 0 .. L + 1 : i # L + 1 => i \in 0 .. L BY <1>4
      <3> QED BY <2>1, <3>1, <3>2
    <2>3. v[0] = 0 /\ v[L + 1] = d.len BY <1>4, <2>1
    <2>4. ASSUME NEW i \in 1 .. L + 1 PROVE v[i] = v[i - 1] + S[d.texts[i]].len
      <3>1. CASE i = L + 1
        <4>1. v[L] = w[L]
          <5>1. L \in 0 .. L + 1 /\ L # L + 1 BY <1>4
          <5> QED BY <5>1
        <4>2. i - 1 = L BY <1>4, <3>1
        <4>3. d.texts[i] = n + 1 /\ v[i] = d.len BY <1>5, <2>3, <3>1
        <4>4. d.len = c.len + S[n + 1].len OBVIOUS
        <4> HIDE DEF v
        <4> QED BY <1>10, <4>1, <4>2, <4>3, <4>4
      <3>2. CASE i # L + 1
        <4>1. i \in 1 .. L /\ i - 1 \in 0 .. L /\ i - 1 # L + 1 BY <1>4, <3>2
        <4>2. v[i] = w[i] /\ v[i - 1] = w[i - 1] BY <3>2, <4>1, <1>4
        <4>3. d.texts[i] = c.texts[i] BY <1>5, <4>1
        <4> QED BY <2>1, <4>1, <4>2, <4>3
      <3> QED BY <3>1, <3>2
    <2> HIDE DEF v
    <2> QED BY <1>5, <2>2, <2>3, <2>4 DEF SumsOf
  <1> HIDE DEF v
  <1>12. One(d, S, n + 1) BY <1>5, <1>8, <1>9, <1>11 DEF One
  <1>13. \A i \in 1 .. Len(Q) : Before(Q[i], d)
    <2> SUFFICES ASSUME NEW i \in 1 .. Len(Q), NEW a \in 1 .. Len(Q[i].texts),
                        NEW b \in 1 .. L + 1
                 PROVE  Q[i].texts[a] < d.texts[b]
      BY <1>5 DEF Before
    <2>1. CASE b = L + 1
      <3>1. Q[i].texts[a] \in 1 .. n BY DEF Kept, One
      <3> QED BY <1>5, <2>1, <3>1
    <2>2. CASE b # L + 1
      <3>1. b \in 1 .. L BY <1>4, <2>2
      <3>2. Before(Q[i], c) BY DEF Kept
      <3>3. Q[i].texts[a] < c.texts[b] BY <3>1, <3>2 DEF Before, L
      <3> QED BY <1>5, <3>1, <3>3
    <2> QED BY <2>1, <2>2
  <1>14. ASSUME NEW k \in 1 .. n + 1, S[k].len > 0
         PROVE  Has(d, k) \/ \E i \in 1 .. Len(Q) : Has(Q[i], k)
    <2>1. CASE k = n + 1
      <3>1. L + 1 \in 1 .. L + 1 BY <1>4
      <3> QED BY <1>5, <2>1, <3>1 DEF Has
    <2>2. CASE k # n + 1
      <3>1. k \in 1 .. n BY <2>2
      <3>2. CASE Has(c, k)
        <4>1. PICK a \in 1 .. L : c.texts[a] = k BY <3>2 DEF Has, L
        <4>2. a \in 1 .. L + 1 /\ d.texts[a] = k BY <1>4, <1>5, <4>1
        <4> QED BY <1>5, <4>2 DEF Has
      <3>3. CASE ~Has(c, k) BY <1>14, <3>1, <3>3 DEF Kept
      <3> QED BY <3>2, <3>3
    <2> QED BY <2>1, <2>2
  <1>15. d.len # 0 OBVIOUS
  <1>16. /\ Q \in Seq(Record)
         /\ \A i, j \in 1 .. Len(Q) : i < j => Before(Q[i], Q[j])
    BY DEF Kept
  <1> QED BY <1>2, <1>12, <1>13, <1>14, <1>15, <1>16 DEF Kept

(* ... and the line becomes a record.                                      *)
LEMMA KeptMoves ==
  ASSUME NEW Q, NEW c, NEW d, NEW S, NEW n \in Nat, Kept(Q, c, S, n),
         NEW r \in Record, r.texts = c.texts, r.len = c.len, r.who = c.who,
         d.texts = <<>>, d.len = 0
  PROVE  Kept(Append(Q, r), d, S, n)
  <1> DEFINE P == Append(Q, r)
             L == Len(Q)
  <1>1. /\ Q \in Seq(Record) /\ L \in Nat
        /\ \A i \in 1 .. L : One(Q[i], S, n) /\ Before(Q[i], c)
        /\ \A i, j \in 1 .. L : i < j => Before(Q[i], Q[j])
        /\ One(c, S, n)
        /\ \A k \in 1 .. n : S[k].len > 0 => Has(c, k) \/ \E i \in 1 .. L : Has(Q[i], k)
    BY DEF Kept
  <1>2. /\ P \in Seq(Record) /\ Len(P) = L + 1 /\ P[L + 1] = r
        /\ \A i \in 1 .. L : P[i] = Q[i]
    BY <1>1
  <1>3. One(r, S, n) BY <1>1 DEF One
  <1>4. \A i \in 1 .. L : Before(Q[i], r) BY <1>1 DEF Before
  <1>5. Len(d.texts) = 0 /\ 1 .. Len(d.texts) = {} OBVIOUS
  <1> HIDE DEF P, L
  <1>6. One(d, S, n)
    <2> DEFINE w == [i \in 0 .. 0 |-> 0]
    <2>1. SumsOf(d.texts, S, w) /\ w[Len(d.texts)] = d.len
      <3>1. w \in [0 .. 0 -> Int] /\ w[0] = 0 OBVIOUS
      <3> HIDE DEF w
      <3> QED BY <1>5, <3>1 DEF SumsOf
    <2>2. d.texts \in Seq(Nat) OBVIOUS
    <2> HIDE DEF w
    <2> QED BY <1>5, <2>1, <2>2 DEF One
  <1>7. ASSUME NEW i \in 1 .. L + 1 PROVE One(P[i], S, n) /\ Before(P[i], d)
    <2>1. Before(P[i], d) BY <1>5 DEF Before
    <2>2. i = L + 1 \/ i \in 1 .. L BY <1>1
    <2> QED BY <1>1, <1>2, <1>3, <2>1, <2>2
  <1>8. ASSUME NEW i \in 1 .. L + 1, NEW j \in 1 .. L + 1, i < j PROVE Before(P[i], P[j])
    <2>1. i \in 1 .. L BY <1>1, <1>8
    <2>2. j = L + 1 \/ j \in 1 .. L BY <1>1
    <2> QED BY <1>1, <1>2, <1>4, <1>8, <2>1, <2>2
  <1>9. ASSUME NEW k \in 1 .. n, S[k].len > 0
        PROVE  \E i \in 1 .. L + 1 : Has(P[i], k)
    <2>1. CASE Has(c, k)
      <3>1. Has(r, k) BY <2>1 DEF Has
      <3>2. L + 1 \in 1 .. L + 1 BY <1>1
      <3> QED BY <1>2, <3>1, <3>2
    <2>2. CASE ~Has(c, k)
      <3>1. PICK i \in 1 .. L : Has(Q[i], k) BY <1>1, <1>9, <2>2
      <3>2. i \in 1 .. L + 1 BY <1>1
      <3> QED BY <1>2, <3>1, <3>2
    <2> QED BY <2>1, <2>2
  <1> QED BY <1>2, <1>6, <1>7, <1>8, <1>9 DEF Kept, P

(* P is Q with a record of these texts behind it.                          *)
With(Q, P, texts, len, who) ==
  \E r \in Record : P = Append(Q, r) /\ r.texts = texts /\ r.len = len /\ r.who = who

LEMMA StoreStores ==
  ASSUME NEW l, LogTyped(l), NEW texts \in Seq(Nat), NEW len \in 0 .. LineMax,
         NEW breaks \in SUBSET (1 .. LineMax), breaks \subseteq 1 .. len,
         NEW who \in Nat, NEW newline \in BOOLEAN
  PROVE  With(l.stored, Store(l, texts, len, breaks, who, newline).stored, texts, len, who)
  <1> DEFINE size == RoundUp(HdrLen + len)
             r == Rec(texts, len, breaks, size, who, newline)
             m == MakeRoom(l, size)
  <1>1. size \in Nat BY RecordSize
  <1>2. r \in Record /\ r.texts = texts /\ r.len = len /\ r.who = who BY <1>1 DEF Rec, Record
  <1>3. m.stored = l.stored BY DEF MakeRoom, LogTyped
  <1>4. Store(l, texts, len, breaks, who, newline) = Put(m, size, r) BY StoreIsPut
  <1>5. Put(m, size, r).stored = Append(m.stored, r)
    <2>1. \E at : m = [l EXCEPT !.first = at[1], !.clear = at[2]]
      <3> DEFINE at == <<m.first, m.clear>>
      <3>1. m = [l EXCEPT !.first = m.first, !.clear = m.clear] BY DEF MakeRoom, LogTyped
      <3>2. at[1] = m.first /\ at[2] = m.clear OBVIOUS
      <3> QED BY <3>1, <3>2
    <2> HIDE DEF m, r, size
    <2> QED BY <2>1 DEF Put, LogTyped
  <1>6. Store(l, texts, len, breaks, who, newline).stored = Append(l.stored, r) BY <1>3, <1>4, <1>5
  <1> HIDE DEF r
  <1> QED BY <1>2, <1>6 DEF With

LEMMA ContFlushKeeps ==
  ASSUME NEW l, LogTyped(l), NEW c \in Line, NEW S, NEW n \in Nat, Kept(l.stored, c, S, n)
  PROVE  LET f == ContFlush(Pair(l, c)) IN Kept(f.log.stored, f.cont, S, n)
  <1> DEFINE f == ContFlush(Pair(l, c))
  <1>1. Pair(l, c).log = l /\ Pair(l, c).cont = c BY DEF Pair
  <1>2. CASE c.len = 0 BY <1>1, <1>2 DEF ContFlush
  <1>3. CASE c.len # 0
    <2> DEFINE m == Store(l, c.texts, c.len, c.breaks, c.who, c.newline)
               d == [c EXCEPT !.len = 0, !.texts = <<>>, !.breaks = {}]
    <2>1. f = Pair(m, d) BY <1>1, <1>3 DEF ContFlush
    <2>2. c.texts \in Seq(Nat) /\ c.len \in 0 .. LineMax /\ c.who \in Nat /\ c.newline \in BOOLEAN
          /\ c.breaks \in SUBSET (1 .. LineMax) /\ c.breaks \subseteq 1 .. c.len
      BY DEF Line
    <2>3. With(l.stored, m.stored, c.texts, c.len, c.who) BY <2>2, StoreStores
    <2>4. d.texts = <<>> /\ d.len = 0 BY DEF Line
    <2> HIDE DEF m, d
    <2>5. PICK r \in Record : /\ m.stored = Append(l.stored, r)
                              /\ r.texts = c.texts /\ r.len = c.len /\ r.who = c.who
      BY <2>3 DEF With
    <2>6. Kept(m.stored, d, S, n) BY <2>4, <2>5, KeptMoves
    <2>7. Pair(m, d).log = m /\ Pair(m, d).cont = d BY DEF Pair
    <2> QED BY <2>1, <2>6, <2>7
  <1> QED BY <1>2, <1>3

(* What a message leaves in the line: its text, if it has one.             *)
LEMMA LineKeeps ==
  ASSUME NEW Q, NEW c, NEW d, NEW S, NEW n \in Nat, Kept(Q, c, S, n), c.len \in Nat,
         NEW m, S[n + 1] = m, m.len \in Nat, c.len = 0 \/ c.who = m.who,
         d.texts = c.texts \o (IF m.len = 0 THEN <<>> ELSE <<n + 1>>),
         d.len = c.len + m.len, d.who = IF c.len = 0 THEN m.who ELSE c.who
  PROVE  Kept(Q, d, S, n + 1)
  <1>1. c.texts \in Seq(Nat) BY DEF Kept, One
  <1>2. CASE m.len = 0
    <2>1. d.texts = c.texts \o <<>> BY <1>2
    <2>2. d.texts = c.texts BY <1>1, <2>1, ConcatEmptySeq
    <2>3. d.len = c.len /\ (d.who = c.who \/ c.len = 0) BY <1>2
    <2> QED BY <1>2, <2>2, <2>3, KeptSkips
  <1>3. CASE m.len # 0
    <2>1. d.texts = c.texts \o <<n + 1>> BY <1>3
    <2>2. d.texts = Append(c.texts, n + 1)
      <3>1. n + 1 \in Nat OBVIOUS
      <3> QED BY <1>1, <2>1, <3>1, AppendIsConcat
    <2>3. d.who = m.who OBVIOUS
    <2>4. m.len \in Nat \ {0} BY <1>3
    <2> QED BY <2>2, <2>3, <2>4, KeptGains
  <1> QED BY <1>2, <1>3

LEMMA ContAddKeeps ==
  ASSUME NEW l, LogTyped(l), NEW c \in Line, NEW S, NEW n \in Nat, Kept(l.stored, c, S, n),
         NEW m \in Messages, S[n + 1] = m, c.len = 0 \/ c.who = m.who,
         c.len + m.len <= LineMax
  PROVE  LET f == ContAdd(Pair(l, c), m, IF m.len = 0 THEN <<>> ELSE <<n + 1>>)
         IN  Kept(f.log.stored, f.cont, S, n + 1)
  <1> DEFINE text == IF m.len = 0 THEN <<>> ELSE <<n + 1>>
             d == [texts |-> c.texts \o text, len |-> c.len + m.len,
                   breaks |-> c.breaks \cup Behind(c.len, m.breaks),
                   who |-> IF c.len = 0 THEN m.who ELSE c.who,
                   newline |-> m.newline \/ (c.len > 0 /\ c.newline)]
             f == ContAdd(Pair(l, c), m, text)
  <1>1. Pair(l, c).log = l /\ Pair(l, c).cont = c BY DEF Pair
  <1>2. f = IF m.newline THEN ContFlush(Pair(l, d)) ELSE Pair(l, d)
    BY <1>1 DEF ContAdd
  <1>3. /\ m \in [who : Nat, len : 0 .. LineMax, breaks : SUBSET (1 .. LineMax),
                  newline : BOOLEAN, cont : BOOLEAN]
        /\ m.breaks \subseteq 1 .. m.len
    BY Sizes1
  <1>4. m.who \in Nat /\ m.len \in 0 .. LineMax /\ m.newline \in BOOLEAN BY <1>3
  <1>5. c.texts \in Seq(Nat) /\ c.len \in 0 .. LineMax /\ c.who \in Nat /\ c.newline \in BOOLEAN
        /\ c.breaks \in SUBSET (1 .. LineMax) /\ c.breaks \subseteq 1 .. c.len
    BY DEF Line
  <1>6. text \in Seq(Nat) OBVIOUS
  <1>7. d \in Line
    <2>1. c.len + m.len \in 0 .. LineMax BY <1>4, <1>5, Sizes1
    <2>2. c.texts \o text \in Seq(Nat) BY <1>5, <1>6
    <2>3. (m.newline \/ (c.len > 0 /\ c.newline)) \in BOOLEAN BY <1>4
    <2>4. (IF c.len = 0 THEN m.who ELSE c.who) \in Nat BY <1>4, <1>5
    <2>5. d.breaks \in SUBSET (1 .. LineMax) /\ d.breaks \subseteq 1 .. c.len + m.len
      <3>1. c.breaks \subseteq 1 .. c.len /\ m.breaks \subseteq 1 .. m.len BY <1>3, <1>5
      <3>2. d.breaks = c.breaks \cup Behind(c.len, m.breaks) OBVIOUS
      <3> HIDE DEF d
      <3> QED BY <1>4, <1>5, <3>1, <3>2, BreaksGrow
    <2> QED BY <2>1, <2>2, <2>3, <2>4, <2>5 DEF Line
  <1>8. Kept(l.stored, d, S, n + 1)
    <2>1. m.len \in Nat /\ c.len \in Nat BY <1>4, <1>5, Sizes1
    <2>2. /\ d.texts = c.texts \o text /\ d.len = c.len + m.len
          /\ d.who = IF c.len = 0 THEN m.who ELSE c.who
      OBVIOUS
    <2> HIDE DEF d
    <2> QED BY <2>1, <2>2, LineKeeps
  <1> HIDE DEF d, text
  <1>9. CASE m.newline
    <2>1. f = ContFlush(Pair(l, d)) /\ n + 1 \in Nat BY <1>2, <1>9
    <2>2. Kept(f.log.stored, f.cont, S, n + 1) BY <1>7, <1>8, <2>1, ContFlushKeeps
    <2> QED BY <2>2 DEF text
  <1>10. CASE ~m.newline
    <2>1. f = Pair(l, d) BY <1>2, <1>10
    <2>2. f.log = l /\ f.cont = d BY <2>1 DEF Pair
    <2>3. Kept(f.log.stored, f.cont, S, n + 1) BY <1>8, <2>2
    <2> QED BY <2>3 DEF text
  <1> QED BY <1>9, <1>10

LEMMA LogOutputKeeps ==
  ASSUME NEW l, NEW g, NEW t, Carried(l, g, t), NEW c \in Line,
         NEW S, NEW n \in Nat, Kept(l.stored, c, S, n), NEW m \in Messages, S[n + 1] = m
  PROVE  LET r == LogOutput(Pair(l, c), m, IF m.len = 0 THEN <<>> ELSE <<n + 1>>)
         IN  Kept(r.log.stored, r.cont, S, n + 1)
  <1> DEFINE text == IF m.len = 0 THEN <<>> ELSE <<n + 1>>
             r == LogOutput(Pair(l, c), m, text)
             f == ContFlush(Pair(l, c))
             k == f.log
             d == f.cont
             s == Store(k, text, m.len, m.breaks, m.who, TRUE)
  <1>1. Pair(l, c).log = l /\ Pair(l, c).cont = c BY DEF Pair
  <1>2. /\ m.who \in Nat /\ m.len \in 0 .. LineMax /\ m.len \in Nat
        /\ m.breaks \in SUBSET (1 .. LineMax) /\ m.breaks \subseteq 1 .. m.len
    <2>1. /\ m \in [who : Nat, len : 0 .. LineMax, breaks : SUBSET (1 .. LineMax),
                    newline : BOOLEAN, cont : BOOLEAN]
          /\ m.breaks \subseteq 1 .. m.len
      BY Sizes1
    <2> QED BY <2>1, Sizes1
  <1>3. LogTyped(l) BY DEF Carried
  <1>4. Kept(r.log.stored, r.cont, S, n + 1)
    <2>1. CASE c.len > 0 /\ c.who = m.who /\ m.cont /\ ~ContFull(Pair(l, c), m)
      <3>1. r = ContAdd(Pair(l, c), m, text) BY <1>1, <2>1 DEF LogOutput
      <3>2. ~(c.len + m.len > LineMax) BY <1>1, <2>1 DEF ContFull
      <3>3. c.len \in 0 .. LineMax BY DEF Line
      <3>4. c.len + m.len <= LineMax BY <1>2, <3>2, <3>3, Sizes1
      <3> QED BY <1>3, <2>1, <3>1, <3>4, ContAddKeeps
    <2>2. CASE ~(c.len > 0 /\ c.who = m.who /\ m.cont /\ ~ContFull(Pair(l, c), m))
      <3>1. r = IF m.len = 0 /\ m.cont THEN f
                ELSE IF ~m.newline THEN ContAdd(f, m, text)
                ELSE Pair(s, d)
        BY <1>1, <2>2 DEF LogOutput
      <3>2. Grows(l, g, t, k) /\ d \in Line /\ d.len = 0 BY ContFlushGrows
      <3>3. LogTyped(k) BY <3>2 DEF Grows, Grown, Carried
      <3>4. Kept(k.stored, d, S, n) BY <1>3, ContFlushKeeps
      <3>5. f = Pair(k, d) BY DEF ContFlush, Pair
      <3>6. text \in Seq(Nat) OBVIOUS
      <3> HIDE DEF f, r
      <3>7. CASE m.len = 0 /\ m.cont
        <4>1. Kept(k.stored, d, S, n + 1) BY <3>2, <3>4, <3>7, KeptSkips
        <4> QED BY <3>1, <3>7, <4>1
      <3>8. CASE ~(m.len = 0 /\ m.cont) /\ ~m.newline
        <4>1. r = ContAdd(Pair(k, d), m, text) BY <3>1, <3>5, <3>8
        <4>2. d.len + m.len <= LineMax /\ d.len = 0 BY <1>2, <3>2
        <4> HIDE DEF k, d
        <4> QED BY <3>2, <3>3, <3>4, <4>1, <4>2, ContAddKeeps
      <3>9. CASE ~(m.len = 0 /\ m.cont) /\ m.newline
        <4>1. r = Pair(s, d) BY <3>1, <3>9
        <4> HIDE DEF k, d, text
        <4>2. TRUE \in BOOLEAN OBVIOUS
        <4>3. PICK q \in Record : /\ s.stored = Append(k.stored, q)
                                  /\ q.texts = text /\ q.len = m.len /\ q.who = m.who
          <5>1. With(k.stored, s.stored, text, m.len, m.who)
            BY <1>2, <3>3, <3>6, <4>2, StoreStores
          <5> HIDE DEF s
          <5> QED BY <5>1 DEF With
        <4>4. d.texts = <<>> BY <3>2, <3>4 DEF Kept
        <4>5. Kept(k.stored, q, S, n + 1)
          <5>1. q.texts = d.texts \o text BY <3>6, <4>3, <4>4
          <5>2. q.len = d.len + m.len BY <1>2, <3>2, <4>3
          <5>3. q.who = IF d.len = 0 THEN m.who ELSE d.who BY <3>2, <4>3
          <5>4. d.len \in Nat BY <3>2
          <5> QED BY <1>2, <3>2, <3>4, <5>1, <5>2, <5>3, <5>4, LineKeeps DEF text
        <4>6. n + 1 \in Nat OBVIOUS
        <4>7. Kept(Append(k.stored, q), d, S, n + 1) BY <3>2, <4>4, <4>5, <4>6, KeptMoves
        <4> HIDE DEF s
        <4>8. r.log = s /\ r.cont = d BY <4>1 DEF Pair
        <4> QED BY <4>3, <4>7, <4>8
      <3> QED BY <3>7, <3>8, <3>9
    <2> QED BY <2>1, <2>2
  <1> QED BY <1>4

(* The inductive invariant of TextKept.                                    *)
TextInv == Kept(log.stored, cont, said, Len(said))

LEMMA TextInit == Init => TextInv
  <1> SUFFICES ASSUME Init PROVE TextInv OBVIOUS
  <1>1. log.stored = <<>> /\ cont = NoCont /\ said = <<>> BY DEF Init, Empty
  <1>2. cont.texts = <<>> /\ cont.len = 0 BY <1>1 DEF NoCont
  <1> DEFINE w == [i \in 0 .. 0 |-> 0]
  <1>3. SumsOf(<<>>, said, w) /\ w[0] = 0
    <2>1. w \in [0 .. 0 -> Int] /\ w[0] = 0 /\ Len(<<>>) = 0 /\ 1 .. 0 = {} OBVIOUS
    <2> HIDE DEF w
    <2> QED BY <2>1 DEF SumsOf
  <1> HIDE DEF w
  <1>4. <<>> \in Seq(Nat) /\ <<>> \in Seq(Record) /\ Len(<<>>) = 0 /\ 1 .. 0 = {} OBVIOUS
  <1>5. One(cont, said, 0) BY <1>2, <1>3, <1>4 DEF One
  <1> QED BY <1>1, <1>2, <1>4, <1>5 DEF TextInv, Kept

LEMMA SayKeeps ==
  ASSUME NEW g, NEW t, Reading(g, t), TextInv, NEW m \in Messages, Say(m)
  PROVE  TextInv'
  <1> DEFINE n == Len(said)
             r == LogOutput(Pair(log, cont), m, IF m.len = 0 THEN <<>> ELSE <<n + 1>>)
  <1>1. Carried(log, g, t) /\ Typed BY DEF Reading
  <1>2. cont \in Line /\ said \in Seq(Messages) BY <1>1 DEF Typed
  <1>3. log' = r.log /\ cont' = r.cont /\ said' = Append(said, m) BY DEF Say
  <1>4. /\ n \in Nat /\ Len(said') = n + 1 /\ said'[n + 1] = m
        /\ \A k \in 1 .. n : said'[k] = said[k]
    BY <1>2, <1>3
  <1>5. Kept(log.stored, cont, said', n) BY <1>4, KeptOfMore DEF TextInv
  <1> HIDE DEF n
  <1>6. Kept(r.log.stored, r.cont, said', n + 1) BY <1>1, <1>2, <1>4, <1>5, LogOutputKeeps
  <1> HIDE DEF r
  <1> QED BY <1>3, <1>4, <1>6 DEF TextInv

LEMMA TextNext == LogInv /\ TextInv /\ [Next]_vars => TextInv'
  <1> SUFFICES ASSUME LogInv, TextInv, [Next]_vars PROVE TextInv'
    OBVIOUS
  <1>1. PICK g, t : Reading(g, t) BY DEF LogInv
  <1>2. LogTyped(log) BY <1>1 DEF Reading, Carried
  <1>3. ASSUME NEW m \in Messages, Say(m) PROVE TextInv' BY <1>1, <1>3, SayKeeps
  <1>4. ASSUME log'.stored = log.stored, UNCHANGED <<cont, said>> PROVE TextInv'
    BY <1>4 DEF TextInv
  <1>5. CASE SetupLogBuf \/ SetTime \/ SyslogClear
    BY <1>2, <1>4, <1>5 DEF SetupLogBuf, SetTime, SyslogClear, LogTyped
  <1>6. CASE Read
    <2>1. UNCHANGED <<cont, said>>
      BY <1>6 DEF Read, Open, DevkmsgRead, DevkmsgSeek, SyslogRead, SyslogTurn,
                  SyslogSizeUnread, AllBegin, AllTurn, DumpGetLine, DumpGetBuffer, DumpRewind
    <2>2. ASSUME NEW r, NEW more, AllGoOn(r, more) PROVE log'.stored = log.stored
      BY <1>2, <2>2 DEF AllGoOn, LogTyped
    <2>3. CASE AllBegin BY <1>4, <2>1, <2>2, <2>3 DEF AllBegin
    <2>4. CASE AllTurn BY <1>4, <2>1, <2>2, <2>4 DEF AllTurn
    <2>5. CASE ~AllBegin /\ ~AllTurn
      <3>1. UNCHANGED log
        BY <1>6, <2>5 DEF Read, Open, DevkmsgRead, DevkmsgSeek, SyslogRead, SyslogTurn,
                  SyslogSizeUnread, DumpGetLine, DumpGetBuffer, DumpRewind
      <3> QED BY <1>4, <2>1, <3>1
    <2> QED BY <2>3, <2>4, <2>5
  <1>7. CASE UNCHANGED vars BY <1>4, <1>7 DEF vars
  <1> QED BY <1>3, <1>5, <1>6, <1>7 DEF Next, Write

(* The sums of TextLen() are the sums there are.                           *)
TextSums(texts, f) ==
  f = [n \in 0 .. Len(texts) |-> IF n = 0 THEN 0 ELSE f[n - 1] + said[texts[n]].len]

LEMMA TextLenIsSum ==
  ASSUME NEW texts, NEW f, TextSums(texts, f)
  PROVE  \E h : TextSums(texts, h) /\ TextLen(texts) = h[Len(texts)]
  BY Zenon DEF TextLen, TextSums

LEMMA TextLenIs ==
  ASSUME NEW texts, Len(texts) \in Nat, NEW w, SumsOf(texts, said, w)
  PROVE  TextLen(texts) = w[Len(texts)]
  <1> DEFINE L == Len(texts)
  <1>1. /\ w \in [0 .. L -> Int] /\ w[0] = 0
        /\ \A i \in 1 .. L : w[i] = w[i - 1] + said[texts[i]].len
    BY DEF SumsOf
  <1>2. TextSums(texts, w)
    <2>1. \A n \in 0 .. L : w[n] = IF n = 0 THEN 0 ELSE w[n - 1] + said[texts[n]].len
      <3> SUFFICES ASSUME NEW n \in 0 .. L, n # 0
                   PROVE  w[n] = w[n - 1] + said[texts[n]].len
        BY <1>1
      <3>1. n \in 1 .. L OBVIOUS
      <3> QED BY <1>1, <3>1
    <2> QED BY <1>1, <2>1 DEF TextSums
  <1>3. PICK h : TextSums(texts, h) /\ TextLen(texts) = h[L] BY <1>2, TextLenIsSum
  <1>4. h = [n \in 0 .. L |-> IF n = 0 THEN 0 ELSE h[n - 1] + said[texts[n]].len]
    BY <1>3 DEF TextSums
  <1> DEFINE S == {n \in 0 .. L : h[n] = w[n]}
  <1> HIDE DEF L
  <1>5. L \in Nat BY DEF L
  <1>6. 0 \in S BY <1>1, <1>4, <1>5
  <1>7. \A n \in 0 .. L - 1 : n \in S => n + 1 \in S
    <2> SUFFICES ASSUME NEW n \in 0 .. L - 1, n \in S PROVE n + 1 \in S OBVIOUS
    <2>1. n + 1 \in 0 .. L /\ n + 1 \in 1 .. L /\ n + 1 # 0 /\ (n + 1) - 1 = n BY <1>5
    <2>2. h[n + 1] = h[n] + said[texts[n + 1]].len BY <1>4, <2>1
    <2>3. w[n + 1] = w[n] + said[texts[n + 1]].len BY <1>1, <2>1
    <2> QED BY <2>1, <2>2, <2>3
  <1> HIDE DEF S
  <1>8. 0 .. L \subseteq S BY <1>5, <1>6, <1>7, Stretch
  <1>9. L \in S BY <1>5, <1>8
  <1> QED BY <1>3, <1>9 DEF S, L

LEMMA KeptThen == LogInv /\ TextInv => TextKept
  <1> SUFFICES ASSUME LogInv, TextInv PROVE TextKept OBVIOUS
  <1> DEFINE Q == log.stored
             lines == Append(Q, cont)
             N == Len(said)
             L == Len(Q)
             Texts(i) == ToSet(lines[i].texts)
  <1>1. PICK g, t : Reading(g, t) BY DEF LogInv
  <1>2. Typed BY <1>1 DEF Reading
  <1>3. cont \in Line /\ said \in Seq(Messages) /\ N \in Nat BY <1>2 DEF Typed
  <1>4. /\ Q \in Seq(Record) /\ L \in Nat
        /\ \A i \in 1 .. L : One(Q[i], said, N) /\ Before(Q[i], cont)
        /\ \A i, j \in 1 .. L : i < j => Before(Q[i], Q[j])
        /\ One(cont, said, N)
        /\ \A k \in 1 .. N :
             said[k].len > 0 => Has(cont, k) \/ \E i \in 1 .. L : Has(Q[i], k)
    BY DEF TextInv, Kept
  <1>5. /\ Len(lines) = L + 1 /\ lines[L + 1] = cont
        /\ \A i \in 1 .. L : lines[i] = Q[i]
    <2>1. Q \in Seq(Record \cup Line) /\ cont \in Record \cup Line BY <1>3, <1>4
    <2> QED BY <2>1
  <1> HIDE DEF lines, N, L, Q
  <1>6. \A i \in 1 .. L + 1 : i = L + 1 \/ i \in 1 .. L BY <1>4
  <1>7. ASSUME NEW i \in 1 .. L + 1 PROVE One(lines[i], said, N) BY <1>4, <1>5, <1>6
  <1>8. ASSUME NEW i \in 1 .. L + 1, NEW j \in 1 .. L + 1, i < j PROVE Before(lines[i], lines[j])
    <2>1. i \in 1 .. L BY <1>4, <1>8
    <2>2. j = L + 1 \/ j \in 1 .. L BY <1>6
    <2> QED BY <1>4, <1>5, <1>8, <2>1, <2>2
  <1>9. ASSUME NEW k \in 1 .. N, said[k].len > 0
        PROVE  \E i \in 1 .. L + 1 : Has(lines[i], k)
    <2>1. CASE Has(cont, k)
      <3>1. L + 1 \in 1 .. L + 1 BY <1>4
      <3> QED BY <1>5, <2>1, <3>1
    <2>2. CASE ~Has(cont, k)
      <3>1. PICK i \in 1 .. L : Has(Q[i], k) BY <1>4, <1>9, <2>2
      <3>2. i \in 1 .. L + 1 BY <1>4
      <3> QED BY <1>5, <3>1, <3>2
    <2> QED BY <2>1, <2>2
  <1>10. ASSUME NEW i \in 1 .. L + 1
         PROVE  /\ lines[i].texts \in Seq(Nat) /\ Len(lines[i].texts) \in Nat
                /\ \A k : k \in Texts(i) <=> Has(lines[i], k)
    <2>1. lines[i].texts \in Seq(Nat) BY <1>7 DEF One
    <2>2. Len(lines[i].texts) \in Nat /\ DOMAIN lines[i].texts = 1 .. Len(lines[i].texts) BY <2>1
    <2> QED BY <2>1, <2>2 DEF ToSet, Has
  <1> HIDE DEF Texts
  <1>11. {k \in 1 .. N : said[k].len > 0} = UNION {Texts(i) : i \in 1 .. L + 1}
    <2>1. ASSUME NEW k \in 1 .. N, said[k].len > 0
          PROVE  k \in UNION {Texts(i) : i \in 1 .. L + 1}
      BY <1>9, <1>10, <2>1
    <2>2. ASSUME NEW i \in 1 .. L + 1, NEW k \in Texts(i)
          PROVE  k \in 1 .. N /\ said[k].len > 0
      <3>1. PICK a \in 1 .. Len(lines[i].texts) : lines[i].texts[a] = k BY <1>10 DEF Has
      <3> QED BY <1>7, <3>1 DEF One
    <2> QED BY <2>1, <2>2
  <1>12. ASSUME NEW i \in 1 .. L + 1, NEW j \in 1 .. L + 1, i < j,
                NEW k \in Texts(i), NEW n \in Texts(j)
         PROVE  k < n
    <2>1. PICK a \in 1 .. Len(lines[i].texts) : lines[i].texts[a] = k BY <1>10 DEF Has
    <2>2. PICK b \in 1 .. Len(lines[j].texts) : lines[j].texts[b] = n BY <1>10 DEF Has
    <2>3. Before(lines[i], lines[j]) BY <1>8, <1>12
    <2> QED BY <2>1, <2>2, <2>3 DEF Before
  <1>13. ASSUME NEW i \in 1 .. L + 1
         PROVE  /\ \A a, b \in 1 .. Len(lines[i].texts) :
                     a < b => lines[i].texts[a] < lines[i].texts[b]
                /\ \A k \in Texts(i) : said[k].who = lines[i].who
                /\ lines[i].len = TextLen(lines[i].texts)
    <2>1. One(lines[i], said, N) BY <1>7
    <2>2. \A k \in Texts(i) : said[k].who = lines[i].who
      <3> SUFFICES ASSUME NEW k \in Texts(i) PROVE said[k].who = lines[i].who OBVIOUS
      <3>1. PICK a \in 1 .. Len(lines[i].texts) : lines[i].texts[a] = k BY <1>10 DEF Has
      <3> QED BY <2>1, <3>1 DEF One
    <2>3. PICK w : /\ SumsOf(lines[i].texts, said, w)
                   /\ w[Len(lines[i].texts)] = lines[i].len
      BY <2>1 DEF One
    <2>4. lines[i].len = TextLen(lines[i].texts) BY <1>10, <2>3, TextLenIs
    <2> QED BY <2>1, <2>2, <2>4 DEF One
  <1> QED BY <1>5, <1>11, <1>12, <1>13 DEF TextKept, Texts, lines, Q, N

(* However the fragments of several callers interleave, whichever of them   *)
(* end a line, and whether a line gets too long, every text stands once in *)
(* the log, in order, with those of its caller alone (log_output(),        *)
(* cont_add(), cont_flush()).                                              *)
THEOREM TextKeptAlways == Spec => []TextKept
  BY LogInit, LogNext, TextInit, TextNext, KeptThen, PTL DEF Spec
=============================================================================

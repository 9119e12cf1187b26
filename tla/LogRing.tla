------------------------------ MODULE LogRing ------------------------------
(***************************************************************************)
(* The kernel log of printk.c: callers put messages into a ring of records *)
(* of different lengths, and one reader takes them out again.  The reader  *)
(* is one of the four the file has: /dev/kmsg, the syslog call that        *)
(* consumes (syslog_print), the one that copies everything                 *)
(* (syslog_print_all) and a crash dumper (kmsg_dump).  Readers share the   *)
(* log and the position of the last clear, which any process may move, so  *)
(* one reader of each kind shows what several do; but for callers of       *)
(* syslog_print(), who share its position, too (syslog_seq, syslog_partial *)
(* and syslog_time are static), and are modelled as long as their calls do *)
(* not overlap.                                                            *)
(*                                                                         *)
(* Everything happens under logbuf_lock; an action is what one holder of   *)
(* the lock does.  A message is its number, its length, the places of the  *)
(* newlines in it and its flags; the memory of the ring says of every byte *)
(* which record put it there.  A dictionary makes a record longer, as text *)
(* does, and is left out.                                                  *)
(*                                                                         *)
(* log_store() shortens a message that does not fit into the empty ring;   *)
(* LogAssumption, true of every size printk.c can be built with, excludes  *)
(* that (RoomForAll), and truncate_msg() is left out.                      *)
(***************************************************************************)
EXTENDS Integers, Sequences, FiniteSetsExt, SequencesExt

CONSTANTS HdrLen,      \* sizeof(struct printk_log)
          LogAlign,    \* LOG_ALIGN
          LineMax,     \* LOG_LINE_MAX
          BufLen,      \* __LOG_BUF_LEN
          BigLen,      \* the length asked for with log_buf_len=, or BufLen
          TimeLen,     \* length of the time stamp in a printed line
          PrefixMax,   \* PREFIX_MAX
          Messages,    \* what callers print
          Sizes,       \* buffer sizes of the reader
          Kinds,       \* the kinds of reader looked at
          MaxSaid,     \* bound: messages printed
          MaxLost,     \* bound: copies to the user that fail
          MaxTimeSet   \* bound: writes of printk_time

RoundUp(n) == ((n + LogAlign - 1) \div LogAlign) * LogAlign

ASSUME LogAssumption ==
  /\ {HdrLen, LogAlign, LineMax, TimeLen} \subseteq Nat \ {0}
  /\ PrefixMax \in Nat /\ TimeLen + 2 < PrefixMax
  /\ {MaxSaid, MaxLost, MaxTimeSet} \subseteq Nat
  /\ {BufLen, BigLen} \subseteq Nat \ {0}
  /\ BufLen <= BigLen
  /\ BufLen % LogAlign = 0 /\ BigLen % LogAlign = 0 /\ HdrLen % LogAlign = 0
  /\ 2 * (RoundUp(HdrLen + LineMax) + HdrLen) <= BufLen
  /\ Messages \subseteq [who : Nat, len : 0 .. LineMax, breaks : SUBSET (1 .. LineMax),
                          newline : BOOLEAN, cont : BOOLEAN]
  /\ \A m \in Messages : m.breaks \subseteq 1 .. m.len
  /\ Sizes \subseteq Nat \ {0}
  /\ Kinds \subseteq {"devkmsg", "syslog", "all", "lines", "blocks"}

VARIABLES
  log,         \* the ring: see Empty; its field stored is the history of it
  cont,        \* the line not ended yet: texts, len, breaks, who, newline
  said,        \* history: the messages printed, in order
  timeset,     \* the writes of the module parameter printk_time
  reader,      \* the reader: see Closed
  last,        \* history: the piece of text the reader was given last
  given,       \* history: records handed over to the end of what is printed of them
  cut,         \* history: those of them whose last lines are not printed
  lost         \* history: records the reader took but failed to hand over

vars == <<log, cont, said, timeset, reader, last, given, cut, lost>>

printk_time == timeset % 2 = 0

-----------------------------------------------------------------------------
(* The ring.  A byte is <<record, offset>>; the zero byte belongs to none.  *)

Zero == <<-1, 0>>

Cursor(seq, idx) == [seq |-> seq, idx |-> idx]

Empty == [len |-> BufLen, mem |-> [i \in 0 .. BufLen - 1 |-> Zero],
          first |-> Cursor(0, 0), next |-> Cursor(0, 0), clear |-> Cursor(0, 0),
          stored |-> <<>>]

(* log_from_idx(): where the record of a cursor lies. *)
From(l, idx) == IF l.mem[idx] = Zero THEN 0 ELSE idx

(* The number of the record whose header is there. *)
RecordAt(l, idx) == l.mem[From(l, idx)][1]

(* log_next(), with the sequence number its callers count along. *)
Following(l, c) ==
  Cursor(c.seq + 1, From(l, c.idx) + l.stored[RecordAt(l, c.idx) + 1].size)

(* The cursors met on the way from c to sequence number seq. *)
Walk(l, c, seq) ==
  LET at[n \in c.seq .. seq] == IF n = c.seq THEN c ELSE Following(l, at[n - 1])
  IN  at

(* Fault: no room is kept for the mark of a wrap. *)
HasSpaceNoMark(l, c, size, empty) ==
  IF l.next.idx > c.idx \/ empty THEN Max({l.len - l.next.idx, c.idx}) >= size
  ELSE c.idx - l.next.idx >= size

(* logbuf_has_space(), while the first record is that of cursor c *)
HasSpace(l, c, size, empty) ==
  LET free == IF l.next.idx > c.idx \/ empty
              THEN Max({l.len - l.next.idx, c.idx})
              ELSE c.idx - l.next.idx
  IN  free >= size + HdrLen

(* log_make_free_space(): drop the fewest of the oldest records. *)
MakeRoom(l, size) ==
  LET at == Walk(l, l.first, l.next.seq)
      n == Min({k \in l.first.seq .. l.next.seq :
                  k = l.next.seq \/ HasSpace(l, at[k], size, FALSE)})
  IN  [l EXCEPT !.first = at[n],
                !.clear = IF @.seq < n THEN at[n] ELSE @]

Fits(l, size) == HasSpace(l, l.first, size, l.first.seq = l.next.seq)

(* log_store(): a record, or a zero header at the end of the ring and the   *)
(* record at its start.                                                    *)
Store(l0, texts, len, breaks, who, newline) ==
  LET size == RoundUp(HdrLen + len)
      l == MakeRoom(l0, size)
      wrap == l.next.idx + size + HdrLen > l.len
      at == IF wrap THEN 0 ELSE l.next.idx
      marked == IF wrap
                THEN [i \in 0 .. l.len - 1 |->
                        IF i \in l.next.idx .. l.next.idx + HdrLen - 1
                        THEN Zero ELSE l.mem[i]]
                ELSE l.mem
  IN  [l EXCEPT !.mem = [i \in 0 .. l.len - 1 |->
                           IF i \in at .. at + size - 1
                           THEN <<l.next.seq, i - at>> ELSE marked[i]],
                !.next = Cursor(l.next.seq + 1, at + size),
                !.stored = Append(@, [texts |-> texts, len |-> len, breaks |-> breaks,
                                      size |-> size, who |-> who, newline |-> newline])]

-----------------------------------------------------------------------------
(* Printing.                                                               *)

NoCont == [texts |-> <<>>, len |-> 0, breaks |-> {}, who |-> 0, newline |-> FALSE]

Pair(l, c) == [log |-> l, cont |-> c]

(* cont_flush() *)
ContFlush(s) ==
  IF s.cont.len = 0 THEN s
  ELSE Pair(Store(s.log, s.cont.texts, s.cont.len, s.cont.breaks, s.cont.who,
                  s.cont.newline),
            [s.cont EXCEPT !.len = 0, !.texts = <<>>, !.breaks = {}])

ContFull(s, m) == s.cont.len + m.len > LineMax

(* Places in a text that follows one of n characters. *)
Behind(n, places) == {n + b : b \in places}

(* cont_add(), when the line does not get too long *)
ContAdd(s, m, text) ==
  LET c == [texts |-> s.cont.texts \o text, len |-> s.cont.len + m.len,
            breaks |-> s.cont.breaks \cup Behind(s.cont.len, m.breaks),
            who |-> IF s.cont.len = 0 THEN m.who ELSE s.cont.who,
            newline |-> m.newline \/ (s.cont.len > 0 /\ s.cont.newline)]
  IN  IF m.newline THEN ContFlush(Pair(s.log, c)) ELSE Pair(s.log, c)

(* Fault: a continuation is added to whosever line there is. *)
LogOutputAnyCaller(s, m, text) ==
  IF s.cont.len > 0 /\ m.cont /\ ~ContFull(s, m)
  THEN ContAdd(s, m, text)
  ELSE LET f == ContFlush(s)
       IN  IF m.len = 0 /\ m.cont THEN f
           ELSE IF ~m.newline THEN ContAdd(f, m, text)
           ELSE Pair(Store(f.log, text, m.len, m.breaks, m.who, TRUE), f.cont)

(* log_output() *)
LogOutput(s, m, text) ==
  IF s.cont.len > 0 /\ s.cont.who = m.who /\ m.cont /\ ~ContFull(s, m)
  THEN ContAdd(s, m, text)
  ELSE LET f == ContFlush(s)
       IN  IF m.len = 0 /\ m.cont THEN f
           ELSE IF ~m.newline THEN ContAdd(f, m, text)
           ELSE Pair(Store(f.log, text, m.len, m.breaks, m.who, TRUE), f.cont)

(* vprintk_store() *)
Say(m) ==
  /\ Len(said) < MaxSaid
  /\ said' = Append(said, m)
  /\ LET k == Len(said) + 1
         r == LogOutput(Pair(log, cont), m, IF m.len = 0 THEN <<>> ELSE <<k>>)
     IN  log' = r.log /\ cont' = r.cont
  /\ UNCHANGED <<timeset, reader, last, given, cut, lost>>

Closed == [kind |-> "none"]

(* setup_log_buf(): a bigger ring takes over, before there are processes.  *)
SetupLogBuf ==
  /\ log.len < BigLen
  /\ reader = Closed /\ timeset = 0 /\ log.clear = log.first
  /\ log' = [log EXCEPT !.len = BigLen,
                        !.mem = [i \in 0 .. BigLen - 1 |->
                                   IF i < BufLen THEN log.mem[i] ELSE Zero]]
  /\ UNCHANGED <<cont, said, timeset, reader, last, given, cut, lost>>

(* printk_time is written through sysfs; the kernel starts with it set. *)
SetTime ==
  /\ timeset < MaxTimeSet
  /\ timeset' = timeset + 1
  /\ UNCHANGED <<log, cont, said, reader, last, given, cut, lost>>

(* syslog_clear() *)
SyslogClear ==
  /\ log' = [log EXCEPT !.clear = log.next]
  /\ UNCHANGED <<cont, said, timeset, reader, last, given, cut, lost>>

-----------------------------------------------------------------------------
(* Reading.                                                                *)

Gone(c) == c.seq < log.first.seq

(* Fault: an overtaken reader goes on after the last record. *)
CaughtAtEnd(c) == IF Gone(c) THEN log.next ELSE c

(* The record gone is replaced by the oldest there is. *)
Caught(c) == IF Gone(c) THEN log.first ELSE c

RecordOf(c) == log.stored[RecordAt(log, c.idx) + 1]

(* Where the lines of a record end: at its newlines, and after its text.   *)
Ends(rec) == rec.breaks \cup {rec.len + 1}

(* The length of its lines up to that end as they are printed, each with   *)
(* its level and perhaps its time (print_prefix()), and a newline          *)
PrintedTo(rec, end, time) ==
  end + (1 + IF time THEN TimeLen ELSE 0) * Cardinality({b \in Ends(rec) : b <= end})

(* msg_print_text() when it only counts *)
LineSize(rec, time) == PrintedTo(rec, rec.len + 1, time)

LineLen(c, time) == LineSize(RecordOf(c), time)

(* msg_print_text() into the text[] of the two syslog readers: the lines   *)
(* that leave a byte of it free, and none after one that does not.         *)
TextSize(rec, time) ==
  Max({0} \cup {n \in {PrintedTo(rec, e, time) : e \in Ends(rec)} : n < LineMax + PrefixMax})

(* What the lines of the records from c on take, up to each record before  *)
(* number stop: the sums that the callers count up and down again.         *)
LinesUpTo(c, stop, time) ==
  LET at == Walk(log, c, stop)
      sum[n \in c.seq .. stop] == IF n = c.seq THEN 0
                                  ELSE sum[n - 1] + LineLen(at[n - 1], time)
  IN  sum

(* Fault: one record too many is taken. *)
YoungestAndOne(c, stop, max, time) ==
  LET sum == LinesUpTo(c, stop, time)
  IN  Walk(log, c, stop)[Min({n \in c.seq .. stop :
        n = stop \/ sum[stop] - sum[n + 1] <= max})]

(* The first of the youngest records before number stop, from c on, whose  *)
(* lines have together at most max characters.                             *)
Youngest(c, stop, max, time) ==
  LET sum == LinesUpTo(c, stop, time)
  IN  Walk(log, c, stop)[Min({n \in c.seq .. stop :
        n = stop \/ sum[stop] - sum[n] <= max})]

NoPiece == [seq |-> -1, rec |-> -1, from |-> 0, n |-> 0, of |-> 0, left |-> 0]

(* n characters of the text of a record, of whose lines some characters    *)
(* are left out                                                            *)
Piece(c, from, n, of, left) ==
  [seq |-> c.seq, rec |-> RecordAt(log, c.idx), from |-> from, n |-> n, of |-> of,
   left |-> left]

HandOver(p) ==
  /\ last' = p
  /\ IF p.from + p.n = p.of
     THEN given' = given \cup {p.seq} /\ cut' = IF p.left = 0 THEN cut ELSE cut \cup {p.seq}
     ELSE UNCHANGED <<given, cut>>
  /\ UNCHANGED lost

(* The copy to the user fails: what was taken is gone. *)
Lose(p) ==
  /\ Cardinality(lost) < MaxLost
  /\ lost' = lost \cup {p.seq}
  /\ UNCHANGED <<last, given, cut>>

Forget == last' = NoPiece /\ given' = {} /\ cut' = {} /\ lost' = {}

NothingRead == UNCHANGED <<last, given, cut, lost>>

NewReader(kind, cur, stop) ==
  [kind |-> kind, cur |-> cur, start |-> cur.seq, stop |-> stop, end |-> stop,
   partial |-> 0, time |-> FALSE, size |-> 0, len |-> 0, clear |-> FALSE,
   held |-> NoPiece]

(* devkmsg_open(), kmsg_dump(); the position of syslog_print() is static   *)
(* and starts with the log                                                 *)
Open ==
  /\ reader = Closed
  /\ \E kind \in Kinds :
       reader' = CASE kind = "devkmsg" -> NewReader(kind, log.first, 0)
                   [] kind = "syslog"  -> NewReader(kind, Cursor(0, 0), 0)
                   [] kind = "all"     -> NewReader(kind, log.clear, 0)
                   [] OTHER            -> NewReader(kind, log.clear, log.next.seq)
  /\ UNCHANGED <<log, cont, said, timeset>> /\ NothingRead

(* devkmsg_read(); with nothing to read it waits.  The newlines of a       *)
(* record are escaped, all of it is printed (msg_print_ext_body()).        *)
DevkmsgRead ==
  /\ reader.kind = "devkmsg" /\ reader.cur.seq # log.next.seq
  /\ IF Gone(reader.cur)
     THEN reader' = [reader EXCEPT !.cur = log.first] /\ NothingRead
     ELSE LET n == LineLen(reader.cur, TRUE)
              p == Piece(reader.cur, 0, n, n, 0)
          IN  /\ reader' = [reader EXCEPT !.cur = Following(log, @)]
              /\ HandOver(p) \/ Lose(p)
  /\ UNCHANGED <<log, cont, said, timeset>>

(* devkmsg_llseek() *)
DevkmsgSeek ==
  /\ reader.kind = "devkmsg"
  /\ \E c \in {log.first, log.clear, log.next} :
       reader' = [reader EXCEPT !.cur = c, !.start = c.seq]
  /\ Forget
  /\ UNCHANGED <<log, cont, said, timeset>>

(* do_syslog(SYSLOG_ACTION_READ): wait for a record, then syslog_print() *)
SyslogRead ==
  /\ reader.kind = "syslog" /\ reader.size = 0 /\ reader.cur.seq # log.next.seq
  /\ \E size \in Sizes : reader' = [reader EXCEPT !.size = size, !.len = 0]
  /\ UNCHANGED <<log, cont, said, timeset>> /\ NothingRead

(* Fault: the form of a line begun is not remembered. *)
LineTimeNow(r) == printk_time

(* syslog_time: printk_time as it was when the first part of the line was *)
(* read; without such a part its value is of no use and FALSE here.        *)
LineTime(r) == IF r.partial = 0 THEN printk_time ELSE r.time

(* The records a consuming reader wanted are gone: back to the oldest. *)
Resynced(r) ==
  IF Gone(r.cur) THEN [r EXCEPT !.cur = log.first, !.partial = 0] ELSE r

(* syslog_print(): one turn of its loop; it ends when the buffer is full,  *)
(* a copy fails, the log ends, or a line does not fit after others did.    *)
Ended(r) == [r EXCEPT !.size = 0, !.len = 0]

SyslogTurn ==
  /\ reader.kind = "syslog" /\ reader.size > 0
  /\ LET r == Resynced(reader)
         time == LineTime(r)
         n == TextSize(RecordOf(r.cur), time)
         left == LineLen(r.cur, time) - n
         rest == n - r.partial
         Copy(p, after) ==
           \/ /\ HandOver(p)
              /\ reader' = IF p.n = r.size THEN Ended(after)
                           ELSE [after EXCEPT !.size = @ - p.n, !.len = @ + p.n]
           \/ Lose(p) /\ reader' = Ended(after)
     IN  IF r.cur.seq = log.next.seq THEN reader' = Ended(r) /\ NothingRead
         ELSE IF rest <= r.size
         THEN Copy(Piece(r.cur, r.partial, rest, n, left),
                   [r EXCEPT !.cur = Following(log, @), !.partial = 0, !.time = FALSE])
         ELSE IF r.len = 0
         THEN Copy(Piece(r.cur, r.partial, r.size, n, left),
                   [r EXCEPT !.partial = @ + r.size, !.time = time])
         ELSE reader' = Ended(r) /\ NothingRead
  /\ UNCHANGED <<log, cont, said, timeset>>

(* do_syslog(SYSLOG_ACTION_SIZE_UNREAD) moves the position, too. *)
SyslogSizeUnread ==
  /\ reader.kind = "syslog" /\ reader.size = 0
  /\ reader' = Resynced(reader)
  /\ UNCHANGED <<log, cont, said, timeset>> /\ NothingRead

(* syslog_print_all(): the next record is formatted and the lock released  *)
(* to copy it, or the call ends and may clear.                             *)
AllGoOn(r, more) ==
  IF more /\ r.cur.seq < r.stop
  THEN LET n == TextSize(RecordOf(r.cur), r.time)
           left == LineLen(r.cur, r.time) - n
       IN  /\ reader' = [r EXCEPT !.held = Piece(r.cur, 0, n, n, left),
                                  !.cur = Following(log, @)]
           /\ UNCHANGED log
  ELSE /\ reader' = [r EXCEPT !.held = NoPiece, !.size = 0]
       /\ log' = IF r.clear THEN [log EXCEPT !.clear = log.next] ELSE log

AllBegin ==
  /\ reader.kind = "all" /\ reader.size = 0
  /\ \E size \in Sizes, clear \in BOOLEAN :
       LET c == Youngest(log.clear, log.next.seq, size, printk_time)
       IN  AllGoOn([reader EXCEPT !.cur = c, !.start = c.seq, !.stop = log.next.seq,
                                  !.time = printk_time, !.size = size, !.len = 0,
                                  !.clear = clear], TRUE)
  /\ Forget
  /\ UNCHANGED <<cont, said, timeset>>

AllTurn ==
  /\ reader.kind = "all" /\ reader.size > 0
  /\ LET r == [reader EXCEPT !.cur = Caught(@)]
     IN  \/ HandOver(r.held) /\ AllGoOn([r EXCEPT !.len = @ + r.held.n], TRUE)
         \/ Lose(r.held) /\ AllGoOn(r, FALSE)
  /\ UNCHANGED <<cont, said, timeset>>

(* kmsg_dump_get_line(): of a record that does not fit only the lines that *)
(* do are there, if any.                                                   *)
DumpGetLine ==
  /\ reader.kind = "lines"
  /\ LET c == Caught(reader.cur)
     IN  IF c.seq >= log.next.seq
         THEN reader' = [reader EXCEPT !.cur = c] /\ NothingRead
         ELSE LET n == LineLen(c, printk_time)
                  p == Piece(c, 0, n, n, 0)
              IN  /\ reader' = [reader EXCEPT !.cur = Following(log, c)]
                  /\ \E size \in Sizes : IF n < size THEN HandOver(p)
                                    ELSE lost' = lost \cup {c.seq} /\ UNCHANGED <<last, given, cut>>
  /\ UNCHANGED <<log, cont, said, timeset>>

(* kmsg_dump_get_buffer(): the youngest records not given yet.  A line     *)
(* that does not leave a byte of the buffer free is not printed.           *)
DumpGetBuffer ==
  /\ reader.kind = "blocks"
  /\ LET r == [reader EXCEPT !.cur = Caught(@)]
         sum == LinesUpTo(r.cur, r.stop, printk_time)
     IN  IF r.cur.seq >= r.stop THEN reader' = r /\ NothingRead
         ELSE \E size \in Sizes :
                LET c == Youngest(r.cur, r.stop, size - 1, printk_time)
                IN  /\ reader' = [r EXCEPT !.stop = c.seq]
                    /\ given' = given \cup {n \in c.seq .. r.stop - 1 :
                                             sum[n + 1] - sum[c.seq] < size}
                    /\ UNCHANGED <<last, cut, lost>>
  /\ UNCHANGED <<log, cont, said, timeset>>

(* kmsg_dump_rewind(); between two of them a dumper takes either lines,    *)
(* oldest first, or blocks of lines, youngest first.                       *)
DumpRewind ==
  /\ reader.kind \in {"lines", "blocks"}
  /\ \E kind \in {"lines", "blocks"} :
       reader' = NewReader(kind, log.clear, log.next.seq)
  /\ Forget
  /\ UNCHANGED <<log, cont, said, timeset>>

-----------------------------------------------------------------------------
Init ==
  /\ log = Empty
  /\ cont = NoCont
  /\ said = <<>>
  /\ timeset = 0
  /\ reader = Closed
  /\ last = NoPiece /\ given = {} /\ cut = {} /\ lost = {}

Write == (\E m \in Messages : Say(m)) \/ SetupLogBuf \/ SetTime \/ SyslogClear

Read ==
  \/ Open
  \/ DevkmsgRead \/ DevkmsgSeek
  \/ SyslogRead \/ SyslogTurn \/ SyslogSizeUnread
  \/ AllBegin \/ AllTurn
  \/ DumpGetLine \/ DumpGetBuffer \/ DumpRewind

Next == Write \/ Read

Spec == Init /\ [][Next]_vars

-----------------------------------------------------------------------------
(* Properties.                                                             *)

(* The bytes at a position are the record of number seq and no other.      *)
Intact(idx, seq) ==
  LET p == From(log, idx)
  IN  /\ log.mem[p] = <<seq, 0>>
      /\ \A k \in 0 .. log.stored[seq + 1].size - 1 :
           p + k < log.len /\ log.mem[p + k] = <<seq, k>>

(* From the first record log_next() leads through every younger record,    *)
(* whole, to the end; the position of the last clear and that of a reader  *)
(* that was not overtaken lie on this way; and every message finds room    *)
(* once enough old records are dropped, with a header's worth left for the *)
(* mark of a wrap (log_store() and log_make_free_space()).                 *)
RingHoldsLog ==
  LET at == Walk(log, log.first, log.next.seq)
  IN  /\ \A seq \in log.first.seq .. log.next.seq - 1 : Intact(at[seq].idx, seq)
      /\ at[log.next.seq] = log.next
      /\ at[log.clear.seq] = log.clear
      /\ reader # Closed /\ ~Gone(reader.cur) => at[reader.cur.seq] = reader.cur
      /\ log.next.idx + HdrLen <= log.len
      /\ \A m \in Messages :
           LET size == RoundUp(HdrLen + m.len)
           IN  Fits(MakeRoom(log, size), size)

(* The length of some texts together. *)
TextLen(texts) ==
  LET sum[n \in 0 .. Len(texts)] == IF n = 0 THEN 0 ELSE sum[n - 1] + said[texts[n]].len
  IN  sum[Len(texts)]

(* Every text printed is in a record, or in the line not ended yet, once   *)
(* and in the order of printing; nothing else is; and all text of a record *)
(* comes from one caller (cont_add(), cont_flush() and log_output()).      *)
TextKept ==
  LET lines == Append(log.stored, cont)
      Texts(i) == ToSet(lines[i].texts)
  IN  /\ {k \in 1 .. Len(said) : said[k].len > 0} = UNION {Texts(i) : i \in 1 .. Len(lines)}
      /\ \A i, j \in 1 .. Len(lines) : i < j => \A k \in Texts(i), n \in Texts(j) : k < n
      /\ \A i \in 1 .. Len(lines) :
           /\ \A a, b \in 1 .. Len(lines[i].texts) : a < b => lines[i].texts[a] < lines[i].texts[b]
           /\ \A k \in Texts(i) : said[k].who = lines[i].who
           /\ lines[i].len = TextLen(lines[i].texts)

Accounted(seq) ==
  seq \in given \cup lost \/ seq < log.first.seq \/ seq = reader.held.seq

AllAccounted ==
  reader # Closed =>
    /\ \A seq \in reader.start .. reader.cur.seq - 1 : Accounted(seq)
    /\ reader.kind = "blocks" =>
         \A seq \in reader.stop .. reader.end - 1 : Accounted(seq)

(* The lines of the record do not fit into text[]. *)
TooLong(seq) ==
  /\ seq \in 0 .. log.next.seq - 1
  /\ \E time \in BOOLEAN : LineSize(log.stored[seq + 1], time) >= LineMax + PrefixMax

(* Every record a reader went past was handed over to the end, was lost in *)
(* a copy that failed, is being copied, or was dropped from the ring: what *)
(* -EPIPE, a reset position or a jump of syslog_print_all() skips is gone. *)
(* Only of a record of several lines that are together too long for text[] *)
(* are the last ones left out (the break of msg_print_text()): the syslog  *)
(* readers count such a record as read, and nobody is told.                *)
NothingSkipped == AllAccounted /\ \A seq \in cut : TooLong(seq)

(* syslog_print_all() never writes past the buffer it was given, although  *)
(* records are dropped and added while it copies.                          *)
FitsBuffer ==
  reader.kind = "all" /\ reader.size > 0 => reader.len + reader.held.n <= reader.size

(* A reader is given the record it asked for, younger ones after older     *)
(* ones, and a line in pieces that continue each other in one form, also   *)
(* when printk_time changes between them (syslog_time).                    *)
ReadInOrder ==
  [][last' # NoPiece =>
       /\ last'.rec = last'.seq /\ last'.from + last'.n <= last'.of
       /\ \/ last'.seq > last.seq /\ last'.from = 0
          \/ last'.seq = last.seq /\ last'.from = last.from + last.n /\ last'.of = last.of
          \/ last'.seq \in lost]_last

=============================================================================

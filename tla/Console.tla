------------------------------ MODULE Console ------------------------------
(***************************************************************************)
(* The consoles of printk.c: who may write to them, and which records they *)
(* get.  A context that printed a record tries to take console_sem and, if *)
(* it gets it, writes out everything there is in console_unlock(); if not, *)
(* it may spin until the present owner passes the semaphore on, or leaves  *)
(* its record to the owner.  Other tasks sleep on the semaphore to change  *)
(* the list of consoles, or to stop all output while the system suspends.  *)
(*                                                                         *)
(* The log is a window of record numbers here, the ring is the matter of   *)
(* LogRing.  Every action is one critical section, of logbuf_lock, of      *)
(* console_owner_lock or of the semaphore's own lock, or one unlocked      *)
(* store.  Contexts are tasks and the irq_work, each on a CPU of its own.  *)
(* CPUs that go offline, and console_flush_on_panic(), which ignores the   *)
(* semaphore on purpose, are left out; so is ext_text[], the form in which *)
(* consoles with CON_EXTENDED get a record.                                *)
(***************************************************************************)
EXTENDS Integers, Sequences, FiniteSetsExt, SequencesExt

CONSTANTS Tasks,        \* contexts that may sleep
          IrqWork,      \* the context of wake_up_klogd_work_func()
          Consoles,
          Boot,         \* consoles with CON_BOOT
          Replaying,    \* consoles with CON_PRINTBUFFER
          None,
          Capacity,     \* records the log holds
          Quiet,        \* numbers of records above the console log level
          Long,         \* numbers of those whose lines do not all fit into
                        \* text[] behind an announcement of dropped records,
          TooLong,      \* and of those whose lines never do
          Scenarios,    \* consoles there are at the start, and lists of calls
                        \* that a task makes, each once: [start, programs]
          MaxSaid       \* bound: messages printed

Contexts == Tasks \cup {IrqWork}

\* A call is <<what, console>>.
Say == <<"print", None>>
Call == {Say} \cup ({"register", "unregister", "stop", "start"} \X Consoles)
              \cup ({"suspend", "resume"} \X {None})

ASSUME ConsoleAssumption ==
  /\ Boot \subseteq Consoles /\ Replaying \subseteq Consoles
  /\ IsFiniteSet(Consoles)
  /\ \A s \in Scenarios : s.start \subseteq Consoles /\ s.programs \subseteq Seq(Call)
  /\ IrqWork \notin Tasks /\ None \notin Contexts \cup Consoles
  /\ Capacity \in Nat \ {0}
  /\ {Quiet, Long, TooLong} \subseteq SUBSET Nat
  /\ MaxSaid \in Nat

VARIABLES
  pc,            \* what a context does next
  todo,          \* the calls it makes after the one it is in
  locked,        \* console_sem is down
  queue,         \* tasks asleep in down(&console_sem)
  console_owner,
  console_waiter,
  console_suspended,
  enabled,       \* registered consoles with CON_ENABLED
  registered,    \* the list console_drivers
  first, next,   \* log_first_seq, log_next_seq
  console_seq,
  syslog_seq,
  exclusive_console,
  stop_seq,      \* exclusive_console_stop_seq
  text,          \* what is in the static buffer of console_unlock(): notice,
                 \* the records it announces as dropped, and record
  pending,       \* printk_pending has PRINTK_PENDING_OUTPUT
  left,          \* programs nobody has begun
  seen,          \* history: the records each console was given, to the end of
                 \* their lines, since it registered
  owed,          \* history: the first record a console has a right to
  dropped        \* history: the records announced to it as dropped

semVars == <<locked, queue>>
handVars == <<console_owner, console_waiter>>
listVars == <<registered, enabled, exclusive_console, stop_seq>>
logVars == <<first, next, console_seq>>
history == <<seen, owed, dropped>>
vars == <<pc, todo, semVars, handVars, console_suspended, listVars, logVars,
          syslog_seq, text, pending, left, history>>

Go(t, label) == pc' = [pc EXCEPT ![t] = label]

-----------------------------------------------------------------------------
(* The semaphore.                                                          *)

(* down(): take it or sleep; the sleeper who is woken has it. *)
Down(t) ==
  IF locked THEN queue' = Append(queue, t) /\ Go(t, "asleep") /\ UNCHANGED locked
  ELSE locked' = TRUE /\ Go(t, "have") /\ UNCHANGED queue

(* up_console_sem(): it goes to the task that has slept longest. *)
Up(t, label) ==
  IF queue = <<>>
  THEN locked' = FALSE /\ Go(t, label) /\ UNCHANGED queue
  ELSE /\ pc' = [pc EXCEPT ![t] = label, ![Head(queue)] = "have"]
       /\ queue' = Tail(queue)
       /\ UNCHANGED locked

(* console_trylock(): not while suspended; console_suspended changes only   *)
(* under the semaphore, so console_unlock() finds it as it was.            *)
TryLock(t, label) ==
  /\ IF ~locked /\ ~console_suspended
     THEN locked' = TRUE /\ Go(t, "loop") /\ UNCHANGED queue
     ELSE UNCHANGED semVars /\ Go(t, label)

-----------------------------------------------------------------------------
(* A context has a list of calls to make.  A single printk() may come from *)
(* anywhere, any time.                                                     *)

Idle(t) == pc[t] = "idle" /\ todo[t] = <<>>
Calls(t, what) == pc[t] = "idle" /\ todo[t] # <<>> /\ todo[t][1][1] = what

Returned(t) == todo' = [todo EXCEPT ![t] = Tail(@)]

BeginProgram(t) ==
  /\ Idle(t)
  /\ \E program \in left :
       todo' = [todo EXCEPT ![t] = program] /\ left' = left \ {program}
  /\ UNCHANGED <<pc, semVars, handVars, console_suspended, listVars, logVars,
                 syslog_seq, text, pending, history>>

(* vprintk_emit(): the record is stored, the oldest one perhaps dropped. *)
Store ==
  /\ next' = next + 1
  /\ first' = IF next' - first > Capacity THEN first + 1 ELSE first

Emit(t) ==
  /\ Store /\ Go(t, "trylock")
  /\ UNCHANGED <<semVars, handVars, console_suspended, listVars, console_seq,
                 syslog_seq, text, pending, left, history>>

(* A printk() of its own, or one of the calls of a list *)
SayNow(t) == Idle(t) /\ next < MaxSaid /\ Emit(t) /\ UNCHANGED todo
Printk(t) == Calls(t, "print") /\ Emit(t) /\ Returned(t)

(* vprintk_deferred(): the irq_work writes it out. *)
SayLater(t) ==
  /\ Idle(t) /\ next < MaxSaid
  /\ Store /\ pending' = TRUE
  /\ UNCHANGED <<pc, todo, semVars, handVars, console_suspended, listVars, console_seq,
                 syslog_seq, text, left, history>>

(* wake_up_klogd_work_func(): the flag is fetched and cleared at once. *)
IrqWorkRuns ==
  /\ pending /\ pc[IrqWork] = "idle"
  /\ pending' = FALSE
  /\ TryLock(IrqWork, "idle")
  /\ UNCHANGED <<todo, handVars, console_suspended, listVars, logVars, syslog_seq,
                 text, left, history>>

(* console_trylock_spinning() *)
TryLockSpinning(t) ==
  /\ pc[t] = "trylock"
  /\ TryLock(t, "busy")
  /\ UNCHANGED <<todo, handVars, console_suspended, listVars, logVars, syslog_seq,
                 text, pending, left, history>>

(* Fault: a second context spins, too. *)
StartToSpinAll(t) ==
  /\ pc[t] = "busy"
  /\ IF console_owner \notin {None, t}
     THEN console_waiter' = TRUE /\ Go(t, "spin")
     ELSE UNCHANGED console_waiter /\ Go(t, "idle")
  /\ UNCHANGED <<todo, semVars, console_owner, console_suspended, listVars, logVars,
                 syslog_seq, text, pending, left, history>>

(* It spins if somebody writes to the consoles and nobody spins yet. *)
StartToSpin(t) ==
  /\ pc[t] = "busy"
  /\ IF ~console_waiter /\ console_owner \notin {None, t}
     THEN console_waiter' = TRUE /\ Go(t, "spin")
     ELSE UNCHANGED console_waiter /\ Go(t, "idle")
  /\ UNCHANGED <<todo, semVars, console_owner, console_suspended, listVars, logVars,
                 syslog_seq, text, pending, left, history>>

Spin(t) ==
  /\ pc[t] = "spin" /\ ~console_waiter
  /\ Go(t, "loop")
  /\ UNCHANGED <<todo, semVars, handVars, console_suspended, listVars, logVars,
                 syslog_seq, text, pending, left, history>>

-----------------------------------------------------------------------------
(* console_unlock()                                                        *)

(* While suspended the semaphore is released at once. *)
Unlock(t) ==
  /\ pc[t] = "unlock"
  /\ IF console_suspended THEN Up(t, "idle")
     ELSE Go(t, "loop") /\ UNCHANGED semVars
  /\ UNCHANGED <<todo, handVars, console_suspended, listVars, logVars, syslog_seq,
                 text, pending, left, history>>

(* The next record to write; those above the log level are skipped. *)
NextLoud ==
  LET c == Max({console_seq, first})
  IN  Min({n \in c .. next : n = next \/ n \notin Quiet})

(* Fault: output stays exclusive for one record after the replay. *)
TakeRecordLate(t) ==
  /\ pc[t] = "loop"
  /\ IF NextLoud = next
     THEN console_seq' = next /\ Go(t, "up") /\ UNCHANGED <<text, exclusive_console>>
     ELSE /\ text' = [notice |-> console_seq .. first - 1, record |-> NextLoud]
          /\ console_seq' = NextLoud + 1
          /\ exclusive_console' = IF NextLoud > stop_seq THEN None ELSE exclusive_console
          /\ Go(t, "taken")
  /\ UNCHANGED <<todo, semVars, handVars, console_suspended, registered, enabled,
                 stop_seq, first, next, syslog_seq, pending, left, history>>

(* The number of records dropped since is announced before the next one;   *)
(* but if there is no loud one left, text[] is not written and nobody hears*)
(* of them.                                                                *)
TakeRecord(t) ==
  /\ pc[t] = "loop"
  /\ IF NextLoud = next
     THEN console_seq' = next /\ Go(t, "up") /\ UNCHANGED <<text, exclusive_console>>
     ELSE /\ text' = [notice |-> console_seq .. first - 1, record |-> NextLoud]
          /\ console_seq' = NextLoud + 1
          /\ exclusive_console' = IF NextLoud >= stop_seq THEN None ELSE exclusive_console
          /\ Go(t, "taken")
  /\ UNCHANGED <<todo, semVars, handVars, console_suspended, registered, enabled,
                 stop_seq, first, next, syslog_seq, pending, left, history>>

(* console_lock_spinning_enable() *)
SpinningEnable(t) ==
  /\ pc[t] = "taken"
  /\ console_owner' = t
  /\ Go(t, "writing")
  /\ UNCHANGED <<todo, semVars, console_waiter, console_suspended, listVars, logVars,
                 syslog_seq, text, pending, left, history>>

(* All lines of the record fitted into text[] (msg_print_text()). *)
Whole == text.record \notin TooLong /\ (text.record \in Long => text.notice = {})

(* Fault: a replay goes to every console. *)
GetsInReplay(c) == c \in registered \cap enabled

(* call_console_drivers(): the console is to get what is in text[]. *)
Gets(c) == c \in registered \cap enabled /\ exclusive_console \in {None, c}

Written ==
  /\ seen' = [c \in Consoles |->
                IF Gets(c) /\ Whole THEN Append(seen[c], text.record) ELSE seen[c]]
  /\ dropped' = [c \in Consoles |->
                   IF Gets(c) THEN dropped[c] \cup text.notice ELSE dropped[c]]

(* ..., and console_lock_spinning_disable_and_check(): whoever spins owns   *)
(* the semaphore now and this context is done.  (Nobody can tell that      *)
(* console_waiter is cleared after the lock is released.)                  *)
WriteOut(t) ==
  /\ pc[t] = "writing"
  /\ Written
  /\ console_owner' = None /\ console_waiter' = FALSE
  /\ Go(t, IF console_waiter THEN "idle" ELSE "loop")
  /\ UNCHANGED <<todo, semVars, console_suspended, listVars, logVars, syslog_seq, text,
                 pending, left, owed>>

Release(t) ==
  /\ pc[t] = "up"
  /\ Up(t, "recheck")
  /\ UNCHANGED <<todo, handVars, console_suspended, listVars, logVars, syslog_seq,
                 text, pending, left, history>>

(* Fault: the log is not looked at again. *)
RecheckNot(t) ==
  /\ pc[t] = "recheck"
  /\ Go(t, "idle")
  /\ UNCHANGED <<todo, semVars, handVars, console_suspended, listVars, logVars,
                 syslog_seq, text, pending, left, history>>

(* Something may have been stored meanwhile by a context that found the    *)
(* semaphore taken.                                                        *)
Recheck(t) ==
  /\ pc[t] = "recheck"
  /\ Go(t, IF console_seq # next THEN "again" ELSE "idle")
  /\ UNCHANGED <<todo, semVars, handVars, console_suspended, listVars, logVars,
                 syslog_seq, text, pending, left, history>>

Retry(t) ==
  /\ pc[t] = "again"
  /\ TryLock(t, "idle")
  /\ UNCHANGED <<todo, handVars, console_suspended, listVars, logVars, syslog_seq,
                 text, pending, left, history>>

-----------------------------------------------------------------------------
(* Calls that sleep in console_lock().                                     *)

(* register_console() looks at the list before it takes the lock: whether  *)
(* it may go on, and whether it takes over from the boot consoles.         *)
Refused(c) == c \in registered \/ (c \in Boot /\ registered \ Boot # {})
TakesOver(c) == c \notin Boot /\ registered # {} /\ registered \subseteq Boot

Lock(t) ==
  /\ pc[t] = "idle" /\ todo[t] # <<>> /\ todo[t][1] # Say
  /\ LET what == todo[t][1][1]
         c == todo[t][1][2]
     IN  IF what = "register" /\ Refused(c)
         THEN Returned(t) /\ UNCHANGED <<pc, semVars>>
         ELSE /\ Down(t)
              /\ todo' = IF what = "register" /\ TakesOver(c)
                         THEN [todo EXCEPT ![t][1] = <<"take over", c>>] ELSE todo
  /\ UNCHANGED <<handVars, console_suspended, listVars, logVars, syslog_seq, text,
                 pending, left, history>>

(* Under the lock.  A console that wants the old messages gets them for    *)
(* itself, from the first one syslog has not read; if that is ahead of     *)
(* console_seq, no console gets what lies between, now or later.           *)
AddConsole(t, c, replay, after) ==
  /\ registered' = registered \cup {c} /\ enabled' = enabled \cup {c}
  /\ IF replay
     THEN /\ exclusive_console' = c /\ stop_seq' = console_seq
          /\ console_seq' = syslog_seq
     ELSE UNCHANGED <<exclusive_console, stop_seq, console_seq>>
  /\ seen' = [seen EXCEPT ![c] = <<>>] /\ dropped' = [dropped EXCEPT ![c] = {}]
  /\ owed' = [d \in Consoles |->
       CASE d = c -> IF replay THEN syslog_seq ELSE next
         [] d # c /\ replay /\ syslog_seq > console_seq -> Max({owed[d], syslog_seq})
         [] OTHER -> owed[d]]
  /\ todo' = [todo EXCEPT ![t] = <<Say>> \o after \o Tail(@)]

\* Every boot console is removed, after a message that says so.
Removals ==
  [i \in 1 .. 2 * Cardinality(registered) |->
     IF i % 2 = 1 THEN Say ELSE <<"unregister", SetToSeq(registered)[i \div 2]>>]

Register(t) ==
  /\ pc[t] = "have" /\ todo[t][1][1] \in {"register", "take over"}
  /\ LET c == todo[t][1][2]
     IN  IF todo[t][1][1] = "register"
         THEN AddConsole(t, c, c \in Replaying, <<>>)
         ELSE AddConsole(t, c, FALSE, Removals)
  /\ Go(t, "unlock")
  /\ UNCHANGED <<semVars, handVars, console_suspended, first, next, syslog_seq,
                 text, pending, left>>

(* unregister_console(), console_stop(), console_start() *)
ChangeConsole(t) ==
  /\ pc[t] = "have" /\ todo[t][1][1] \in {"unregister", "stop", "start"}
  /\ LET what == todo[t][1][1]
         c == todo[t][1][2]
     IN  /\ registered' = IF what = "unregister" THEN registered \ {c} ELSE registered
         /\ enabled' = IF what = "start" THEN enabled \cup {c} ELSE enabled \ {c}
         /\ owed' = IF what = "start" /\ c \notin enabled
                    THEN [owed EXCEPT ![c] = next] ELSE owed
  /\ Returned(t) /\ Go(t, "unlock")
  /\ UNCHANGED <<semVars, handVars, console_suspended, exclusive_console, stop_seq,
                 logVars, syslog_seq, text, pending, left, seen, dropped>>

(* suspend_console() releases the semaphore and writes nothing more. *)
Suspend(t) ==
  /\ pc[t] = "have" /\ todo[t][1][1] = "suspend"
  /\ console_suspended' = TRUE
  /\ Returned(t) /\ Up(t, "idle")
  /\ UNCHANGED <<handVars, listVars, logVars, syslog_seq, text, pending, left, history>>

(* resume_console() *)
Resume(t) ==
  /\ pc[t] = "have" /\ todo[t][1][1] = "resume"
  /\ console_suspended' = FALSE
  /\ Returned(t) /\ Go(t, "unlock")
  /\ UNCHANGED <<semVars, handVars, listVars, logVars, syslog_seq, text, pending, left,
                 history>>

(* A syslog reader takes a record, it may be ahead of the consoles. *)
SyslogRead ==
  /\ syslog_seq < next
  /\ syslog_seq' = Max({syslog_seq, first}) + 1
  /\ UNCHANGED <<pc, todo, semVars, handVars, console_suspended, listVars, logVars, text,
                 pending, left, history>>

-----------------------------------------------------------------------------
Init ==
  /\ pc = [t \in Contexts |-> "idle"] /\ todo = [t \in Contexts |-> <<>>]
  /\ locked = FALSE /\ queue = <<>>
  /\ console_owner = None /\ console_waiter = FALSE
  /\ console_suspended = FALSE
  /\ \E s \in Scenarios : registered = s.start /\ left = s.programs
  /\ enabled = registered
  /\ exclusive_console = None /\ stop_seq = 0
  /\ first = 0 /\ next = 0 /\ console_seq = 0 /\ syslog_seq = 0
  /\ text = [notice |-> {}, record |-> 0] /\ pending = FALSE
  /\ seen = [c \in Consoles |-> <<>>] /\ owed = [c \in Consoles |-> 0]
  /\ dropped = [c \in Consoles |-> {}]

Prints(t) ==
  \/ Printk(t) \/ TryLockSpinning(t) \/ StartToSpin(t) \/ Spin(t)

Writes(t) ==
  \/ Unlock(t) \/ TakeRecord(t) \/ SpinningEnable(t) \/ WriteOut(t)
  \/ Release(t) \/ Recheck(t) \/ Retry(t)

Locks(t) == Lock(t) \/ Register(t) \/ ChangeConsole(t) \/ Suspend(t) \/ Resume(t)

Step(t) == Prints(t) \/ Writes(t) \/ Locks(t)

Next ==
  \/ \E t \in Tasks : BeginProgram(t) \/ SayNow(t) \/ SayLater(t)
  \/ \E t \in Contexts : Step(t)
  \/ IrqWorkRuns \/ SyslogRead

(* A context that is in a call goes on with it, and a pending irq_work     *)
(* runs; whoever suspended the consoles resumes them.                      *)
Fairness == WF_vars(IrqWorkRuns) /\ \A t \in Contexts : WF_vars(Step(t))

Spec == Init /\ [][Next]_vars /\ Fairness

-----------------------------------------------------------------------------
(* Properties.                                                             *)

Writing == {"unlock", "loop", "taken", "writing", "up"}

(* However the semaphore is taken, given to a sleeper or passed on to one  *)
(* that spins, one context at most is between taking and releasing it, and *)
(* it is down exactly then: text[], console_seq and the list are its own   *)
(* (console_trylock_spinning(), console_lock_spinning_disable_and_check(). *)
Owners == {t \in Contexts : pc[t] \in Writing \cup {"have"}}
          \cup {t \in Contexts : pc[t] = "spin" /\ ~console_waiter}

OneOwner ==
  /\ Cardinality(Owners) <= 1
  /\ locked <=> Owners # {}
  /\ console_waiter <=> \E t \in Contexts : pc[t] = "spin" /\ t \notin Owners
  /\ queue # <<>> => locked

(* After the record was dropped there were only quiet ones in the log once.*)
OnlyQuietLeft(n) == \E f \in n + 1 .. first : f .. f + Capacity - 1 \subseteq Quiet

(* The record did not fit into text[], or not with what was announced to   *)
(* the console before it.                                                  *)
CutShort(c, n) ==
  \/ n \in TooLong
  \/ n \in Long /\ \E m \in dropped[c] : m < n /\ m + 1 .. n - 1 \subseteq Quiet

(* A console that is enabled got every record it has a right to and that   *)
(* console_unlock() has gone past, unless the record is above the log      *)
(* level or was announced to this console as dropped: no replay for a new  *)
(* console, no stop of another and no suspend makes it miss one.  The code *)
(* breaks this in three places, and only there: records are dropped and    *)
(* not announced if all that is left in the log is quiet (the break after  *)
(* the label skip); the lines of a record that do not fit into text[] are  *)
(* not written (the break of msg_print_text()); and where a replay begins  *)
(* ahead of what has been written (AddConsole), what lies between is       *)
(* counted as nobody's.                                                    *)
EveryRecordWritten ==
  \A c \in registered \cap enabled, n \in 0 .. next :
    owed[c] <= n /\ n < console_seq =>
      \/ n \in Quiet \cup dropped[c] \/ n \in ToSet(seen[c])
      \/ OnlyQuietLeft(n) \/ CutShort(c, n)
      \/ /\ n = text.record \/ n \in text.notice
         /\ \E t \in Contexts : pc[t] \in {"taken", "writing"}

(* Each console gets its records in order and none twice: a replay is for  *)
(* the new console alone (exclusive_console).  It is not if a second one   *)
(* begins before the first is over, which takes two consoles that register *)
(* while output is suspended: the second overwrites exclusive_console and  *)
(* stop_seq, and the other consoles get the log again.  One console at a   *)
(* time registers in the scenarios.                                        *)
InOrder ==
  \A c \in Consoles : \A i, j \in DOMAIN seen[c] : i < j => seen[c][i] < seen[c][j]

(* In the end everything is written, also what was stored by a context     *)
(* that found the semaphore taken, or deferred, or stored while suspended, *)
(* and nobody spins or sleeps for ever.                                    *)
AllOut ==
  <>[](\A t \in Contexts : pc[t] = "idle") /\ <>[](console_seq = next)

=============================================================================

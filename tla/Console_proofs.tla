--------------------------- MODULE Console_proofs ---------------------------
(***************************************************************************)
(* One context at a time writes to the consoles, no console misses a       *)
(* record and, unless replays cut each other short, none gets one twice:   *)
(* for every set of contexts and consoles, every list of calls and any     *)
(* number of records.                                                      *)
(***************************************************************************)
EXTENDS Console, FiniteSetTheorems, WellFoundedInduction, TLAPS

Labels == {"idle", "trylock", "busy", "spin", "asleep", "have", "unlock", "loop", "taken",
           "writing", "up", "recheck", "again"}

\* The variables that decide who owns the semaphore.
HandTyped ==
  /\ pc \in [Contexts -> Labels]
  /\ locked \in BOOLEAN
  /\ console_waiter \in BOOLEAN
  /\ console_owner \in Contexts \cup {None}
  /\ queue \in Seq(Contexts)

Owns(t) == pc[t] \in Writing \cup {"have"} \/ (pc[t] = "spin" /\ ~console_waiter)

\* The sleepers are asleep, and none of them sleeps twice.
QueueAsleep ==
  /\ \A i \in 1 .. Len(queue) : pc[queue[i]] = "asleep"
  /\ \A i, j \in 1 .. Len(queue) : queue[i] = queue[j] => i = j
  /\ queue # <<>> => locked

\* Who owns the semaphore, who writes and who spins determine each other: a
\* context spins only while another one writes, or after it was handed the
\* semaphore.
Handover ==
  /\ \A s, t \in Contexts : Owns(s) /\ Owns(t) => s = t
  /\ locked <=> \E t \in Contexts : Owns(t)
  /\ \A t \in Contexts : console_owner = t <=> pc[t] = "writing"
  /\ \A s, t \in Contexts : pc[s] = "spin" /\ pc[t] = "spin" => s = t
  /\ console_waiter => /\ \E t \in Contexts : pc[t] = "spin"
                       /\ \E t \in Contexts : pc[t] = "writing"

HandInv == HandTyped /\ QueueAsleep /\ Handover

USE ConsoleAssumption

\* Nobody owns the semaphore, nobody spins and nobody sleeps at the start.
LEMMA HandInit == Init => HandInv
<1> SUFFICES ASSUME Init PROVE HandInv
  OBVIOUS
<1>1. HandTyped
  <2>1. pc \in [Contexts -> Labels] /\ locked \in BOOLEAN /\ console_waiter \in BOOLEAN
       /\ console_owner \in Contexts \cup {None}
    BY DEF Init, Labels
  <2>2. <<>> \in Seq(Contexts)
    OBVIOUS
  <2> QED BY <2>1, <2>2 DEF Init, HandTyped
<1>2. QueueAsleep
  BY DEF Init, QueueAsleep
<1>3. Handover
  BY DEF Init, Handover, Owns, Writing
<1> QED BY <1>1, <1>2, <1>3 DEF HandInv

\* A step of a context that neither owns the semaphore nor spins before it or
\* after it.
LEMMA Outside ==
  ASSUME HandInv, NEW t \in Contexts, NEW label \in {"idle", "trylock", "busy", "recheck", "again"},
         pc[t] \in {"idle", "trylock", "busy", "recheck", "again"},
         pc' = [pc EXCEPT ![t] = label],
         UNCHANGED <<locked, queue, console_owner, console_waiter>>
  PROVE  HandInv'
<1> USE DEF HandInv
<1>1. HandTyped'
  BY DEF HandTyped, Labels
<1>2. QueueAsleep'
  BY DEF QueueAsleep, HandTyped
<1>3. Handover'
  BY DEF Handover, HandTyped, Owns, Writing
<1> QED BY <1>1, <1>2, <1>3

\* A step of the owner from one place to another where it is not writing.
LEMMA Inside ==
  ASSUME HandInv, NEW t \in Contexts, NEW label \in {"have", "unlock", "loop", "taken", "up"},
         pc[t] \in {"have", "unlock", "loop", "taken", "up"},
         pc' = [pc EXCEPT ![t] = label],
         UNCHANGED <<locked, queue, console_owner, console_waiter>>
  PROVE  HandInv'
<1> USE DEF HandInv
<1>1. HandTyped'
  BY DEF HandTyped, Labels
<1>2. QueueAsleep'
  BY DEF QueueAsleep, HandTyped
<1>3. Handover'
  BY DEF Handover, HandTyped, Owns, Writing
<1> QED BY <1>1, <1>2, <1>3

\* The semaphore is taken by a context that is outside.
LEMMA Taking ==
  ASSUME HandInv, NEW t \in Contexts, NEW label \in {"have", "loop"},
         pc[t] \in {"idle", "trylock", "again"},
         ~locked, locked' = TRUE,
         pc' = [pc EXCEPT ![t] = label],
         UNCHANGED <<queue, console_owner, console_waiter>>
  PROVE  HandInv'
<1> USE DEF HandInv
<1>1. HandTyped'
  BY DEF HandTyped, Labels
<1>2. QueueAsleep'
  BY DEF QueueAsleep, HandTyped
<1>3. Handover'
  BY DEF Handover, HandTyped, Owns, Writing
<1> QED BY <1>1, <1>2, <1>3

\* console_trylock()
LEMMA Trying ==
  ASSUME HandInv, NEW t \in Contexts, NEW label \in {"busy", "idle"},
         pc[t] \in {"idle", "trylock", "again"},
         TryLock(t, label),
         UNCHANGED <<console_owner, console_waiter>>
  PROVE  HandInv'
<1>1. CASE ~locked /\ ~console_suspended
  BY <1>1, Taking DEF TryLock, Go
<1>2. CASE ~(~locked /\ ~console_suspended)
  BY <1>2, Outside DEF TryLock, Go, semVars
<1> QED BY <1>1, <1>2

\* down(): a context that sleeps is the last in the queue.
LEMMA Sleeping ==
  ASSUME HandInv, NEW t \in Contexts, pc[t] = "idle", Down(t),
         UNCHANGED <<console_owner, console_waiter>>
  PROVE  HandInv'
<1>1. CASE ~locked
  BY <1>1, Taking DEF Down, Go
<1>2. CASE locked
  <2> USE DEF HandInv
  <2>1. queue' = Append(queue, t) /\ pc' = [pc EXCEPT ![t] = "asleep"] /\ UNCHANGED locked
    BY <1>2 DEF Down, Go
  <2>2. HandTyped'
    BY <2>1 DEF HandTyped, Labels
  <2>3. /\ Len(queue') = Len(queue) + 1
        /\ queue'[Len(queue) + 1] = t
        /\ \A i \in 1 .. Len(queue) : queue'[i] = queue[i]
    BY <2>1 DEF HandTyped
  <2>4. \A i \in 1 .. Len(queue) : queue[i] # t /\ queue[i] \in Contexts
    BY DEF QueueAsleep, HandTyped
  <2>5. QueueAsleep'
    <3>1. Len(queue) \in Nat
      BY DEF HandTyped
    <3>2. \A i \in 1 .. Len(queue') : pc'[queue'[i]] = "asleep"
      BY <2>1, <2>3, <2>4, <3>1 DEF QueueAsleep, HandTyped
    <3>3. \A i, j \in 1 .. Len(queue') : queue'[i] = queue'[j] => i = j
      BY <2>3, <2>4, <3>1 DEF QueueAsleep
    <3> QED BY <1>2, <2>1, <3>2, <3>3 DEF QueueAsleep
  <2>6. Handover'
    BY <2>1 DEF Handover, HandTyped, Owns, Writing
  <2> QED BY <2>2, <2>5, <2>6
<1> QED BY <1>1, <1>2 DEF HandInv, HandTyped

\* up(): the semaphore is free, or belongs to the task that slept longest.
LEMMA Releasing ==
  ASSUME HandInv, NEW t \in Contexts, NEW label \in {"idle", "recheck"},
         pc[t] \in {"have", "unlock", "up"}, Up(t, label),
         UNCHANGED <<console_owner, console_waiter>>
  PROVE  HandInv'
<1> USE DEF HandInv
<1>1. CASE queue = <<>>
  <2>1. locked' = FALSE /\ pc' = [pc EXCEPT ![t] = label] /\ UNCHANGED queue
    BY <1>1 DEF Up, Go
  <2>2. HandTyped'
    BY <2>1 DEF HandTyped, Labels
  <2>3. QueueAsleep'
    BY <1>1, <2>1 DEF QueueAsleep, HandTyped
  <2>4. Handover'
    BY <2>1 DEF Handover, HandTyped, Owns, Writing
  <2> QED BY <2>2, <2>3, <2>4
<1>2. CASE queue # <<>>
  <2> DEFINE h == Head(queue)
  <2>1. /\ pc' = [pc EXCEPT ![t] = label, ![h] = "have"]
        /\ queue' = Tail(queue)
        /\ UNCHANGED locked
    BY <1>2 DEF Up
  <2>2. /\ h \in Contexts /\ h = queue[1] /\ Len(queue) \in Nat /\ Len(queue) >= 1
        /\ queue' \in Seq(Contexts) /\ Len(queue') = Len(queue) - 1
        /\ \A i \in 1 .. Len(queue') : queue'[i] = queue[i + 1] /\ queue[i + 1] \in Contexts
    BY <1>2, <2>1 DEF HandTyped
  <2>3. pc[h] = "asleep" /\ h # t
    BY <2>2 DEF QueueAsleep
  <2> HIDE DEF h
  <2>4. HandTyped'
    BY <2>1, <2>2 DEF HandTyped, Labels
  <2>5. QueueAsleep'
    <3>1. ASSUME NEW i \in 1 .. Len(queue')
          PROVE  pc[queue'[i]] = "asleep" /\ queue'[i] # h /\ queue'[i] # t /\ queue'[i] \in Contexts
      <4>1. i + 1 \in 1 .. Len(queue) /\ 1 \in 1 .. Len(queue) /\ i + 1 # 1
        BY <2>2
      <4> QED BY <2>2, <4>1 DEF QueueAsleep
    <3>2. \A i \in 1 .. Len(queue') : pc'[queue'[i]] = "asleep"
      BY <2>1, <3>1 DEF HandTyped
    <3>3. \A i, j \in 1 .. Len(queue') : queue'[i] = queue'[j] => i = j
      <4> SUFFICES ASSUME NEW i \in 1 .. Len(queue'), NEW j \in 1 .. Len(queue'),
                          queue'[i] = queue'[j]
                   PROVE  i = j
        OBVIOUS
      <4>1. i + 1 \in 1 .. Len(queue) /\ j + 1 \in 1 .. Len(queue)
        BY <2>2
      <4> QED BY <2>2, <4>1 DEF QueueAsleep
    <3>4. locked'
      BY <1>2, <2>1 DEF QueueAsleep
    <3> QED BY <3>2, <3>3, <3>4 DEF QueueAsleep
  <2>6. Handover'
    BY <1>2, <2>1, <2>2, <2>3 DEF Handover, HandTyped, QueueAsleep, Owns, Writing
  <2> QED BY <2>4, <2>5, <2>6
<1> QED BY <1>1, <1>2

\* A context that finds the semaphore taken spins, but only while another one
\* writes and nobody spins.
LEMMA StartSpinning ==
  ASSUME HandInv, NEW t \in Contexts, StartToSpin(t)
  PROVE  HandInv'
<1> USE DEF HandInv
<1>1. CASE ~console_waiter /\ console_owner \notin {None, t}
  <2>1. /\ console_waiter' = TRUE /\ pc' = [pc EXCEPT ![t] = "spin"] /\ pc[t] = "busy"
        /\ UNCHANGED <<locked, queue, console_owner>>
    BY <1>1 DEF StartToSpin, Go, semVars
  <2>2. HandTyped'
    BY <2>1 DEF HandTyped, Labels
  <2>3. QueueAsleep'
    BY <2>1 DEF QueueAsleep, HandTyped
  <2>4. PICK w \in Contexts : pc[w] = "writing"
    BY <1>1 DEF Handover, HandTyped
  <2>5. ~ \E s \in Contexts : pc[s] = "spin"
    BY <1>1, <2>4 DEF Handover, Owns, Writing
  <2>6. Handover'
    BY <1>1, <2>1, <2>4, <2>5 DEF Handover, HandTyped, Owns, Writing
  <2> QED BY <2>2, <2>3, <2>6
<1>2. CASE ~(~console_waiter /\ console_owner \notin {None, t})
  BY <1>2, Outside DEF StartToSpin, Go, semVars
<1> QED BY <1>1, <1>2

\* The one that spun goes on as the owner it has become.
LEMMA Spinning ==
  ASSUME HandInv, NEW t \in Contexts, Spin(t)
  PROVE  HandInv'
<1> USE DEF HandInv
<1>1. /\ pc[t] = "spin" /\ ~console_waiter /\ pc' = [pc EXCEPT ![t] = "loop"]
      /\ UNCHANGED <<locked, queue, console_owner, console_waiter>>
  BY DEF Spin, Go, semVars, handVars
<1>2. HandTyped'
  BY <1>1 DEF HandTyped, Labels
<1>3. QueueAsleep'
  BY <1>1 DEF QueueAsleep, HandTyped
<1>4. Handover'
  BY <1>1 DEF Handover, HandTyped, Owns, Writing
<1> QED BY <1>2, <1>3, <1>4

\* The owner lets others spin.
LEMMA Enabling ==
  ASSUME HandInv, NEW t \in Contexts, SpinningEnable(t)
  PROVE  HandInv'
<1> USE DEF HandInv
<1>1. /\ pc[t] = "taken" /\ console_owner' = t /\ pc' = [pc EXCEPT ![t] = "writing"]
      /\ UNCHANGED <<locked, queue, console_waiter>>
  BY DEF SpinningEnable, Go, semVars
<1>2. HandTyped'
  BY <1>1 DEF HandTyped, Labels
<1>3. QueueAsleep'
  BY <1>1 DEF QueueAsleep, HandTyped
<1>4. Handover'
  BY <1>1 DEF Handover, HandTyped, Owns, Writing
<1> QED BY <1>2, <1>3, <1>4

\* The owner has written: if somebody spins, that one owns the semaphore now.
LEMMA WritingOut ==
  ASSUME HandInv, NEW t \in Contexts, WriteOut(t)
  PROVE  HandInv'
<1> USE DEF HandInv
<1> DEFINE label == IF console_waiter THEN "idle" ELSE "loop"
<1>1. /\ pc[t] = "writing" /\ console_owner' = None /\ console_waiter' = FALSE
      /\ pc' = [pc EXCEPT ![t] = label] /\ UNCHANGED <<locked, queue>>
  BY DEF WriteOut, Go, semVars
<1>2. HandTyped'
  BY <1>1 DEF HandTyped, Labels
<1>3. QueueAsleep'
  BY <1>1 DEF QueueAsleep, HandTyped
<1>4. Handover'
  <2>1. CASE console_waiter
    <3>1. PICK s \in Contexts : pc[s] = "spin"
      BY <2>1 DEF Handover
    <3> QED BY <1>1, <2>1, <3>1 DEF Handover, HandTyped, Owns, Writing
  <2>2. CASE ~console_waiter
    BY <1>1, <2>2 DEF Handover, HandTyped, Owns, Writing
  <2> QED BY <2>1, <2>2
<1> QED BY <1>2, <1>3, <1>4

\* A step that does not touch the hand-over.
LEMMA Untouched ==
  ASSUME HandInv, UNCHANGED <<pc, locked, queue, console_owner, console_waiter>>
  PROVE  HandInv'
BY DEF HandInv, HandTyped, QueueAsleep, Handover, Owns, Writing

\* A step of a context keeps the invariant.
LEMMA StepKeeps ==
  ASSUME HandInv, NEW t \in Contexts, Step(t)
  PROVE  HandInv'
<1>1. CASE Printk(t)
  BY <1>1, Outside DEF Printk, Calls, Emit, Go, semVars, handVars
<1>2. CASE TryLockSpinning(t)
  BY <1>2, Trying DEF TryLockSpinning, handVars
<1>3. CASE StartToSpin(t)
  BY <1>3, StartSpinning
<1>4. CASE Spin(t)
  BY <1>4, Spinning
<1>5. CASE Unlock(t)
  <2>1. CASE console_suspended
    BY <1>5, <2>1, Releasing DEF Unlock, handVars
  <2>2. CASE ~console_suspended
    BY <1>5, <2>2, Inside DEF Unlock, Go, semVars, handVars
  <2> QED BY <2>1, <2>2
<1>6. CASE TakeRecord(t)
  <2>1. pc' = [pc EXCEPT ![t] = "up"] \/ pc' = [pc EXCEPT ![t] = "taken"]
    BY <1>6 DEF TakeRecord, Go
  <2>2. pc[t] = "loop" /\ UNCHANGED <<locked, queue, console_owner, console_waiter>>
    BY <1>6 DEF TakeRecord, semVars, handVars
  <2> QED BY <2>1, <2>2, Inside
<1>7. CASE SpinningEnable(t)
  BY <1>7, Enabling
<1>8. CASE WriteOut(t)
  BY <1>8, WritingOut
<1>9. CASE Release(t)
  BY <1>9, Releasing DEF Release, handVars
<1>10. CASE Recheck(t)
  BY <1>10, Outside DEF Recheck, Go, semVars, handVars
<1>11. CASE Retry(t)
  BY <1>11, Trying DEF Retry, handVars
<1>12. CASE Lock(t)
  <2>1. pc[t] = "idle" /\ UNCHANGED <<console_owner, console_waiter>>
    BY <1>12 DEF Lock, handVars
  <2>2. UNCHANGED <<pc, locked, queue>> \/ Down(t)
    BY <1>12 DEF Lock, semVars
  <2> QED BY <2>1, <2>2, Sleeping, Untouched
<1>13. CASE Register(t)
  BY <1>13, Inside DEF Register, Go, semVars, handVars
<1>14. CASE ChangeConsole(t)
  BY <1>14, Inside DEF ChangeConsole, Go, semVars, handVars
<1>15. CASE Suspend(t)
  BY <1>15, Releasing DEF Suspend, handVars
<1>16. CASE Resume(t)
  BY <1>16, Inside DEF Resume, Go, semVars, handVars
<1> QED
  BY <1>1, <1>2, <1>3, <1>4, <1>5, <1>6, <1>7, <1>8, <1>9, <1>10, <1>11, <1>12, <1>13,
     <1>14, <1>15, <1>16 DEF Step, Prints, Writes, Locks

\* So does every step.
LEMMA HandNext == HandInv /\ [Next]_vars => HandInv'
<1> SUFFICES ASSUME HandInv, [Next]_vars PROVE HandInv'
  OBVIOUS
<1>1. CASE \E t \in Tasks : BeginProgram(t) \/ SayLater(t)
  BY <1>1, Untouched DEF BeginProgram, SayLater, semVars, handVars
<1>2. CASE \E t \in Tasks : SayNow(t)
  BY <1>2, Outside DEF SayNow, Idle, Emit, Go, semVars, handVars, Contexts
<1>3. CASE \E t \in Contexts : Step(t)
  BY <1>3, StepKeeps
<1>4. CASE IrqWorkRuns
  BY <1>4, Trying DEF IrqWorkRuns, handVars, Contexts
<1>5. CASE SyslogRead \/ UNCHANGED vars
  BY <1>5, Untouched DEF SyslogRead, vars, semVars, handVars
<1> QED BY <1>1, <1>2, <1>3, <1>4, <1>5 DEF Next

\* Whoever is between taking and releasing console_sem, spins in
\* console_trylock_spinning() or writes in console_unlock(): the five facts of
\* HandInv hold always, in every instance.
THEOREM HandInvariant == Spec => []HandInv
BY HandInit, HandNext, PTL DEF Spec

\* What OneOwner says follows.
LEMMA HandOneOwner == HandInv => OneOwner
<1> SUFFICES ASSUME HandInv PROVE OneOwner
  OBVIOUS
<1> USE DEF HandInv
<1>1. Owners = {t \in Contexts : Owns(t)}
  BY DEF Owners, Owns
<1>2. Cardinality(Owners) <= 1
  <2>1. CASE Owners = {}
    <3>1. Cardinality(Owners) = 0
      BY <2>1, FS_EmptySet
    <3> QED BY <3>1
  <2>2. CASE Owners # {}
    <3>1. PICK t \in Contexts : Owners = {t}
      BY <1>1, <2>2 DEF Handover
    <3>2. Cardinality(Owners) = 1
      BY <3>1, FS_Singleton
    <3> QED BY <3>2
  <2> QED BY <2>1, <2>2
<1>3. locked <=> Owners # {}
  BY <1>1 DEF Handover
<1>4. console_waiter <=> \E t \in Contexts : pc[t] = "spin" /\ t \notin Owners
  <2>1. ASSUME console_waiter
        PROVE  \E t \in Contexts : pc[t] = "spin" /\ t \notin Owners
    BY <1>1, <2>1 DEF Handover, Owns, Writing
  <2>2. ASSUME NEW t \in Contexts, pc[t] = "spin" /\ t \notin Owners
        PROVE  console_waiter
    BY <1>1, <2>2 DEF Owns
  <2> QED BY <2>1, <2>2
<1>5. queue # <<>> => locked
  BY DEF QueueAsleep
<1> QED BY <1>2, <1>3, <1>4, <1>5 DEF OneOwner

\* However the semaphore is taken, given to a sleeper or passed on to the
\* context that spins, one context at most owns it, and it is down exactly then:
\* OneOwner holds in every instance.
THEOREM OneOwnerAlways == Spec => []OneOwner
BY HandInvariant, HandOneOwner, PTL

-----------------------------------------------------------------------------
(* Every record that console_unlock() has gone past.                       *)

\* A call in a list, also one that register_console() has found to take over
\* from the boot consoles.
AnyCall == Call \cup ({"take over"} \X Consoles)

ListTyped ==
  /\ registered \subseteq Consoles /\ enabled \subseteq Consoles
  /\ exclusive_console \in Consoles \cup {None}
  /\ todo \in [Contexts -> Seq(AnyCall)]
  /\ left \subseteq Seq(Call)
  /\ seen \in [Consoles -> Seq(Nat)]
  /\ owed \in [Consoles -> Nat]
  /\ dropped \in [Consoles -> SUBSET Nat]

\* What the buffer announces is dropped right before the record in it.
Announces(x) ==
  x.notice # {} =>
    \E m \in x.notice : m < x.record /\ m + 1 .. x.record - 1 \subseteq Quiet

\* The positions in the log, and how far they may go.
Positions ==
  /\ first \in Nat /\ next \in Nat /\ console_seq \in Nat
  /\ syslog_seq \in Nat /\ stop_seq \in Nat
  /\ text \in [notice : SUBSET Nat, record : Nat] /\ Announces(text)
  /\ first <= next /\ (next # 0 => first < next)
  /\ next - first <= Capacity /\ (first # 0 => next - first = Capacity)
  /\ console_seq <= next /\ syslog_seq <= next /\ stop_seq <= next

\* Who sleeps for the semaphore, or was woken with it, is in a call.
InCall == \A t \in Contexts : pc[t] \in {"asleep", "have"} => todo[t] # <<>>

\* A record is on its way to the consoles.
InFlight == \E t \in Contexts : pc[t] \in {"taken", "writing"}

Receives(c) == exclusive_console = None \/ exclusive_console = c

\* What console_unlock() has gone past for a console: while it replays records
\* for another one, everything up to where the replay ends.
Past(c, n) == n < console_seq \/ (~Receives(c) /\ n < stop_seq)

OnTheWay(c, n) == (n = text.record \/ n \in text.notice) /\ Receives(c) /\ InFlight

Given(c, n) ==
  \/ n \in Quiet \/ n \in dropped[c]
  \/ \E i \in 1 .. Len(seen[c]) : seen[c][i] = n
  \/ OnlyQuietLeft(n) \/ CutShort(c, n)
  \/ OnTheWay(c, n)

AllGiven ==
  \A c \in registered \cap enabled : \A n \in Nat :
    owed[c] <= n /\ Past(c, n) => Given(c, n)

WriteInv == ListTyped /\ Positions /\ InCall /\ AllGiven

\* The larger of two numbers.
LEMMA MaxOfTwo ==
  ASSUME NEW a \in Nat, NEW b \in Nat
  PROVE  /\ Max({a, b}) \in {a, b}
         /\ Max({a, b}) >= a /\ Max({a, b}) >= b
<1>1. \E x \in {a, b} : \A y \in {a, b} : x >= y
  OBVIOUS
<1>2. Max({a, b}) \in {a, b} /\ \A y \in {a, b} : Max({a, b}) >= y
  BY <1>1 DEF Max
<1> QED BY <1>2

\* The least element of a set of numbers.
LEMMA MinOfSet ==
  ASSUME NEW S \in SUBSET Nat, S # {}
  PROVE  Min(S) \in S /\ \A y \in S : Min(S) <= y
<1>1. \E x \in S : \A y \in S : ~(<<y, x>> \in OpToRel(<, Nat))
  BY NatLessThanWellFounded, WFMin
<1>2. PICK x \in S : \A y \in S : ~(<<y, x>> \in OpToRel(<, Nat))
  BY <1>1
<1>3. ASSUME NEW y \in S PROVE x <= y
  <2>1. x \in Nat /\ y \in Nat
    OBVIOUS
  <2>2. ~(y < x)
    BY <1>2, <2>1 DEF OpToRel
  <2> QED BY <2>1, <2>2
<1>4. \E z \in S : \A y \in S : z =< y
  BY <1>3
<1> QED BY <1>4 DEF Min

\* What console_unlock() skips before the next record that it writes.
LEMMA NextLoudIs ==
  ASSUME Positions
  PROVE  /\ NextLoud \in Nat
         /\ console_seq <= NextLoud /\ first <= NextLoud /\ NextLoud <= next
         /\ \A n \in Nat : console_seq <= n /\ first <= n /\ n < NextLoud => n \in Quiet
<1> DEFINE c == Max({console_seq, first})
           S == {n \in c .. next : n = next \/ n \notin Quiet}
<1>1. c \in Nat /\ console_seq <= c /\ first <= c /\ c <= next
  <2>1. console_seq \in Nat /\ first \in Nat /\ next \in Nat /\ console_seq <= next /\ first <= next
    BY DEF Positions
  <2>2. c \in {console_seq, first} /\ c >= console_seq /\ c >= first
    BY <2>1, MaxOfTwo
  <2> QED BY <2>1, <2>2
<1>2. next \in Nat /\ console_seq \in Nat /\ first \in Nat
  BY DEF Positions
<1>3. NextLoud = Min(S)
  BY DEF NextLoud
<1> HIDE DEF c
<1>4. S \in SUBSET Nat /\ next \in S
  BY <1>1, <1>2
<1>5. Min(S) \in S /\ \A y \in S : Min(S) <= y
  BY <1>4, MinOfSet
<1>6. Min(S) \in c .. next
  BY <1>5
<1> DEFINE m == Min(S)
<1>7. m \in Nat /\ c <= m /\ m <= next
  BY <1>1, <1>2, <1>6
<1>8. ASSUME NEW n \in Nat, console_seq <= n, first <= n, n < m
      PROVE  n \in Quiet
  <2>1. n \notin S
    BY <1>5, <1>7, <1>8, <1>4
  <2>2. c <= n
    <3>1. c \in {console_seq, first}
      BY <1>2, MaxOfTwo DEF c
    <3> QED BY <1>8, <3>1
  <2>3. n \in c .. next
    BY <1>1, <1>2, <1>7, <1>8, <2>2
  <2> QED BY <2>1, <2>3
<1> HIDE DEF m, S
<1>9. console_seq <= m /\ first <= m
  BY <1>1, <1>2, <1>7
<1> QED BY <1>3, <1>7, <1>8, <1>9 DEF m

\* A function on 1 .. n is a sequence.
LEMMA IsASeq == ASSUME NEW S, NEW n \in Nat, NEW s \in [1 .. n -> S] PROVE s \in Seq(S)
OBVIOUS

\* The removals of the boot consoles are calls.
LEMMA RemovalsAreCalls ==
  ASSUME registered \subseteq Consoles
  PROVE  Removals \in Seq(AnyCall)
<1> DEFINE k == Cardinality(registered)
           order == SetToSeq(registered)
<1>1. IsFiniteSet(registered)
  BY FS_Subset
<1>2. k \in Nat /\ ExistsBijection(1 .. k, registered)
  BY <1>1, FS_CardinalityType
<1>3. \E f \in [1 .. k -> registered] : IsInjective(f)
  BY <1>2 DEF ExistsBijection, Bijection, Injection
<1>4. order \in [1 .. k -> registered]
  BY <1>3 DEF SetToSeq
<1> HIDE DEF k, order
<1>5. ASSUME NEW i \in 1 .. 2 * k
      PROVE  (IF i % 2 = 1 THEN Say ELSE <<"unregister", order[i \div 2]>>) \in AnyCall
  <2>1. CASE i % 2 = 1
    BY <2>1 DEF AnyCall, Call
  <2>2. CASE i % 2 # 1
    <3>1. i \div 2 \in 1 .. k
      BY <1>2, <2>2
    <3>2. order[i \div 2] \in Consoles
      BY <1>4, <3>1
    <3> QED BY <2>2, <3>2 DEF AnyCall, Call
  <2> QED BY <2>1, <2>2
<1>6. Removals = [i \in 1 .. 2 * k |-> IF i % 2 = 1 THEN Say ELSE <<"unregister", order[i \div 2]>>]
  BY DEF Removals, k, order
<1>7. 2 * k \in Nat
  BY <1>2
<1>8. Removals \in [1 .. 2 * k -> AnyCall]
  BY <1>5, <1>6
<1> HIDE DEF AnyCall
<1> QED BY <1>7, <1>8, IsASeq

\* Nothing has been printed at the start.
LEMMA WriteInit == Init => WriteInv
<1> SUFFICES ASSUME Init PROVE WriteInv
  OBVIOUS
<1>1. PICK s \in Scenarios : registered = s.start /\ left = s.programs
  BY DEF Init
<1>2. s.start \subseteq Consoles /\ s.programs \subseteq Seq(Call)
  OBVIOUS
<1>3. ListTyped
  <2>1. <<>> \in Seq(AnyCall) /\ <<>> \in Seq(Nat)
    OBVIOUS
  <2> QED BY <1>1, <1>2, <2>1 DEF Init, ListTyped
<1>4. Positions
  <2>1. text \in [notice : SUBSET Nat, record : Nat] /\ text.notice = {}
    BY DEF Init
  <2>2. Announces(text)
    BY <2>1 DEF Announces
  <2>3. /\ Capacity \in Nat
        /\ first = 0 /\ next = 0 /\ console_seq = 0 /\ syslog_seq = 0 /\ stop_seq = 0
    BY DEF Init
  <2> QED BY <2>1, <2>2, <2>3 DEF Positions
<1>5. InCall
  BY DEF Init, InCall
<1>6. AllGiven
  BY DEF Init, AllGiven, Past
<1> QED BY <1>3, <1>4, <1>5, <1>6 DEF WriteInv

\* What was given, announced or left out stays so while the log grows.
LEMMA GivenStays ==
  ASSUME first \in Nat, first' \in Nat, first <= first', NEW c, NEW n \in Nat,
         dropped[c] \subseteq dropped'[c],
         \A i \in 1 .. Len(seen[c]) : i \in 1 .. Len(seen'[c]) /\ seen'[c][i] = seen[c][i],
         Given(c, n), OnTheWay(c, n) => Given(c, n)'
  PROVE  Given(c, n)'
<1>1. CASE n \in Quiet \/ n \in dropped[c]
  BY <1>1 DEF Given
<1>2. CASE \E i \in 1 .. Len(seen[c]) : seen[c][i] = n
  <2>1. PICK i \in 1 .. Len(seen[c]) : seen[c][i] = n
    BY <1>2
  <2>2. i \in 1 .. Len(seen'[c]) /\ seen'[c][i] = n
    BY <2>1
  <2> QED BY <2>2 DEF Given
<1>3. CASE OnlyQuietLeft(n)
  <2>1. PICK f \in n + 1 .. first : f .. f + Capacity - 1 \subseteq Quiet
    BY <1>3 DEF OnlyQuietLeft
  <2>2. f \in n + 1 .. first'
    BY <2>1
  <2>3. OnlyQuietLeft(n)'
    BY <2>1, <2>2 DEF OnlyQuietLeft
  <2> QED BY <2>3 DEF Given
<1>4. CASE CutShort(c, n)
  <2>1. CutShort(c, n)'
    BY <1>4 DEF CutShort
  <2> QED BY <2>1 DEF Given
<1> QED BY <1>1, <1>2, <1>3, <1>4 DEF Given

\* What is the same for AllGiven stays given.
LEMMA GivenKept ==
  ASSUME AllGiven, ListTyped, InFlight => InFlight',
         first \in Nat, first' \in Nat, first <= first',
         UNCHANGED <<listVars, console_seq, text, history>>
  PROVE  AllGiven'
<1>1. UNCHANGED <<registered, enabled, exclusive_console, stop_seq, seen, owed, dropped>>
  BY DEF listVars, history
<1> HIDE DEF InFlight
<1>2. ASSUME NEW c \in registered' \cap enabled', NEW n \in Nat, owed'[c] <= n, Past(c, n)'
      PROVE  Given(c, n)'
  <2>1. Given(c, n)
    BY <1>1, <1>2 DEF AllGiven, Past, Receives
  <2>2. OnTheWay(c, n) => OnTheWay(c, n)'
    BY <1>1 DEF OnTheWay, Receives
  <2>3. OnTheWay(c, n) => Given(c, n)'
    BY <2>2 DEF Given
  <2>4. dropped[c] \subseteq dropped'[c]
    BY <1>1
  <2>5. \A i \in 1 .. Len(seen[c]) : i \in 1 .. Len(seen'[c]) /\ seen'[c][i] = seen[c][i]
    BY <1>1
  <2> QED BY <2>1, <2>3, <2>4, <2>5, GivenStays
<1> QED BY <1>2 DEF AllGiven

\* A step that only moves contexts from one place in the code to another.
LEMMA OnlyMoves ==
  ASSUME WriteInv, InFlight => InFlight',
         \A s \in Contexts : pc'[s] \in {"asleep", "have"} => todo[s] # <<>>,
         UNCHANGED <<todo, left, listVars, logVars, syslog_seq, text, history>>
  PROVE  WriteInv'
<1> USE DEF WriteInv
<1>1. ListTyped'
  BY DEF ListTyped, listVars, history
<1>2. Positions'
  BY DEF Positions, listVars, logVars
<1>3. InCall'
  BY DEF InCall
<1>4. first' = first /\ first \in Nat /\ first <= first
  BY DEF Positions, logVars
<1>5. AllGiven'
  BY <1>4, GivenKept DEF logVars
<1> QED BY <1>1, <1>2, <1>3, <1>5

\* A context moves and does not leave the writing, nor begin to sleep.
LEMMA Moved ==
  ASSUME HandInv, InCall, NEW t \in Contexts, NEW label \in Labels \ {"asleep", "have"},
         pc' = [pc EXCEPT ![t] = label],
         pc[t] \in {"taken", "writing"} => label \in {"taken", "writing"}
  PROVE  /\ InFlight => InFlight'
         /\ \A s \in Contexts : pc'[s] \in {"asleep", "have"} => todo[s] # <<>>
<1>1. \A s \in Contexts : pc'[s] = IF s = t THEN label ELSE pc[s]
  BY DEF HandInv, HandTyped
<1>2. InFlight => InFlight'
  <2> SUFFICES ASSUME InFlight PROVE InFlight'
    OBVIOUS
  <2>1. PICK s \in Contexts : pc[s] \in {"taken", "writing"}
    BY DEF InFlight
  <2>2. pc'[s] \in {"taken", "writing"}
    BY <1>1, <2>1
  <2> QED BY <2>2 DEF InFlight
<1>3. ASSUME NEW s \in Contexts, pc'[s] \in {"asleep", "have"} PROVE todo[s] # <<>>
  <2>1. s # t /\ pc[s] \in {"asleep", "have"}
    BY <1>1, <1>3
  <2> QED BY <2>1 DEF InCall
<1> QED BY <1>2, <1>3

\* The semaphore is released: the task that gets it has been asleep in its call.
LEMMA MovedUp ==
  ASSUME HandInv, InCall, NEW t \in Contexts, NEW label \in {"idle", "recheck"},
         pc[t] \in {"have", "unlock", "up"}, Up(t, label)
  PROVE  /\ InFlight => InFlight'
         /\ \A s \in Contexts : pc'[s] \in {"asleep", "have"} => s # t /\ todo[s] # <<>>
<1>1. CASE queue = <<>>
  <2>1. pc' = [pc EXCEPT ![t] = label]
    BY <1>1 DEF Up, Go
  <2>2. label \in Labels \ {"asleep", "have"}
    BY DEF Labels
  <2>3. pc'[t] = label
    BY <2>1 DEF HandInv, HandTyped
  <2> QED BY <2>1, <2>2, <2>3, Moved
<1>2. CASE queue # <<>>
  <2> DEFINE h == Head(queue)
  <2>1. pc' = [pc EXCEPT ![t] = label, ![h] = "have"]
    BY <1>2 DEF Up
  <2>2. h \in Contexts /\ h = queue[1] /\ 1 \in 1 .. Len(queue)
    BY <1>2 DEF HandInv, HandTyped
  <2>3. pc[h] = "asleep" /\ h # t
    BY <2>2 DEF HandInv, QueueAsleep
  <2> HIDE DEF h
  <2>4. \A s \in Contexts : pc'[s] = IF s = t THEN label ELSE IF s = h THEN "have" ELSE pc[s]
    BY <2>1, <2>2, <2>3 DEF HandInv, HandTyped
  <2>5. InFlight => InFlight'
    <3> SUFFICES ASSUME InFlight PROVE InFlight'
      OBVIOUS
    <3>1. PICK s \in Contexts : pc[s] \in {"taken", "writing"}
      BY DEF InFlight
    <3>2. pc'[s] \in {"taken", "writing"}
      BY <2>3, <2>4, <3>1
    <3> QED BY <3>2 DEF InFlight
  <2>6. ASSUME NEW s \in Contexts, pc'[s] \in {"asleep", "have"} PROVE s # t /\ todo[s] # <<>>
    <3>1. s # t /\ pc[s] \in {"asleep", "have"}
      BY <2>3, <2>4, <2>6
    <3> QED BY <3>1 DEF InCall
  <2> QED BY <2>5, <2>6
<1> QED BY <1>1, <1>2

\* Nobody is writing a record when another one owns the semaphore.
LEMMA OwnerAlone ==
  ASSUME HandInv, NEW t \in Contexts, pc[t] \in {"have", "unlock", "loop", "up"}
  PROVE  ~InFlight
BY DEF HandInv, Handover, Owns, Writing, InFlight

\* A record is stored, the position of the consoles stays.
LEMMA Storing ==
  ASSUME Positions, Store, UNCHANGED <<console_seq, syslog_seq, stop_seq, text>>
  PROVE  Positions' /\ first <= first'
<1>1. Capacity \in Nat /\ Capacity >= 1
  OBVIOUS
<1>2. next' = next + 1
  BY DEF Store
<1>3. first' = IF next' - first > Capacity THEN first + 1 ELSE first
  BY DEF Store
<1> QED BY <1>1, <1>2, <1>3 DEF Positions

\* console_unlock() takes the next record: what it goes past is dropped, too
\* quiet, or what it writes.
LEMMA TakingGives ==
  ASSUME WriteInv, HandInv, NEW t \in Contexts, TakeRecord(t)
  PROVE  ListTyped' /\ Positions' /\ AllGiven'
<1> USE DEF WriteInv
<1> DEFINE m == NextLoud
<1>1. pc \in [Contexts -> Labels] /\ pc[t] = "loop"
  BY DEF TakeRecord, HandInv, HandTyped
<1>2. ~InFlight
  BY <1>1, OwnerAlone
<1>3. /\ m \in Nat /\ console_seq <= m /\ first <= m /\ m <= next
      /\ \A n \in Nat : console_seq <= n /\ first <= n /\ n < m => n \in Quiet
  BY NextLoudIs
<1>4. UNCHANGED <<todo, registered, enabled, stop_seq, first, next, syslog_seq, left, seen, owed>>
  BY DEF TakeRecord, history
<1>5. dropped' = dropped
  BY DEF TakeRecord, history
<1>6. \/ /\ m = next /\ console_seq' = next /\ UNCHANGED <<text, exclusive_console>>
      \/ /\ m # next /\ console_seq' = m + 1
         /\ text' = [notice |-> console_seq .. first - 1, record |-> m]
         /\ exclusive_console' = IF m >= stop_seq THEN None ELSE exclusive_console
         /\ pc' = [pc EXCEPT ![t] = "taken"]
  BY DEF TakeRecord, Go
<1> HIDE DEF m
<1>7. /\ console_seq \in Nat /\ first \in Nat /\ next \in Nat /\ stop_seq \in Nat
      /\ console_seq <= next /\ first <= next /\ stop_seq <= next
  BY DEF Positions
<1>8. ListTyped'
  <2>1. exclusive_console' \in Consoles \cup {None}
    BY <1>6 DEF ListTyped
  <2> QED BY <1>4, <1>5, <2>1 DEF ListTyped
<1>9. Positions'
  <2>1. text' \in [notice : SUBSET Nat, record : Nat]
    <3>1. console_seq .. first - 1 \in SUBSET Nat
      BY <1>7
    <3> QED BY <1>3, <1>6, <3>1 DEF Positions
  <2>2. Announces(text')
    <3>1. CASE text' = text
      BY <3>1 DEF Positions
    <3>2. CASE text' = [notice |-> console_seq .. first - 1, record |-> m]
      <4>1. text'.notice = console_seq .. first - 1 /\ text'.record = m
        BY <3>2
      <4>2. ASSUME NEW k \in console_seq .. first - 1
            PROVE  \E e \in console_seq .. first - 1 : e < m /\ e + 1 .. m - 1 \subseteq Quiet
        <5>1. first - 1 \in console_seq .. first - 1 /\ first - 1 < m
          BY <1>3, <1>7, <4>2
        <5>2. first - 1 + 1 .. m - 1 \subseteq Quiet
          BY <1>3, <1>7, <4>2
        <5> QED BY <5>1, <5>2
      <4> QED BY <4>1, <4>2 DEF Announces
    <3> QED BY <1>6, <3>1, <3>2
  <2> QED BY <1>3, <1>4, <1>6, <1>7, <2>1, <2>2 DEF Positions
<1>10. ASSUME NEW c \in registered' \cap enabled', NEW n \in Nat, owed'[c] <= n, Past(c, n)'
       PROVE  Given(c, n)'
  <2>1. c \in registered \cap enabled /\ owed[c] <= n
    BY <1>4, <1>10
  <2>2. n < console_seq' \/ (~Receives(c)' /\ n < stop_seq)
    BY <1>4, <1>10 DEF Past
  <2>3. CASE Past(c, n)
    <3>1. Given(c, n)
      BY <2>1, <2>3 DEF AllGiven
    <3>2. ~OnTheWay(c, n)
      BY <1>2 DEF OnTheWay
    <3>3. first \in Nat /\ first' \in Nat /\ first <= first'
      BY <1>4, <1>7
    <3>4. /\ dropped[c] \subseteq dropped'[c]
          /\ \A i \in 1 .. Len(seen[c]) : i \in 1 .. Len(seen'[c]) /\ seen'[c][i] = seen[c][i]
      BY <1>4, <1>5
    <3> QED BY <3>1, <3>2, <3>3, <3>4, GivenStays
  <2>4. CASE ~Past(c, n) /\ console_seq <= n /\ n < m
    <3>1. n \in Quiet \/ n < first
      BY <1>3, <1>7, <2>4
    <3>2. CASE n \in Quiet
      BY <3>2 DEF Given
    <3>3. CASE n < first /\ m = next
      <4>1. next - first = Capacity /\ first \in n + 1 .. first
        BY <1>7, <3>3 DEF Positions
      <4>2. first .. first + Capacity - 1 \subseteq Quiet
        <5> SUFFICES ASSUME NEW k \in first .. first + Capacity - 1 PROVE k \in Quiet
          OBVIOUS
        <5>1. k \in Nat /\ first <= k /\ k < m /\ console_seq <= k
          BY <1>7, <2>4, <3>3, <4>1
        <5> QED BY <1>3, <5>1
      <4>3. OnlyQuietLeft(n)
        BY <4>1, <4>2 DEF OnlyQuietLeft
      <4>4. first' = first
        BY <1>4
      <4>5. OnlyQuietLeft(n)'
        BY <4>1, <4>2, <4>4 DEF OnlyQuietLeft
      <4> QED BY <4>5 DEF Given
    <3>4. CASE n < first /\ m # next
      <4>1. n \in console_seq .. first - 1
        BY <1>7, <2>4, <3>4
      <4>2. n \in text'.notice
        <5> DEFINE gone == console_seq .. first - 1
        <5>1. n \in gone
          BY <4>1
        <5> HIDE DEF gone
        <5>2. text' = [notice |-> gone, record |-> m]
          BY <1>6, <3>4 DEF gone
        <5> QED BY <5>1, <5>2
      <4>3. pc'[t] = "taken"
        BY <1>1, <1>6, <3>4
      <4>4. InFlight'
        BY <4>3 DEF InFlight
      <4>5. Receives(c)'
        <5>1. Receives(c) \/ ~(n < stop_seq)
          BY <2>4 DEF Past
        <5>2. CASE Receives(c)
          BY <1>6, <3>4, <5>2 DEF Receives
        <5>3. CASE ~(n < stop_seq)
          <6>1. m >= stop_seq
            BY <1>3, <1>7, <2>4, <5>3
          <6> QED BY <1>6, <3>4, <6>1 DEF Receives
        <5> QED BY <5>1, <5>2, <5>3
      <4>6. OnTheWay(c, n)'
        BY <4>2, <4>4, <4>5 DEF OnTheWay
      <4> QED BY <4>6 DEF Given
    <3> QED BY <3>1, <3>2, <3>3, <3>4
  <2>5. CASE ~Past(c, n) /\ m <= n
    <3>0. console_seq <= n
      BY <1>3, <1>7, <2>5
    <3>1. m # next
      <4> SUFFICES ASSUME m = next PROVE FALSE
        OBVIOUS
      <4>1. ~(n < next)
        BY <1>7, <2>5
      <4>2. ~(n < stop_seq)
        BY <1>7, <4>1
      <4> QED BY <1>6, <2>2, <4>1, <4>2
    <3>2. pc'[t] = "taken"
      BY <1>1, <1>6, <3>1
    <3>3. InFlight'
      BY <3>2 DEF InFlight
    <3>4. n < m + 1 \/ (~Receives(c)' /\ n < stop_seq)
      BY <1>6, <2>2, <3>1
    <3>5. ~Receives(c)' => ~Receives(c) /\ m < stop_seq
      BY <1>3, <1>6, <1>7, <3>1 DEF Receives
    <3>6. Receives(c) \/ ~(n < stop_seq)
      BY <2>5 DEF Past
    <3>7. n < m + 1 /\ Receives(c)'
      <4>1. CASE Receives(c)'
        BY <3>4, <4>1
      <4>2. CASE ~Receives(c)'
        <5>1. ~(n < stop_seq) /\ m < stop_seq
          BY <3>5, <3>6, <4>2
        <5> QED BY <1>3, <1>7, <3>4, <5>1
      <4> QED BY <4>1, <4>2
    <3>8. n = m /\ text'.record = m
      BY <1>3, <1>6, <2>5, <3>1, <3>7
    <3>9. OnTheWay(c, n)'
      BY <3>3, <3>7, <3>8 DEF OnTheWay
    <3> QED BY <3>9 DEF Given
  <2>6. Past(c, n) \/ (console_seq <= n /\ n < m) \/ m <= n
    BY <1>3, <1>7 DEF Past
  <2> QED BY <2>3, <2>4, <2>5, <2>6
<1> QED BY <1>8, <1>9, <1>10 DEF AllGiven

\* call_console_drivers(): the record is given to the consoles that are to get
\* it, and is under way no more.
LEMMA WritingGives ==
  ASSUME WriteInv, HandInv, NEW t \in Contexts, WriteOut(t)
  PROVE  ListTyped' /\ Positions' /\ AllGiven'
<1> USE DEF WriteInv
<1> DEFINE x == text.record
<1>1. /\ Written
      /\ UNCHANGED <<todo, registered, enabled, exclusive_console, stop_seq, first, next,
                     console_seq, syslog_seq, text, left, owed>>
  BY DEF WriteOut, listVars, logVars
<1>2. /\ seen \in [Consoles -> Seq(Nat)] /\ dropped \in [Consoles -> SUBSET Nat]
      /\ x \in Nat /\ text.notice \in SUBSET Nat /\ Announces(text)
  BY DEF ListTyped, Positions
<1>3. ASSUME NEW c \in Consoles
      PROVE  /\ Gets(c) <=> c \in registered \cap enabled /\ Receives(c)
             /\ Gets(c) /\ Whole => seen'[c] = Append(seen[c], x)
             /\ ~(Gets(c) /\ Whole) => seen'[c] = seen[c]
             /\ dropped'[c] = IF Gets(c) THEN dropped[c] \cup text.notice ELSE dropped[c]
  BY <1>1 DEF Written, Receives, Gets
<1> HIDE DEF Gets, Whole, x
<1>4. ASSUME NEW c \in Consoles
      PROVE  /\ seen'[c] \in Seq(Nat)
             /\ \A i \in 1 .. Len(seen[c]) : i \in 1 .. Len(seen'[c]) /\ seen'[c][i] = seen[c][i]
             /\ Gets(c) /\ Whole => \E i \in 1 .. Len(seen'[c]) : seen'[c][i] = x
             /\ dropped'[c] \in SUBSET Nat /\ dropped[c] \subseteq dropped'[c]
  <2> DEFINE q == seen[c]
             k == Len(q)
             r == Append(q, x)
  <2>1. q \in Seq(Nat) /\ k \in Nat
    BY <1>2
  <2>2. /\ r \in Seq(Nat) /\ Len(r) = k + 1 /\ r[k + 1] = x
        /\ \A i \in 1 .. k : r[i] = q[i]
    BY <1>2, <2>1
  <2>3. dropped'[c] \in SUBSET Nat /\ dropped[c] \subseteq dropped'[c]
    BY <1>2, <1>3
  <2>4. CASE Gets(c) /\ Whole
    <3>1. seen'[c] = r
      BY <1>3, <2>4
    <3> HIDE DEF r, k, q
    <3>2. k + 1 \in 1 .. Len(r) /\ \A i \in 1 .. k : i \in 1 .. Len(r)
      BY <2>1, <2>2
    <3>3. /\ \A i \in 1 .. k : i \in 1 .. Len(seen'[c]) /\ seen'[c][i] = q[i]
          /\ \E i \in 1 .. Len(seen'[c]) : seen'[c][i] = x
          /\ seen'[c] \in Seq(Nat)
      BY <2>2, <3>1, <3>2
    <3> QED BY <2>3, <3>3 DEF k, q
  <2>5. CASE ~(Gets(c) /\ Whole)
    BY <1>3, <2>1, <2>3, <2>5
  <2> QED BY <2>4, <2>5
<1>5. ListTyped'
  <2>1. seen' = [c \in Consoles |-> seen'[c]] /\ dropped' = [c \in Consoles |-> dropped'[c]]
    BY <1>1 DEF Written
  <2>2. seen' \in [Consoles -> Seq(Nat)] /\ dropped' \in [Consoles -> SUBSET Nat]
    BY <1>4, <2>1
  <2> QED BY <1>1, <2>2 DEF ListTyped
<1>6. Positions'
  BY <1>1 DEF Positions
<1>7. ASSUME NEW c \in registered' \cap enabled', NEW n \in Nat, owed'[c] <= n, Past(c, n)'
      PROVE  Given(c, n)'
  <2>1. c \in registered \cap enabled /\ owed[c] <= n /\ Past(c, n) /\ c \in Consoles
    BY <1>1, <1>7 DEF Past, Receives, ListTyped
  <2>2. Given(c, n)
    BY <2>1 DEF AllGiven
  <2>3. ASSUME OnTheWay(c, n) PROVE Given(c, n)'
    <3>1. Gets(c) /\ dropped'[c] = dropped[c] \cup text.notice
      BY <1>3, <2>1, <2>3 DEF OnTheWay
    <3>2. CASE n \in text.notice
      BY <3>1, <3>2 DEF Given
    <3>3. CASE n = x /\ Whole
      BY <1>4, <2>1, <3>1, <3>3 DEF Given
    <3>4. CASE n = x /\ n \in TooLong
      <4>1. CutShort(c, n)'
        BY <3>4 DEF CutShort
      <4> QED BY <4>1 DEF Given
    <3>5. CASE n = x /\ n \in Long /\ text.notice # {}
      <4>1. PICK m \in text.notice : m < x /\ m + 1 .. x - 1 \subseteq Quiet
        BY <1>2, <3>5 DEF Announces, x
      <4>2. m \in dropped'[c]
        BY <3>1, <4>1
      <4>3. CutShort(c, n)'
        BY <3>5, <4>1, <4>2 DEF CutShort
      <4> QED BY <4>3 DEF Given
    <3> QED BY <2>3, <3>2, <3>3, <3>4, <3>5 DEF OnTheWay, Whole, x
  <2>4. first \in Nat /\ first' \in Nat /\ first <= first'
    BY <1>1 DEF Positions
  <2> QED BY <1>4, <2>1, <2>2, <2>3, <2>4, GivenStays
<1> QED BY <1>5, <1>6, <1>7 DEF AllGiven

\* The call of a task that holds the semaphore.
LEMMA CallIs ==
  ASSUME ListTyped, NEW t \in Contexts, todo[t] # <<>>
  PROVE  /\ todo[t] \in Seq(AnyCall) /\ todo[t][1] \in AnyCall /\ Tail(todo[t]) \in Seq(AnyCall)
         /\ todo[t][1][1] \in {"register", "take over", "unregister", "stop", "start"}
              => todo[t][1][2] \in Consoles
<1>1. todo[t] \in Seq(AnyCall)
  BY DEF ListTyped
<1>2. todo[t][1] \in AnyCall /\ Tail(todo[t]) \in Seq(AnyCall)
  <2> HIDE DEF AnyCall
  <2> QED BY <1>1
<1>3. ASSUME NEW k \in AnyCall,
             k[1] \in {"register", "take over", "unregister", "stop", "start"}
      PROVE  k[2] \in Consoles
  <2>1. CASE k = Say
    BY <1>3, <2>1 DEF Say
  <2>2. CASE k \in {"register", "unregister", "stop", "start"} \X Consoles
    BY <2>2
  <2>3. CASE k \in {"suspend", "resume"} \X {None}
    BY <1>3, <2>3
  <2>4. CASE k \in {"take over"} \X Consoles
    BY <2>4
  <2> QED BY <2>1, <2>2, <2>3, <2>4 DEF AnyCall, Call
<1> HIDE DEF AnyCall
<1> QED BY <1>1, <1>2, <1>3

\* A console that is added has a right to nothing that has been gone past, and
\* neither have the others to what a replay that begins further on leaves out.
LEMMA AddingGives ==
  ASSUME WriteInv, ~InFlight, NEW t \in Contexts, NEW c \in Consoles,
         NEW replay \in BOOLEAN, NEW after \in Seq(AnyCall), todo[t] # <<>>,
         AddConsole(t, c, replay, after),
         UNCHANGED <<first, next, syslog_seq, text, left>>
  PROVE  ListTyped' /\ Positions' /\ AllGiven'
<1> USE DEF WriteInv
<1>1. /\ registered' = registered \cup {c} /\ enabled' = enabled \cup {c}
      /\ seen' = [seen EXCEPT ![c] = <<>>] /\ dropped' = [dropped EXCEPT ![c] = {}]
  BY DEF AddConsole
<1>2. IF replay
      THEN exclusive_console' = c /\ stop_seq' = console_seq /\ console_seq' = syslog_seq
      ELSE UNCHANGED <<exclusive_console, stop_seq, console_seq>>
  BY DEF AddConsole
<1>3. todo' = [todo EXCEPT ![t] = <<Say>> \o after \o Tail(@)]
  BY DEF AddConsole
<1>4. ASSUME NEW d \in Consoles
      PROVE  owed'[d] = CASE d = c -> IF replay THEN syslog_seq ELSE next
                          [] d # c /\ replay /\ syslog_seq > console_seq ->
                               Max({owed[d], syslog_seq})
                          [] OTHER -> owed[d]
  BY DEF AddConsole
<1>5. /\ console_seq \in Nat /\ next \in Nat /\ stop_seq \in Nat /\ syslog_seq \in Nat
      /\ console_seq <= next /\ syslog_seq <= next /\ stop_seq <= next
  BY DEF Positions
<1>6. ASSUME NEW d \in Consoles
      PROVE  /\ owed'[d] \in Nat
             /\ d = c => owed'[d] = IF replay THEN syslog_seq ELSE next
             /\ d # c => owed[d] <= owed'[d]
             /\ d # c /\ replay /\ syslog_seq > console_seq => syslog_seq <= owed'[d]
  <2>1. owed[d] \in Nat
    BY DEF ListTyped
  <2>2. CASE d = c
    BY <1>4, <1>5, <2>2
  <2>3. CASE d # c /\ replay /\ syslog_seq > console_seq
    <3> DEFINE k == Max({owed[d], syslog_seq})
    <3>1. k \in {owed[d], syslog_seq} /\ k >= owed[d] /\ k >= syslog_seq
      BY <1>5, <2>1, MaxOfTwo
    <3>2. owed'[d] = k
      BY <1>4, <2>3
    <3> HIDE DEF k
    <3> QED BY <1>5, <2>1, <2>3, <3>1, <3>2
  <2>4. CASE d # c /\ ~(replay /\ syslog_seq > console_seq)
    <3>1. owed'[d] = owed[d]
      BY <1>4, <2>4
    <3> QED BY <2>1, <2>4, <3>1
  <2> QED BY <2>2, <2>3, <2>4
<1>7. ListTyped'
  <2>1. owed' \in [Consoles -> Nat]
    <3>1. owed' = [d \in Consoles |-> owed'[d]]
      BY DEF AddConsole
    <3> QED BY <1>6, <3>1
  <2>2. seen' \in [Consoles -> Seq(Nat)] /\ dropped' \in [Consoles -> SUBSET Nat]
    BY <1>1 DEF ListTyped
  <2>3. exclusive_console' \in Consoles \cup {None}
    BY <1>2 DEF ListTyped
  <2>4. todo' \in [Contexts -> Seq(AnyCall)]
    <3>1. Tail(todo[t]) \in Seq(AnyCall) /\ Say \in AnyCall
      BY CallIs DEF ListTyped, AnyCall, Call
    <3> HIDE DEF AnyCall
    <3>2. <<Say>> \in Seq(AnyCall)
      BY <3>1
    <3>3. <<Say>> \o after \o Tail(todo[t]) \in Seq(AnyCall)
      BY <3>1, <3>2
    <3> QED BY <1>3, <3>3 DEF ListTyped
  <2> QED BY <1>1, <2>1, <2>2, <2>3, <2>4 DEF ListTyped
<1>8. Positions'
  BY <1>2, <1>5 DEF Positions
<1>9. ASSUME NEW d \in registered' \cap enabled', NEW n \in Nat, owed'[d] <= n, Past(d, n)'
      PROVE  Given(d, n)'
  <2>1. d \in Consoles /\ owed'[d] \in Nat
    BY <1>1, <1>6 DEF ListTyped
  <2>2. n < console_seq' \/ (~Receives(d)' /\ n < stop_seq')
    BY <1>9 DEF Past
  <2>3. d # c
    <3> SUFFICES ASSUME d = c PROVE FALSE
      OBVIOUS
    <3>1. CASE replay
      <4>1. Receives(d)' /\ console_seq' = syslog_seq
        BY <1>2, <3>1 DEF Receives
      <4>2. syslog_seq <= n
        BY <1>6, <1>9, <2>1, <3>1
      <4> QED BY <1>5, <2>2, <4>1, <4>2
    <3>2. CASE ~replay
      <4>1. next <= n
        BY <1>6, <1>9, <2>1, <3>2
      <4>2. console_seq' <= next /\ stop_seq' <= next
        BY <1>2, <1>5, <3>2
      <4>3. console_seq' \in Nat /\ stop_seq' \in Nat
        BY <1>2, <1>5, <3>2
      <4> QED BY <1>5, <2>2, <4>1, <4>2, <4>3
    <3> QED BY <3>1, <3>2
  <2>4. d \in registered \cap enabled /\ seen'[d] = seen[d] /\ dropped'[d] = dropped[d]
    BY <1>1, <1>9, <2>1, <2>3 DEF ListTyped
  <2>5. owed[d] \in Nat /\ owed[d] <= owed'[d]
    BY <1>6, <2>1, <2>3 DEF ListTyped
  <2>6. owed[d] <= n
    BY <1>9, <2>1, <2>5
  <2>7. Past(d, n)
    <3>1. CASE replay
      <4>1. n < syslog_seq \/ n < console_seq
        BY <1>2, <2>2, <3>1
      <4>2. ~(syslog_seq > console_seq) \/ syslog_seq <= n
        BY <1>6, <1>5, <1>9, <2>1, <2>3, <3>1
      <4>3. n < console_seq
        BY <1>5, <4>1, <4>2
      <4> QED BY <4>3 DEF Past
    <3>2. CASE ~replay
      BY <1>2, <2>2, <3>2 DEF Past, Receives
    <3> QED BY <3>1, <3>2
  <2>8. Given(d, n)
    BY <2>4, <2>6, <2>7 DEF AllGiven
  <2>9. first \in Nat /\ first' \in Nat /\ first <= first' /\ ~OnTheWay(d, n)
    BY DEF Positions, OnTheWay
  <2> QED BY <2>4, <2>8, <2>9, GivenStays
<1> QED BY <1>7, <1>8, <1>9 DEF AllGiven

\* unregister_console(), console_stop(), console_start(): what is printed from
\* now on is owed to a console that is started.
LEMMA ChangingGives ==
  ASSUME WriteInv, HandInv, NEW t \in Contexts, ChangeConsole(t)
  PROVE  ListTyped' /\ Positions' /\ AllGiven'
<1> USE DEF WriteInv
<1> DEFINE what == todo[t][1][1]
           c == todo[t][1][2]
<1>1. /\ pc[t] = "have" /\ what \in {"unregister", "stop", "start"}
      /\ registered' = IF what = "unregister" THEN registered \ {c} ELSE registered
      /\ enabled' = IF what = "start" THEN enabled \cup {c} ELSE enabled \ {c}
      /\ owed' = IF what = "start" /\ c \notin enabled THEN [owed EXCEPT ![c] = next] ELSE owed
      /\ todo' = [todo EXCEPT ![t] = Tail(@)]
      /\ UNCHANGED <<exclusive_console, stop_seq, first, next, console_seq, syslog_seq, text,
                     left, seen, dropped>>
  BY DEF ChangeConsole, Returned, logVars
<1>2. c \in Consoles /\ Tail(todo[t]) \in Seq(AnyCall)
  BY <1>1, CallIs DEF InCall
<1>3. ~InFlight
  BY <1>1, OwnerAlone
<1> HIDE DEF what, c
<1>4. next \in Nat /\ owed \in [Consoles -> Nat]
  BY DEF Positions, ListTyped
<1>5. ListTyped'
  <2>1. owed' \in [Consoles -> Nat]
    BY <1>1, <1>2, <1>4
  <2>2. todo' \in [Contexts -> Seq(AnyCall)]
    BY <1>1, <1>2 DEF ListTyped
  <2> QED BY <1>1, <1>2, <2>1, <2>2 DEF ListTyped
<1>6. Positions'
  BY <1>1 DEF Positions
<1>7. ASSUME NEW d \in registered' \cap enabled', NEW n \in Nat, owed'[d] <= n, Past(d, n)'
      PROVE  Given(d, n)'
  <2>1. Past(d, n) /\ d \in Consoles
    BY <1>1, <1>5, <1>7 DEF Past, Receives, ListTyped
  <2>2. n < next
    BY <2>1 DEF Past, Positions
  <2>3. ~(what = "start" /\ c \notin enabled /\ d = c)
    <3> SUFFICES ASSUME what = "start", c \notin enabled, d = c PROVE FALSE
      OBVIOUS
    <3>1. owed'[d] = next
      BY <1>1, <1>2, <1>4
    <3> QED BY <1>4, <1>7, <2>2, <3>1
  <2>4. d \in registered \cap enabled /\ owed'[d] = owed[d]
    BY <1>1, <1>2, <1>4, <1>7, <2>1, <2>3
  <2>5. Given(d, n)
    BY <1>7, <2>1, <2>4 DEF AllGiven
  <2>6. first \in Nat /\ first' \in Nat /\ first <= first' /\ ~OnTheWay(d, n)
    BY <1>1, <1>3 DEF Positions, OnTheWay
  <2>7. dropped'[d] = dropped[d] /\ seen'[d] = seen[d]
    BY <1>1
  <2> QED BY <2>5, <2>6, <2>7, GivenStays
<1> QED BY <1>5, <1>6, <1>7 DEF AllGiven

\* The lists of calls change and nothing else does that the consoles depend on.
LEMMA OnlyCalls ==
  ASSUME WriteInv, InFlight => InFlight',
         todo' \in [Contexts -> Seq(AnyCall)], left' \subseteq left,
         \A s \in Contexts : pc'[s] \in {"asleep", "have"} => todo'[s] # <<>>,
         UNCHANGED <<listVars, logVars, syslog_seq, text, history>>
  PROVE  WriteInv'
<1> USE DEF WriteInv
<1>1. ListTyped'
  BY DEF ListTyped, listVars, history
<1>2. Positions'
  BY DEF Positions, listVars, logVars
<1>3. InCall'
  BY DEF InCall
<1>4. first' = first /\ first \in Nat /\ first <= first
  BY DEF Positions, logVars
<1>5. AllGiven'
  BY <1>4, GivenKept DEF logVars
<1> QED BY <1>1, <1>2, <1>3, <1>5

\* A record is stored by a context that is not asleep.
LEMMA EmittedKeeps ==
  ASSUME WriteInv, HandInv, NEW t \in Contexts, pc[t] = "idle",
         Store, pc' = [pc EXCEPT ![t] = "trylock"] \/ UNCHANGED pc,
         (todo' = [todo EXCEPT ![t] = Tail(@)] /\ pc' # pc /\ todo[t] # <<>>) \/ UNCHANGED todo,
         UNCHANGED <<left, listVars, console_seq, syslog_seq, text, history>>
  PROVE  WriteInv'
<1> USE DEF WriteInv
<1>1. (InFlight => InFlight') /\ \A s \in Contexts : pc'[s] \in {"asleep", "have"} => s # t /\ todo[s] # <<>>
  <2>1. CASE UNCHANGED pc
    <3>1. InFlight' = InFlight
      BY <2>1 DEF InFlight
    <3> QED BY <2>1, <3>1 DEF InCall
  <2>2. CASE pc' = [pc EXCEPT ![t] = "trylock"]
    <3>1. "trylock" \in Labels \ {"asleep", "have"} /\ pc'[t] = "trylock"
      BY <2>2 DEF Labels, HandInv, HandTyped
    <3>2. (InFlight => InFlight') /\ \A s \in Contexts : pc'[s] \in {"asleep", "have"} => todo[s] # <<>>
      BY <2>2, <3>1, Moved
    <3> QED BY <3>1, <3>2
  <2> QED BY <2>1, <2>2
<1>2. todo' \in [Contexts -> Seq(AnyCall)] /\ \A s \in Contexts : s # t => todo'[s] = todo[s]
  <2>1. CASE UNCHANGED todo
    BY <2>1 DEF ListTyped
  <2>2. CASE todo' = [todo EXCEPT ![t] = Tail(@)] /\ todo[t] # <<>>
    <3>1. Tail(todo[t]) \in Seq(AnyCall)
      BY <2>2, CallIs
    <3> QED BY <2>2, <3>1 DEF ListTyped
  <2> QED BY <2>1, <2>2
<1>3. ListTyped'
  BY <1>2 DEF ListTyped, listVars, history
<1>4. Positions' /\ first <= first'
  BY Storing DEF listVars
<1>5. InCall'
  BY <1>1, <1>2 DEF InCall
<1>6. AllGiven'
  <2>1. first \in Nat /\ first' \in Nat
    BY <1>4 DEF Positions
  <2> QED BY <1>1, <1>4, <2>1, GivenKept
<1> QED BY <1>3, <1>4, <1>5, <1>6

\* console_trylock()
LEMMA TriedKeeps ==
  ASSUME WriteInv, HandInv, NEW t \in Contexts, NEW label \in {"busy", "idle"},
         pc[t] \in {"idle", "trylock", "again"}, TryLock(t, label),
         UNCHANGED <<todo, left, listVars, logVars, syslog_seq, text, history>>
  PROVE  WriteInv'
<1>1. PICK l \in {"loop", "busy", "idle"} : pc' = [pc EXCEPT ![t] = l]
  BY DEF TryLock, Go
<1>2. l \in Labels \ {"asleep", "have"}
  BY DEF Labels
<1>3. (InFlight => InFlight') /\ \A s \in Contexts : pc'[s] \in {"asleep", "have"} => todo[s] # <<>>
  BY <1>1, <1>2, Moved DEF WriteInv
<1> QED BY <1>3, OnlyMoves

\* A context that moves on.
LEMMA GoneKeeps ==
  ASSUME WriteInv, HandInv, NEW t \in Contexts, NEW label \in Labels \ {"asleep", "have"},
         Go(t, label), pc[t] \in {"taken", "writing"} => label \in {"taken", "writing"},
         UNCHANGED <<todo, left, listVars, logVars, syslog_seq, text, history>>
  PROVE  WriteInv'
<1>1. (InFlight => InFlight') /\ \A s \in Contexts : pc'[s] \in {"asleep", "have"} => todo[s] # <<>>
  BY Moved DEF WriteInv, Go
<1> QED BY <1>1, OnlyMoves

\* The first element of a sequence is replaced.
LEMMA FirstReplaced ==
  ASSUME NEW S, NEW q \in Seq(S), q # <<>>, NEW x \in S
  PROVE  LET new == [q EXCEPT ![1] = x] IN new \in Seq(S) /\ new # <<>>
<1> DEFINE n == Len(q)
           new == [q EXCEPT ![1] = x]
<1>1. n \in Nat /\ 1 \in 1 .. n /\ q \in [1 .. n -> S]
  OBVIOUS
<1> HIDE DEF n
<1>2. new \in [1 .. n -> S]
  BY <1>1
<1>3. new \in Seq(S)
  BY <1>1, <1>2, IsASeq
<1>4. DOMAIN new = 1 .. n
  BY <1>2
<1>5. DOMAIN <<>> = {}
  OBVIOUS
<1>6. new # <<>>
  BY <1>1, <1>4, <1>5
<1> QED BY <1>3, <1>6

\* console_lock(): the call is taken up, or refused.
LEMMA LockKeeps ==
  ASSUME WriteInv, HandInv, NEW t \in Contexts, Lock(t)
  PROVE  WriteInv'
<1> USE DEF WriteInv
<1> DEFINE what == todo[t][1][1]
           c == todo[t][1][2]
<1>1. /\ pc[t] = "idle" /\ todo[t] # <<>>
      /\ UNCHANGED <<left, listVars, logVars, syslog_seq, text, history>>
  BY DEF Lock
<1>2. /\ todo[t] \in Seq(AnyCall) /\ todo[t][1] \in AnyCall /\ Tail(todo[t]) \in Seq(AnyCall)
      /\ what \in {"register", "take over", "unregister", "stop", "start"} => c \in Consoles
  BY <1>1, CallIs
<1>3. CASE what = "register" /\ Refused(c)
  <2>1. todo' = [todo EXCEPT ![t] = Tail(@)] /\ UNCHANGED pc
    BY <1>3 DEF Lock, Returned
  <2>2. InFlight' = InFlight
    BY <2>1 DEF InFlight
  <2>3. todo' \in [Contexts -> Seq(AnyCall)] /\ \A s \in Contexts : s # t => todo'[s] = todo[s]
    BY <1>2, <2>1 DEF ListTyped
  <2>4. \A s \in Contexts : pc'[s] \in {"asleep", "have"} => todo'[s] # <<>>
    BY <1>1, <2>1, <2>3 DEF InCall
  <2> QED BY <1>1, <2>2, <2>3, <2>4, OnlyCalls
<1>4. CASE ~(what = "register" /\ Refused(c))
  <2>1. /\ Down(t)
        /\ todo' = IF what = "register" /\ TakesOver(c)
                   THEN [todo EXCEPT ![t][1] = <<"take over", c>>] ELSE todo
    BY <1>4 DEF Lock
  <2>2. pc' = [pc EXCEPT ![t] = "asleep"] \/ pc' = [pc EXCEPT ![t] = "have"]
    BY <2>1 DEF Down, Go
  <2>3. \A s \in Contexts : s # t => pc'[s] = pc[s]
    BY <2>2 DEF HandInv, HandTyped
  <2>4. InFlight => InFlight'
    <3> SUFFICES ASSUME InFlight PROVE InFlight'
      OBVIOUS
    <3>1. PICK s \in Contexts : pc[s] \in {"taken", "writing"}
      BY DEF InFlight
    <3>2. pc'[s] \in {"taken", "writing"}
      BY <1>1, <2>3, <3>1
    <3> QED BY <3>2 DEF InFlight
  <2>5. /\ todo' \in [Contexts -> Seq(AnyCall)] /\ todo'[t] # <<>>
        /\ \A s \in Contexts : s # t => todo'[s] = todo[s]
    <3>1. CASE what = "register" /\ TakesOver(c)
      <4> DEFINE new == [todo[t] EXCEPT ![1] = <<"take over", c>>]
      <4>1. todo' = [todo EXCEPT ![t] = new]
        BY <2>1, <3>1
      <4>2. <<"take over", c>> \in AnyCall
        BY <1>2, <3>1 DEF AnyCall
      <4> HIDE DEF AnyCall
      <4>3. new \in Seq(AnyCall) /\ new # <<>>
        BY <1>1, <1>2, <4>2, FirstReplaced
      <4> HIDE DEF new
      <4> QED BY <4>1, <4>3 DEF ListTyped
    <3>2. CASE ~(what = "register" /\ TakesOver(c))
      BY <1>1, <2>1, <3>2 DEF ListTyped
    <3> QED BY <3>1, <3>2
  <2>6. \A s \in Contexts : pc'[s] \in {"asleep", "have"} => todo'[s] # <<>>
    BY <2>3, <2>5 DEF InCall
  <2> QED BY <1>1, <2>4, <2>5, <2>6, OnlyCalls
<1> QED BY <1>3, <1>4

\* The sleepers' calls stay when a context takes its next call, or moves on
\* from the lock to the writing.
LEMMA InCallKept ==
  ASSUME WriteInv, HandInv, NEW t \in Contexts, NEW label \in Labels \ {"asleep", "have"},
         pc' = [pc EXCEPT ![t] = label],
         \A s \in Contexts : s # t => todo'[s] = todo[s]
  PROVE  InCall'
<1>1. \A s \in Contexts : pc'[s] = IF s = t THEN label ELSE pc[s]
  BY DEF HandInv, HandTyped
<1> QED BY <1>1 DEF WriteInv, InCall

\* Under the lock the list of consoles changes.
LEMMA RegisterKeeps ==
  ASSUME WriteInv, HandInv, NEW t \in Contexts, Register(t)
  PROVE  WriteInv'
<1> DEFINE c == todo[t][1][2]
<1>1. /\ pc[t] = "have" /\ todo[t][1][1] \in {"register", "take over"}
      /\ pc' = [pc EXCEPT ![t] = "unlock"]
      /\ UNCHANGED <<first, next, syslog_seq, text, left>>
  BY DEF Register, Go
<1>2. todo[t] # <<>>
  BY <1>1 DEF WriteInv, InCall
<1>3. c \in Consoles
  BY <1>1, <1>2, CallIs DEF WriteInv
<1>4. ~InFlight
  BY <1>1, OwnerAlone
<1>5. PICK replay \in BOOLEAN, after \in Seq(AnyCall) : AddConsole(t, c, replay, after)
  <2>1. CASE todo[t][1][1] = "register"
    <3>1. AddConsole(t, c, c \in Replaying, <<>>)
      BY <2>1 DEF Register
    <3>2. <<>> \in Seq(AnyCall) /\ (c \in Replaying) \in BOOLEAN
      OBVIOUS
    <3> QED BY <3>1, <3>2
  <2>2. CASE todo[t][1][1] # "register"
    <3>1. AddConsole(t, c, FALSE, Removals)
      BY <2>2 DEF Register
    <3>2. Removals \in Seq(AnyCall)
      BY RemovalsAreCalls DEF WriteInv, ListTyped
    <3> QED BY <3>1, <3>2
  <2> QED BY <2>1, <2>2
<1>6. ListTyped' /\ Positions' /\ AllGiven'
  BY <1>1, <1>2, <1>3, <1>4, <1>5, AddingGives
<1>7. \A s \in Contexts : s # t => todo'[s] = todo[s]
  BY <1>5 DEF AddConsole, WriteInv, ListTyped
<1>8. "unlock" \in Labels \ {"asleep", "have"}
  BY DEF Labels
<1>9. InCall'
  BY <1>1, <1>7, <1>8, InCallKept
<1> QED BY <1>6, <1>9 DEF WriteInv

\* suspend_console() and resume_console()
LEMMA SuspendKeeps ==
  ASSUME WriteInv, HandInv, NEW t \in Contexts, Suspend(t) \/ Resume(t)
  PROVE  WriteInv'
<1>1. /\ pc[t] = "have" /\ todo' = [todo EXCEPT ![t] = Tail(@)]
      /\ UNCHANGED <<left, listVars, logVars, syslog_seq, text, history>>
  BY DEF Suspend, Resume, Returned
<1>2. todo[t] # <<>>
  BY <1>1 DEF WriteInv, InCall
<1>3. todo' \in [Contexts -> Seq(AnyCall)] /\ \A s \in Contexts : s # t => todo'[s] = todo[s]
  <2>1. Tail(todo[t]) \in Seq(AnyCall)
    BY <1>2, CallIs DEF WriteInv
  <2> QED BY <1>1, <2>1 DEF WriteInv, ListTyped
<1>4. (InFlight => InFlight') /\ \A s \in Contexts : pc'[s] \in {"asleep", "have"} => s # t /\ todo[s] # <<>>
  <2>1. CASE Suspend(t)
    BY <1>1, <2>1, MovedUp DEF Suspend, WriteInv
  <2>2. CASE Resume(t)
    <3>1. "unlock" \in Labels \ {"asleep", "have"} /\ pc' = [pc EXCEPT ![t] = "unlock"]
      BY <2>2 DEF Resume, Go, Labels
    <3>2. pc'[t] = "unlock"
      BY <3>1 DEF HandInv, HandTyped
    <3> QED BY <1>1, <3>1, <3>2, Moved DEF WriteInv
  <2> QED BY <2>1, <2>2
<1>5. \A s \in Contexts : pc'[s] \in {"asleep", "have"} => todo'[s] # <<>>
  BY <1>3, <1>4
<1> QED BY <1>1, <1>3, <1>4, <1>5, OnlyCalls

\* A step of a context keeps the invariant.
LEMMA StepWrites ==
  ASSUME WriteInv, HandInv, NEW t \in Contexts, Step(t)
  PROVE  WriteInv'
<1> USE DEF WriteInv
<1>0. {"idle", "trylock", "busy", "spin", "unlock", "loop", "taken", "writing", "up", "recheck",
       "again"} \subseteq Labels \ {"asleep", "have"}
  BY DEF Labels
<1>1. CASE Printk(t)
  <2>1. pc[t] = "idle" /\ todo[t] # <<>> /\ todo' = [todo EXCEPT ![t] = Tail(@)] /\ Store
        /\ pc' = [pc EXCEPT ![t] = "trylock"]
        /\ UNCHANGED <<left, listVars, console_seq, syslog_seq, text, history>>
    BY <1>1 DEF Printk, Calls, Emit, Returned, Go
  <2>2. pc' # pc
    <3>1. pc'[t] = "trylock"
      BY <2>1 DEF HandInv, HandTyped
    <3> QED BY <2>1, <3>1
  <2> QED BY <2>1, <2>2, EmittedKeeps
<1>2. CASE TryLockSpinning(t)
  BY <1>2, TriedKeeps DEF TryLockSpinning
<1>3. CASE StartToSpin(t)
  <2>1. PICK l \in {"spin", "idle"} : Go(t, l)
    BY <1>3 DEF StartToSpin
  <2> QED BY <1>0, <1>3, <2>1, GoneKeeps DEF StartToSpin
<1>4. CASE Spin(t)
  BY <1>0, <1>4, GoneKeeps DEF Spin
<1>5. CASE Unlock(t)
  <2>1. CASE console_suspended
    BY <1>5, <2>1, MovedUp, OnlyMoves DEF Unlock
  <2>2. CASE ~console_suspended
    BY <1>0, <1>5, <2>2, GoneKeeps DEF Unlock
  <2> QED BY <2>1, <2>2
<1>6. CASE TakeRecord(t)
  <2>1. PICK l \in {"up", "taken"} : pc' = [pc EXCEPT ![t] = l]
    BY <1>6 DEF TakeRecord, Go
  <2>2. InCall'
    BY <1>0, <1>6, <2>1, InCallKept DEF TakeRecord
  <2> QED BY <1>6, <2>2, TakingGives
<1>7. CASE SpinningEnable(t)
  BY <1>0, <1>7, GoneKeeps DEF SpinningEnable
<1>8. CASE WriteOut(t)
  <2>1. PICK l \in {"idle", "loop"} : pc' = [pc EXCEPT ![t] = l]
    BY <1>8 DEF WriteOut, Go
  <2>2. InCall'
    BY <1>0, <1>8, <2>1, InCallKept DEF WriteOut
  <2> QED BY <1>8, <2>2, WritingGives
<1>9. CASE Release(t)
  BY <1>9, MovedUp, OnlyMoves DEF Release
<1>10. CASE Recheck(t)
  <2>1. PICK l \in {"again", "idle"} : Go(t, l)
    BY <1>10 DEF Recheck
  <2> QED BY <1>0, <1>10, <2>1, GoneKeeps DEF Recheck
<1>11. CASE Retry(t)
  BY <1>11, TriedKeeps DEF Retry
<1>12. CASE Lock(t)
  BY <1>12, LockKeeps
<1>13. CASE Register(t)
  BY <1>13, RegisterKeeps
<1>14. CASE ChangeConsole(t)
  <2>1. pc' = [pc EXCEPT ![t] = "unlock"] /\ todo' = [todo EXCEPT ![t] = Tail(@)]
    BY <1>14 DEF ChangeConsole, Go, Returned
  <2>2. \A s \in Contexts : s # t => todo'[s] = todo[s]
    BY <2>1 DEF ListTyped
  <2>3. InCall'
    BY <1>0, <2>1, <2>2, InCallKept
  <2> QED BY <1>14, <2>3, ChangingGives
<1>15. CASE Suspend(t) \/ Resume(t)
  BY <1>15, SuspendKeeps
<1> QED
  BY <1>1, <1>2, <1>3, <1>4, <1>5, <1>6, <1>7, <1>8, <1>9, <1>10, <1>11, <1>12, <1>13,
     <1>14, <1>15 DEF Step, Prints, Writes, Locks

\* So does every step.
LEMMA WriteNext == WriteInv /\ HandInv /\ [Next]_vars => WriteInv'
<1> SUFFICES ASSUME WriteInv, HandInv, [Next]_vars PROVE WriteInv'
  OBVIOUS
<1> USE DEF WriteInv
<1>1. ASSUME NEW t \in Tasks, BeginProgram(t) PROVE WriteInv'
  <2>1. t \in Contexts
    BY DEF Contexts
  <2>2. PICK program \in left :
          todo' = [todo EXCEPT ![t] = program] /\ left' = left \ {program}
    BY <1>1 DEF BeginProgram
  <2>3. /\ pc[t] = "idle" /\ UNCHANGED pc
        /\ UNCHANGED <<listVars, logVars, syslog_seq, text, history>>
    BY <1>1 DEF BeginProgram, Idle
  <2>4. program \in Seq(AnyCall)
    <3>1. program \in Seq(Call) /\ Call \subseteq AnyCall
      BY <2>2 DEF ListTyped, AnyCall
    <3> HIDE DEF AnyCall
    <3> QED BY <3>1
  <2>5. /\ todo' \in [Contexts -> Seq(AnyCall)]
        /\ \A s \in Contexts : s # t => todo'[s] = todo[s]
    BY <2>2, <2>4 DEF ListTyped
  <2>6. InFlight' = InFlight
    BY <2>3 DEF InFlight
  <2>7. \A s \in Contexts : pc'[s] \in {"asleep", "have"} => todo'[s] # <<>>
    BY <2>3, <2>5 DEF InCall
  <2>8. left' \subseteq left
    BY <2>2
  <2> QED BY <2>3, <2>5, <2>6, <2>7, <2>8, OnlyCalls
<1>2. ASSUME NEW t \in Tasks, SayNow(t) \/ SayLater(t) PROVE WriteInv'
  <2>1. t \in Contexts
    BY DEF Contexts
  <2>2. /\ pc[t] = "idle" /\ Store /\ UNCHANGED todo
        /\ pc' = [pc EXCEPT ![t] = "trylock"] \/ UNCHANGED pc
        /\ UNCHANGED <<left, listVars, console_seq, syslog_seq, text, history>>
    BY <1>2 DEF SayNow, SayLater, Emit, Idle, Go
  <2> QED BY <2>1, <2>2, EmittedKeeps
<1>3. CASE \E t \in Contexts : Step(t)
  BY <1>3, StepWrites
<1>4. CASE IrqWorkRuns
  BY <1>4, TriedKeeps DEF IrqWorkRuns, Contexts
<1>5. CASE SyslogRead
  <2>1. /\ syslog_seq < next /\ syslog_seq' = Max({syslog_seq, first}) + 1
        /\ UNCHANGED <<pc, todo, left, listVars, logVars, text, history>>
    BY <1>5 DEF SyslogRead
  <2>2. InFlight' = InFlight
    BY <2>1 DEF InFlight
  <2>3. syslog_seq \in Nat /\ first \in Nat /\ next \in Nat /\ (next # 0 => first < next)
    BY DEF Positions
  <2>4. Max({syslog_seq, first}) \in {syslog_seq, first}
    BY <2>3, MaxOfTwo
  <2>5. syslog_seq' \in Nat /\ syslog_seq' <= next
    BY <2>1, <2>3, <2>4
  <2>6. Positions'
    BY <2>1, <2>5 DEF Positions, listVars, logVars
  <2>7. ListTyped'
    BY <2>1 DEF ListTyped, listVars, history
  <2>8. InCall'
    BY <2>1 DEF InCall
  <2>9. AllGiven'
    <3>1. first' = first /\ first <= first
      BY <2>1, <2>3 DEF logVars
    <3> QED BY <2>1, <2>2, <2>3, <3>1, GivenKept DEF logVars
  <2> QED BY <2>6, <2>7, <2>8, <2>9
<1>6. CASE UNCHANGED vars
  <2>1. UNCHANGED <<pc, todo, left, listVars, logVars, syslog_seq, text, history>>
    BY <1>6 DEF vars
  <2>2. InFlight' = InFlight
    BY <2>1 DEF InFlight
  <2>3. \A s \in Contexts : pc'[s] \in {"asleep", "have"} => todo[s] # <<>>
    BY <2>1 DEF InCall
  <2> QED BY <2>1, <2>2, <2>3, OnlyMoves
<1> QED BY <1>1, <1>2, <1>3, <1>4, <1>5, <1>6 DEF Next

\* What EveryRecordWritten says of a console is part of what WriteInv says.
LEMMA WriteWritten == WriteInv => EveryRecordWritten
<1> SUFFICES ASSUME WriteInv, NEW c \in registered \cap enabled, NEW n \in 0 .. next,
                    owed[c] <= n, n < console_seq
             PROVE  \/ n \in Quiet \cup dropped[c] \/ n \in ToSet(seen[c])
                    \/ OnlyQuietLeft(n) \/ CutShort(c, n)
                    \/ /\ n = text.record \/ n \in text.notice
                       /\ \E t \in Contexts : pc[t] \in {"taken", "writing"}
  BY DEF EveryRecordWritten
<1>1. n \in Nat /\ Past(c, n)
  BY DEF Past
<1>2. Given(c, n)
  BY <1>1 DEF WriteInv, AllGiven
<1>3. ASSUME NEW i \in 1 .. Len(seen[c]), seen[c][i] = n PROVE n \in ToSet(seen[c])
  <2>1. seen[c] \in Seq(Nat)
    BY DEF WriteInv, ListTyped
  <2>2. DOMAIN seen[c] = 1 .. Len(seen[c])
    BY <2>1
  <2> QED BY <1>3, <2>2 DEF ToSet
<1> QED BY <1>2, <1>3 DEF Given, OnTheWay, InFlight

\* The positions in the log, the lists of calls and what every console has a
\* right to fit together in every instance, whatever interrupts a replay.
THEOREM WriteInvariant == Spec => [](HandInv /\ WriteInv)
BY HandInit, HandNext, WriteInit, WriteNext, PTL DEF Spec

\* No console that is enabled misses a record console_unlock() has gone past,
\* unless the record is too quiet, was announced to this console as dropped, was
\* dropped when only quiet ones were left, is too long for text[] or for what an
\* announcement leaves of it, or was left out by a replay that began further on:
\* EveryRecordWritten holds in every instance.
THEOREM EveryRecordAlways == Spec => []EveryRecordWritten
BY WriteInvariant, WriteWritten, PTL

-----------------------------------------------------------------------------
(* Each record once, and in order.                                         *)

\* What a console was given increases and has been gone past, and the record
\* that is under way is the next one.
OrderInv ==
  /\ \A c \in Consoles : \A i, j \in 1 .. Len(seen[c]) : i < j => seen[c][i] < seen[c][j]
  /\ \A c \in Consoles : \A i \in 1 .. Len(seen[c]) : Past(c, seen[c][i])
  /\ InFlight => /\ text.record < console_seq
                 /\ \A c \in Consoles : Receives(c) =>
                      \A i \in 1 .. Len(seen[c]) : seen[c][i] < text.record

\* A replay does not begin before the one before it has come to its end (a
\* replay sets stop_seq to console_seq).
ReplaysInTurn == [][stop_seq' >= stop_seq]_vars

\* The calls but those that suspend the consoles.
CalmCall == {k \in AnyCall : k[1] # "suspend"}

\* Nobody is to suspend the consoles.
NeverSuspends == \A s \in Scenarios : s.programs \subseteq Seq(CalmCall)

\* Nobody has suspended them, or still will.
NoSuspend ==
  /\ ~console_suspended
  /\ todo \in [Contexts -> Seq(CalmCall)]
  /\ left \subseteq Seq(CalmCall)

\* A replay is over when the semaphore is released.
ReplayOver ==
  \/ \E t \in Contexts : pc[t] \in {"unlock", "loop", "taken", "writing"}
  \/ \E t \in Contexts : pc[t] = "spin" /\ ~console_waiter
  \/ stop_seq <= console_seq

\* Past after the step, of a number that has no value of its own then.
PastAfter(c, n) ==
  n < console_seq' \/ (~(exclusive_console' = None \/ exclusive_console' = c) /\ n < stop_seq')

\* It is what OrderInv says of the next state.
LEMMA PastAfterIs ==
  ASSUME \A c \in Consoles : \A i \in 1 .. Len(seen'[c]) : PastAfter(c, seen'[c][i])
  PROVE  (\A c \in Consoles : \A i \in 1 .. Len(seen[c]) : Past(c, seen[c][i]))'
BY DEF PastAfter, Past, Receives

\* Nobody has got anything.
LEMMA OrderInit == Init => OrderInv
<1> SUFFICES ASSUME Init PROVE OrderInv
  OBVIOUS
<1>1. \A c \in Consoles : Len(seen[c]) = 0
  BY DEF Init
<1>2. ~InFlight
  BY DEF Init, InFlight
<1> QED BY <1>1, <1>2 DEF OrderInv

\* What is the same for OrderInv stays in order.
LEMMA OrderStays ==
  ASSUME OrderInv, InFlight' => InFlight,
         UNCHANGED <<seen, console_seq, stop_seq, exclusive_console, text>>
  PROVE  OrderInv'
<1> HIDE DEF InFlight
<1> QED BY DEF OrderInv, Past, Receives

\* A context that moves on does not begin to write a record.
LEMMA NotTaken ==
  ASSUME HandInv, NEW t \in Contexts, NEW label \in Labels,
         pc' = [pc EXCEPT ![t] = label],
         label \in {"taken", "writing"} => pc[t] \in {"taken", "writing"}
  PROVE  InFlight' => InFlight
<1> SUFFICES ASSUME InFlight' PROVE InFlight
  OBVIOUS
<1>1. PICK s \in Contexts : pc'[s] \in {"taken", "writing"}
  BY DEF InFlight
<1>2. pc'[s] = IF s = t THEN label ELSE pc[s]
  BY DEF HandInv, HandTyped
<1>3. pc[s] \in {"taken", "writing"}
  BY <1>1, <1>2
<1> QED BY <1>3 DEF InFlight

\* Nor does one that releases the semaphore, or the one it goes to.
LEMMA NotTakenUp ==
  ASSUME HandInv, NEW t \in Contexts, NEW label \in {"idle", "recheck"}, Up(t, label)
  PROVE  InFlight' => InFlight
<1>1. CASE queue = <<>>
  BY <1>1, NotTaken DEF Up, Go, Labels
<1>2. CASE queue # <<>>
  <2> SUFFICES ASSUME InFlight' PROVE InFlight
    OBVIOUS
  <2> DEFINE h == Head(queue)
  <2>1. pc' = [pc EXCEPT ![t] = label, ![h] = "have"]
    BY <1>2 DEF Up
  <2>2. PICK s \in Contexts : pc'[s] \in {"taken", "writing"}
    BY DEF InFlight
  <2> HIDE DEF h
  <2>3. pc'[s] = pc[s]
    BY <2>1, <2>2 DEF HandInv, HandTyped
  <2> QED BY <2>2, <2>3 DEF InFlight
<1> QED BY <1>1, <1>2

\* console_unlock() takes a record that no console it goes to has got.
LEMMA OrderTakes ==
  ASSUME OrderInv, WriteInv, HandInv, NEW t \in Contexts, TakeRecord(t)
  PROVE  OrderInv'
<1> DEFINE m == NextLoud
<1>1. pc \in [Contexts -> Labels] /\ pc[t] = "loop"
  BY DEF TakeRecord, HandInv, HandTyped
<1>2. ~InFlight
  BY <1>1, OwnerAlone
<1>3. m \in Nat /\ console_seq <= m /\ m <= next
  BY NextLoudIs DEF WriteInv
<1>4. UNCHANGED <<stop_seq, seen>>
  BY DEF TakeRecord, history
<1>5. \/ /\ m = next /\ console_seq' = next /\ UNCHANGED exclusive_console
         /\ pc' = [pc EXCEPT ![t] = "up"]
      \/ /\ text'.record = m /\ console_seq' = m + 1
         /\ exclusive_console' = IF m >= stop_seq THEN None ELSE exclusive_console
  BY DEF TakeRecord, Go
<1> HIDE DEF m
<1>6. console_seq \in Nat /\ stop_seq \in Nat /\ next \in Nat /\ console_seq <= next
  BY DEF WriteInv, Positions
<1>7. ASSUME NEW c \in Consoles, NEW i \in 1 .. Len(seen[c]) PROVE seen[c][i] \in Nat
  <2>1. seen[c] \in Seq(Nat)
    BY DEF WriteInv, ListTyped
  <2> QED BY <2>1
<1>8. ASSUME NEW c \in Consoles, NEW i \in 1 .. Len(seen[c]) PROVE PastAfter(c, seen[c][i])
  <2> DEFINE n == seen[c][i]
  <2>1. Past(c, n) /\ n \in Nat
    BY <1>7 DEF OrderInv
  <2> HIDE DEF n
  <2>2. n < console_seq \/ (~Receives(c) /\ n < stop_seq)
    BY <2>1 DEF Past
  <2>3. n < console_seq => n < console_seq'
    BY <1>3, <1>5, <1>6, <2>1
  <2>4. ASSUME ~Receives(c) /\ n < stop_seq PROVE PastAfter(c, n)
    <3>1. CASE exclusive_console' = exclusive_console
      BY <1>4, <2>4, <3>1 DEF PastAfter, Receives
    <3>2. CASE exclusive_console' # exclusive_console
      <4>1. m >= stop_seq /\ console_seq' = m + 1
        BY <1>5, <3>2
      <4>2. n < console_seq'
        BY <1>3, <1>6, <2>1, <2>4, <4>1
      <4> QED BY <4>2 DEF PastAfter
    <3> QED BY <3>1, <3>2
  <2>5. PastAfter(c, n)
    BY <2>2, <2>3, <2>4 DEF PastAfter
  <2> QED BY <2>5 DEF n
<1>9. CASE pc' = [pc EXCEPT ![t] = "up"]
  <2>1. ~InFlight'
    BY <1>2, <1>9, NotTaken DEF Labels
  <2>2. (\A c \in Consoles : \A i \in 1 .. Len(seen[c]) : Past(c, seen[c][i]))'
    BY <1>4, <1>8, PastAfterIs
  <2> QED BY <1>4, <2>1, <2>2 DEF OrderInv
<1>10. CASE text'.record = m /\ console_seq' = m + 1
            /\ exclusive_console' = IF m >= stop_seq THEN None ELSE exclusive_console
  <2>1. text'.record < console_seq'
    BY <1>3, <1>10
  <2>2. ASSUME NEW c \in Consoles, Receives(c)', NEW i \in 1 .. Len(seen[c])
        PROVE  seen[c][i] < text'.record
    <3> DEFINE n == seen[c][i]
    <3>1. Past(c, n) /\ n \in Nat
      BY <1>7 DEF OrderInv
    <3> HIDE DEF n
    <3>2. n < console_seq \/ (~Receives(c) /\ n < stop_seq)
      BY <3>1 DEF Past
    <3>3. ~Receives(c) => m >= stop_seq
      BY <1>10, <2>2 DEF Receives
    <3>4. n < m
      BY <1>3, <1>6, <3>1, <3>2, <3>3
    <3> QED BY <1>10, <3>4 DEF n
  <2>3. \A c \in Consoles : Receives(c)' => \A i \in 1 .. Len(seen'[c]) : seen'[c][i] < text'.record
    BY <1>4, <2>2
  <2>4. (\A c \in Consoles : \A i \in 1 .. Len(seen[c]) : Past(c, seen[c][i]))'
    BY <1>4, <1>8, PastAfterIs
  <2> QED BY <1>4, <2>1, <2>3, <2>4 DEF OrderInv
<1> QED BY <1>5, <1>9, <1>10

\* The record comes after all a console has got.
LEMMA OrderWrites ==
  ASSUME OrderInv, WriteInv, HandInv, NEW t \in Contexts, WriteOut(t)
  PROVE  OrderInv'
<1> DEFINE x == text.record
<1>1. /\ Written /\ pc[t] = "writing"
      /\ UNCHANGED <<exclusive_console, stop_seq, console_seq, text>>
  BY DEF WriteOut, listVars, logVars
<1>2. x < console_seq /\ x \in Nat /\ console_seq \in Nat
  BY <1>1 DEF OrderInv, InFlight, WriteInv, Positions
<1>3. ASSUME NEW c \in Consoles
      PROVE  /\ \A i, j \in 1 .. Len(seen'[c]) : i < j => seen'[c][i] < seen'[c][j]
             /\ \A i \in 1 .. Len(seen'[c]) : Past(c, seen'[c][i])
  <2> DEFINE q == seen[c]
             k == Len(q)
  <2>1. q \in Seq(Nat) /\ k \in Nat
    BY DEF WriteInv, ListTyped
  <2>2. /\ \A i, j \in 1 .. k : i < j => q[i] < q[j]
        /\ \A i \in 1 .. k : Past(c, q[i])
        /\ Receives(c) => \A i \in 1 .. k : q[i] < x
    BY <1>1 DEF OrderInv, InFlight
  <2>3. /\ Gets(c) /\ Whole => Receives(c) /\ seen'[c] = Append(q, x)
        /\ ~(Gets(c) /\ Whole) => seen'[c] = q
    BY <1>1 DEF Written, Receives, Gets
  <2> HIDE DEF Gets, Whole, x
  <2>4. CASE Gets(c) /\ Whole
    <3> DEFINE r == Append(q, x)
    <3>1. seen'[c] = r
      BY <2>3, <2>4
    <3>2. Len(r) = k + 1 /\ r[k + 1] = x /\ \A i \in 1 .. k : r[i] = q[i]
      BY <1>2, <2>1
    <3>3. \A i \in 1 .. k : q[i] < x
      BY <2>2, <2>3, <2>4
    <3>4. Past(c, x)
      BY <1>2 DEF Past
    <3> HIDE DEF r, q, k
    <3>5. \A i, j \in 1 .. k + 1 : i < j => r[i] < r[j]
      <4> SUFFICES ASSUME NEW i \in 1 .. k + 1, NEW j \in 1 .. k + 1, i < j PROVE r[i] < r[j]
        OBVIOUS
      <4>1. i \in 1 .. k /\ r[i] = q[i]
        BY <2>1, <3>2
      <4>2. CASE j = k + 1
        BY <3>2, <3>3, <4>1, <4>2
      <4>3. CASE j # k + 1
        <5>1. j \in 1 .. k
          BY <2>1, <4>3
        <5> QED BY <2>2, <3>2, <4>1, <5>1
      <4> QED BY <4>2, <4>3
    <3>6. ASSUME NEW i \in 1 .. k + 1 PROVE Past(c, r[i])
      <4>1. CASE i = k + 1
        BY <3>2, <3>4, <4>1
      <4>2. CASE i # k + 1
        <5>1. i \in 1 .. k
          BY <2>1, <4>2
        <5> QED BY <2>2, <3>2, <5>1
      <4> QED BY <4>1, <4>2
    <3> QED BY <3>1, <3>2, <3>5, <3>6
  <2>5. CASE ~(Gets(c) /\ Whole)
    BY <2>2, <2>3, <2>5
  <2> QED BY <2>4, <2>5
<1>4. ~InFlight'
  <2>1. PICK l \in {"idle", "loop"} : pc' = [pc EXCEPT ![t] = l]
    BY DEF WriteOut, Go
  <2>2. \A s \in Contexts : pc'[s] = IF s = t THEN l ELSE pc[s]
    BY <2>1 DEF HandInv, HandTyped
  <2>3. \A s \in Contexts : s # t => pc[s] \notin {"taken", "writing"}
    BY <1>1 DEF HandInv, Handover, Owns, Writing
  <2> QED BY <2>2, <2>3 DEF InFlight
<1>5. (\A c \in Consoles : \A i \in 1 .. Len(seen[c]) : Past(c, seen[c][i]))'
  <2>1. \A c \in Consoles : \A i \in 1 .. Len(seen'[c]) : PastAfter(c, seen'[c][i])
    BY <1>1, <1>3 DEF Past, PastAfter, Receives
  <2> QED BY <2>1, PastAfterIs
<1> QED BY <1>3, <1>4, <1>5 DEF OrderInv

\* A console that is added has got nothing; a replay for it leaves what the
\* others have got behind stop_seq, because the last one has come to its end.
LEMMA OrderRegisters ==
  ASSUME OrderInv, WriteInv, HandInv, NEW t \in Contexts, Register(t), stop_seq' >= stop_seq
  PROVE  OrderInv'
<1> DEFINE c == todo[t][1][2]
<1>1. pc[t] = "have" /\ pc' = [pc EXCEPT ![t] = "unlock"] /\ UNCHANGED <<text, syslog_seq>>
      /\ todo[t][1][1] \in {"register", "take over"}
  BY DEF Register, Go
<1>2. ~InFlight'
  BY <1>1, OwnerAlone, NotTaken DEF Labels
<1>3. c \in Consoles
  <2>1. todo[t] # <<>>
    BY <1>1 DEF WriteInv, InCall
  <2> QED BY <1>1, <2>1, CallIs DEF WriteInv
<1>4. /\ seen' = [seen EXCEPT ![c] = <<>>]
      /\ \/ exclusive_console' = c /\ stop_seq' = console_seq /\ console_seq' = syslog_seq
         \/ UNCHANGED <<exclusive_console, stop_seq, console_seq>>
  BY DEF Register, AddConsole
<1> HIDE DEF c
<1>5. console_seq \in Nat /\ stop_seq \in Nat
  BY DEF WriteInv, Positions
<1>6. seen \in [Consoles -> Seq(Nat)]
  BY DEF WriteInv, ListTyped
<1>7. Len(seen'[c]) = 0
  BY <1>3, <1>4, <1>6
<1>8. ASSUME NEW d \in Consoles, d # c
      PROVE  /\ seen'[d] = seen[d]
             /\ \A i \in 1 .. Len(seen[d]) : PastAfter(d, seen[d][i])
  <2>1. seen'[d] = seen[d]
    BY <1>4, <1>6, <1>8
  <2>2. ASSUME NEW n \in Nat, Past(d, n) PROVE PastAfter(d, n)
    <3>1. n < console_seq \/ (~Receives(d) /\ n < stop_seq)
      BY <2>2 DEF Past
    <3>2. CASE exclusive_console' = c /\ stop_seq' = console_seq
      <4>1. ~(exclusive_console' = None \/ exclusive_console' = d)
        BY <1>3, <1>8, <3>2
      <4>2. n < console_seq
        BY <1>5, <3>1, <3>2
      <4> QED BY <3>2, <4>1, <4>2 DEF PastAfter
    <3>3. CASE UNCHANGED <<exclusive_console, stop_seq, console_seq>>
      BY <3>1, <3>3 DEF Receives, PastAfter
    <3> QED BY <1>4, <3>2, <3>3
  <2>3. ASSUME NEW i \in 1 .. Len(seen[d]) PROVE PastAfter(d, seen[d][i])
    <3>1. seen[d][i] \in Nat /\ Past(d, seen[d][i])
      BY <1>6 DEF OrderInv
    <3> QED BY <2>2, <3>1
  <2> QED BY <2>1, <2>3
<1>9. \A d \in Consoles : \A i, j \in 1 .. Len(seen'[d]) : i < j => seen'[d][i] < seen'[d][j]
  BY <1>7, <1>8 DEF OrderInv
<1>10. (\A d \in Consoles : \A i \in 1 .. Len(seen[d]) : Past(d, seen[d][i]))'
  <2>1. \A d \in Consoles : \A i \in 1 .. Len(seen'[d]) : PastAfter(d, seen'[d][i])
    BY <1>7, <1>8
  <2> QED BY <2>1, PastAfterIs
<1> QED BY <1>2, <1>9, <1>10 DEF OrderInv

\* Every step in which no replay is cut short keeps the order.
LEMMA OrderNext ==
  OrderInv /\ WriteInv /\ HandInv /\ [Next]_vars /\ [stop_seq' >= stop_seq]_vars => OrderInv'
<1> SUFFICES ASSUME OrderInv, WriteInv, HandInv, [Next]_vars, [stop_seq' >= stop_seq]_vars
             PROVE  OrderInv'
  OBVIOUS
<1> DEFINE Same == UNCHANGED <<seen, console_seq, stop_seq, exclusive_console, text>>
<1>0. HandInv => pc \in [Contexts -> Labels] /\ Tasks \subseteq Contexts /\ IrqWork \in Contexts
  BY DEF HandInv, HandTyped, Contexts
<1>1. ASSUME NEW t \in Contexts, NEW label \in Labels \ {"taken", "writing"},
             Go(t, label), Same
      PROVE  OrderInv'
  BY <1>1, NotTaken, OrderStays DEF Go
<1>2. ASSUME UNCHANGED pc, Same PROVE OrderInv'
  <2>1. InFlight' = InFlight
    BY <1>2 DEF InFlight
  <2> QED BY <1>2, <2>1, OrderStays
<1>3. ASSUME NEW t \in Contexts, NEW label \in {"idle", "recheck"}, Up(t, label), Same
      PROVE  OrderInv'
  BY <1>3, NotTakenUp, OrderStays
<1>4. ASSUME NEW t \in Contexts, NEW label \in {"busy", "idle"}, TryLock(t, label), Same
      PROVE  OrderInv'
  <2>1. PICK l \in {"loop", "busy", "idle"} : Go(t, l)
    BY <1>4 DEF TryLock
  <2>2. l \in Labels \ {"taken", "writing"}
    BY DEF Labels
  <2> QED BY <1>1, <1>4, <2>1, <2>2
<1>5. {"idle", "trylock", "busy", "spin", "asleep", "have", "unlock", "loop", "up", "recheck",
       "again"} \subseteq Labels \ {"taken", "writing"}
  BY DEF Labels
<1>6. CASE \E t \in Tasks : BeginProgram(t) \/ SayLater(t)
  <2>1. UNCHANGED pc /\ Same
    BY <1>6 DEF BeginProgram, SayLater, listVars, logVars, history
  <2> QED BY <1>2, <2>1
<1>7. ASSUME NEW t \in Contexts, SayNow(t) \/ Printk(t) PROVE OrderInv'
  <2>1. Go(t, "trylock") /\ Same
    BY <1>7 DEF SayNow, Printk, Emit, listVars, history
  <2> QED BY <1>1, <1>5, <2>1
<1>8. ASSUME NEW t \in Contexts, TryLockSpinning(t) \/ Retry(t) PROVE OrderInv'
  <2>1. (TryLock(t, "busy") \/ TryLock(t, "idle")) /\ Same
    BY <1>8 DEF TryLockSpinning, Retry, listVars, logVars, history
  <2> QED BY <1>4, <2>1
<1>9. ASSUME NEW t \in Contexts, StartToSpin(t) \/ Spin(t) \/ Recheck(t) PROVE OrderInv'
  <2>1. Same
    BY <1>9 DEF StartToSpin, Spin, Recheck, listVars, logVars, history
  <2>2. PICK l \in {"spin", "idle", "loop", "again"} : Go(t, l)
    BY <1>9 DEF StartToSpin, Spin, Recheck
  <2> QED BY <1>1, <1>5, <2>1, <2>2
<1>10. ASSUME NEW t \in Contexts, Unlock(t) \/ Release(t) \/ Suspend(t) PROVE OrderInv'
  <2>1. Same
    BY <1>10 DEF Unlock, Release, Suspend, listVars, logVars, history
  <2>2. Up(t, "idle") \/ Up(t, "recheck") \/ Go(t, "loop")
    BY <1>10 DEF Unlock, Release, Suspend
  <2> QED BY <1>1, <1>3, <1>5, <2>1, <2>2
<1>11. ASSUME NEW t \in Contexts, ChangeConsole(t) \/ Resume(t) PROVE OrderInv'
  <2>1. Go(t, "unlock") /\ Same
    BY <1>11 DEF ChangeConsole, Resume, listVars, logVars, history
  <2> QED BY <1>1, <1>5, <2>1
<1>12. ASSUME NEW t \in Contexts, SpinningEnable(t) PROVE OrderInv'
  <2>1. Go(t, "writing") /\ pc[t] = "taken" /\ Same
    BY <1>12 DEF SpinningEnable, listVars, logVars, history
  <2>2. "writing" \in Labels
    BY DEF Labels
  <2>3. InFlight' => InFlight
    BY <2>1, <2>2, NotTaken DEF Go
  <2> QED BY <2>1, <2>3, OrderStays
<1>13. ASSUME NEW t \in Contexts, Lock(t) PROVE OrderInv'
  <2>1. Same
    BY <1>13 DEF Lock, listVars, logVars, history
  <2>2. UNCHANGED pc \/ Down(t)
    BY <1>13 DEF Lock
  <2>3. UNCHANGED pc \/ Go(t, "asleep") \/ Go(t, "have")
    BY <2>2 DEF Down
  <2> QED BY <1>1, <1>2, <1>5, <2>1, <2>3
<1>14. ASSUME NEW t \in Contexts, Register(t) PROVE OrderInv'
  <2>1. stop_seq' >= stop_seq
    <3>1. CASE UNCHANGED vars
      <4>1. stop_seq' = stop_seq /\ stop_seq \in Nat
        BY <3>1 DEF vars, listVars, WriteInv, Positions
      <4> QED BY <4>1
    <3> QED BY <3>1
  <2> QED BY <1>14, <2>1, OrderRegisters
<1>15. CASE IrqWorkRuns
  <2>1. TryLock(IrqWork, "idle") /\ Same
    BY <1>15 DEF IrqWorkRuns, listVars, logVars, history
  <2> QED BY <1>0, <1>4, <2>1
<1>16. CASE SyslogRead \/ UNCHANGED vars
  <2>1. UNCHANGED pc /\ Same
    BY <1>16 DEF SyslogRead, vars, listVars, logVars, history
  <2> QED BY <1>2, <2>1
<1> HIDE DEF Same
<1>17. ASSUME NEW t \in Contexts, Step(t) PROVE OrderInv'
  BY <1>7, <1>8, <1>9, <1>10, <1>11, <1>12, <1>13, <1>14, <1>17, OrderTakes, OrderWrites
     DEF Step, Prints, Writes, Locks
<1> QED BY <1>0, <1>6, <1>7, <1>15, <1>16, <1>17 DEF Next

\* What InOrder says follows.
LEMMA OrderOrdered == OrderInv /\ WriteInv => InOrder
<1> SUFFICES ASSUME OrderInv, WriteInv, NEW c \in Consoles,
                    NEW i \in DOMAIN seen[c], NEW j \in DOMAIN seen[c], i < j
             PROVE  seen[c][i] < seen[c][j]
  BY DEF InOrder
<1>1. DOMAIN seen[c] = 1 .. Len(seen[c])
  BY DEF WriteInv, ListTyped
<1> QED BY <1>1 DEF OrderInv

\* Each console gets its records in order and none twice, as long as no replay
\* begins while another is not over: InOrder holds in every instance.  (Two
\* consoles that register while the output is suspended break it.)
THEOREM InOrderInTurn == Spec /\ ReplaysInTurn => []InOrder
BY HandInit, HandNext, WriteInit, WriteNext, OrderInit, OrderNext, OrderOrdered, PTL
   DEF Spec, ReplaysInTurn

CalmInv == NoSuspend /\ ReplayOver

\* Nothing is suspended at the start, and nothing replayed.
LEMMA CalmInit == NeverSuspends /\ Init => CalmInv
<1> SUFFICES ASSUME NeverSuspends, Init PROVE CalmInv
  OBVIOUS
<1>1. PICK s \in Scenarios : left = s.programs
  BY DEF Init
<1>2. <<>> \in Seq(CalmCall) /\ left \subseteq Seq(CalmCall)
  BY <1>1 DEF NeverSuspends
<1> QED BY <1>2 DEF Init, CalmInv, NoSuspend, ReplayOver

\* A context takes its next call or has one replaced.
LEMMA CalmTail ==
  ASSUME NoSuspend, NEW t \in Contexts, todo[t] # <<>>
  PROVE  Tail(todo[t]) \in Seq(CalmCall) /\ todo[t] \in Seq(CalmCall) /\ todo[t][1] \in CalmCall
<1> HIDE DEF CalmCall
<1>1. todo[t] \in Seq(CalmCall)
  BY DEF NoSuspend
<1> QED BY <1>1

\* Nobody puts a suspend into a list of calls.
LEMMA NoSuspendNext ==
  ASSUME NoSuspend, WriteInv, HandInv, [Next]_vars
  PROVE  NoSuspend'
<1> DEFINE Calm == [Contexts -> Seq(CalmCall)]
<1>1. ASSUME UNCHANGED <<todo, left, console_suspended>> PROVE NoSuspend'
  BY <1>1 DEF NoSuspend
<1>2. ASSUME NEW t \in Contexts, todo[t] # <<>>, todo' = [todo EXCEPT ![t] = Tail(@)],
             UNCHANGED left, ~console_suspended'
      PROVE  NoSuspend'
  <2>1. Tail(todo[t]) \in Seq(CalmCall)
    BY <1>2, CalmTail
  <2> HIDE DEF CalmCall
  <2> QED BY <1>2, <2>1 DEF NoSuspend
<1>3. ASSUME NEW t \in Tasks, BeginProgram(t) PROVE NoSuspend'
  <2>1. PICK program \in left :
          todo' = [todo EXCEPT ![t] = program] /\ left' = left \ {program}
    BY <1>3 DEF BeginProgram
  <2> HIDE DEF CalmCall
  <2> QED BY <1>3, <2>1 DEF NoSuspend, BeginProgram
<1>4. ASSUME NEW t \in Contexts, Printk(t) PROVE NoSuspend'
  BY <1>2, <1>4 DEF Printk, Calls, Emit, Returned, NoSuspend
<1>5. ASSUME NEW t \in Contexts, Suspend(t) PROVE FALSE
  <2>1. pc[t] = "have" /\ todo[t][1][1] = "suspend"
    BY <1>5 DEF Suspend
  <2>2. todo[t] # <<>>
    BY <2>1 DEF WriteInv, InCall
  <2> QED BY <2>1, <2>2, CalmTail DEF CalmCall
<1>6. ASSUME NEW t \in Contexts, Resume(t) \/ ChangeConsole(t) PROVE NoSuspend'
  <2>1. /\ pc[t] = "have" /\ todo' = [todo EXCEPT ![t] = Tail(@)]
        /\ UNCHANGED left /\ ~console_suspended'
    BY <1>6 DEF Resume, ChangeConsole, Returned, NoSuspend
  <2>2. todo[t] # <<>>
    BY <2>1 DEF WriteInv, InCall
  <2> QED BY <1>2, <2>1, <2>2
<1>7. ASSUME NEW t \in Contexts, Lock(t) PROVE NoSuspend'
  <2> DEFINE c == todo[t][1][2]
  <2>1. todo[t] # <<>> /\ UNCHANGED left /\ ~console_suspended'
    BY <1>7 DEF Lock, NoSuspend
  <2>2. \/ todo' = [todo EXCEPT ![t] = Tail(@)]
        \/ todo' = [todo EXCEPT ![t][1] = <<"take over", c>>] /\ todo[t][1][1] = "register"
        \/ UNCHANGED todo
    BY <1>7 DEF Lock, Returned
  <2>3. CASE todo' = [todo EXCEPT ![t][1] = <<"take over", c>>] /\ todo[t][1][1] = "register"
    <3> DEFINE new == [todo[t] EXCEPT ![1] = <<"take over", c>>]
    <3>1. todo' = [todo EXCEPT ![t] = new]
      BY <2>3
    <3>2. c \in Consoles
      BY <2>1, <2>3, CallIs DEF WriteInv
    <3>3. <<"take over", c>> \in CalmCall
      BY <3>2 DEF CalmCall, AnyCall
    <3>4. new \in Seq(CalmCall)
      BY <2>1, <3>3, CalmTail, FirstReplaced
    <3> HIDE DEF new, CalmCall
    <3> QED BY <2>1, <3>1, <3>4 DEF NoSuspend
  <2>4. CASE UNCHANGED todo
    BY <2>1, <2>4 DEF NoSuspend
  <2> QED BY <1>2, <2>1, <2>2, <2>3, <2>4
<1>8. ASSUME NEW t \in Contexts, Register(t) PROVE NoSuspend'
  <2>1. /\ pc[t] = "have" /\ UNCHANGED left /\ ~console_suspended'
    BY <1>8 DEF Register, NoSuspend
  <2>2. todo[t] # <<>>
    BY <2>1 DEF WriteInv, InCall
  <2>3. \/ todo' = [todo EXCEPT ![t] = <<Say>> \o <<>> \o Tail(@)]
        \/ todo' = [todo EXCEPT ![t] = <<Say>> \o Removals \o Tail(@)]
    BY <1>8 DEF Register, AddConsole
  <2>4. Removals \in Seq(CalmCall)
    <3> DEFINE k == Cardinality(registered)
    <3>1. IsFiniteSet(registered)
      BY FS_Subset DEF WriteInv, ListTyped
    <3>2. k \in Nat
      BY <3>1, FS_CardinalityType
    <3>3. Removals \in Seq(AnyCall)
      BY RemovalsAreCalls DEF WriteInv, ListTyped
    <3>4. DOMAIN Removals = 1 .. 2 * k /\ \A i \in 1 .. 2 * k : Removals[i][1] \in {"print", "unregister"}
      BY DEF Removals, Say
    <3> HIDE DEF k, AnyCall
    <3>5. \A i \in 1 .. 2 * k : Removals[i] \in AnyCall
      <4>1. \A S : \A q \in Seq(S) : \A i \in DOMAIN q : q[i] \in S
        OBVIOUS
      <4> QED BY <3>3, <3>4, <4>1
    <3>6. \A i \in 1 .. 2 * k : Removals[i] \in CalmCall
      BY <3>4, <3>5 DEF CalmCall
    <3>7. Removals = [i \in 1 .. 2 * k |-> Removals[i]]
      BY <3>4 DEF Removals, k
    <3> HIDE DEF CalmCall
    <3>8. Removals \in [1 .. 2 * k -> CalmCall]
      BY <3>6, <3>7
    <3> QED BY <3>2, <3>8, IsASeq
  <2>5. Say \in CalmCall
    BY DEF CalmCall, AnyCall, Call, Say
  <2>6. Tail(todo[t]) \in Seq(CalmCall)
    BY <2>2, CalmTail
  <2> HIDE DEF CalmCall
  <2>7. <<Say>> \o <<>> \o Tail(todo[t]) \in Seq(CalmCall)
    BY <2>5, <2>6
  <2>8. <<Say>> \o Removals \o Tail(todo[t]) \in Seq(CalmCall)
    BY <2>4, <2>5, <2>6
  <2> QED BY <2>1, <2>3, <2>7, <2>8 DEF NoSuspend
<1>9. ASSUME NEW t \in Contexts, Step(t) PROVE NoSuspend'
  <2>1. UNCHANGED <<todo, left, console_suspended>> \/ Printk(t) \/ Suspend(t) \/ Resume(t)
          \/ ChangeConsole(t) \/ Lock(t) \/ Register(t)
    BY <1>9 DEF Step, Prints, Writes, Locks, TryLockSpinning, StartToSpin, Spin, Unlock,
                TakeRecord, SpinningEnable, WriteOut, Release, Recheck, Retry
  <2> QED BY <1>1, <1>4, <1>5, <1>6, <1>7, <1>8, <2>1
<1>10. CASE (\E t \in Tasks : SayNow(t) \/ SayLater(t)) \/ IrqWorkRuns \/ SyslogRead
            \/ UNCHANGED vars
  BY <1>1, <1>10 DEF SayNow, SayLater, Emit, IrqWorkRuns, SyslogRead, vars
<1> QED BY <1>3, <1>9, <1>10 DEF Next

\* The replay goes on, or is over, when a context moves on without the
\* semaphore, or on its way through the writing.
LEMMA OverStays ==
  ASSUME ReplayOver, HandInv, NEW t \in Contexts, NEW label \in Labels,
         pc' = [pc EXCEPT ![t] = label],
         pc[t] \in {"unlock", "loop", "taken", "writing"} =>
           label \in {"unlock", "loop", "taken", "writing"},
         pc[t] = "spin" => label = "loop",
         UNCHANGED <<console_waiter, stop_seq, console_seq>>
  PROVE  ReplayOver'
<1>1. \A s \in Contexts : pc'[s] = IF s = t THEN label ELSE pc[s]
  BY DEF HandInv, HandTyped
<1>2. ASSUME NEW s \in Contexts, pc[s] \in {"unlock", "loop", "taken", "writing"} PROVE ReplayOver'
  <2>1. pc'[s] \in {"unlock", "loop", "taken", "writing"}
    BY <1>1, <1>2
  <2> QED BY <2>1 DEF ReplayOver
<1>3. ASSUME NEW s \in Contexts, pc[s] = "spin", ~console_waiter PROVE ReplayOver'
  <2>1. pc'[s] = "loop" \/ (pc'[s] = "spin" /\ ~console_waiter')
    BY <1>1, <1>3
  <2> QED BY <2>1 DEF ReplayOver
<1>4. CASE stop_seq <= console_seq
  BY <1>4 DEF ReplayOver
<1> QED BY <1>2, <1>3, <1>4 DEF ReplayOver

\* Whoever owns the semaphore without writing finds the replay over.
LEMMA OverForOwner ==
  ASSUME ReplayOver, HandInv, NEW t \in Contexts, pc[t] \in {"have", "up"}
  PROVE  stop_seq <= console_seq
BY DEF ReplayOver, HandInv, Handover, Owns, Writing

\* console_unlock() leaves its loop when everything is written.
LEMMA OverNext ==
  ASSUME NoSuspend, ReplayOver, WriteInv, HandInv, [Next]_vars
  PROVE  ReplayOver'
<1> DEFINE Same == UNCHANGED <<console_waiter, stop_seq, console_seq>>
           Loop == {"unlock", "loop", "taken", "writing"}
<1>0. HandInv => pc \in [Contexts -> Labels] /\ Tasks \subseteq Contexts /\ IrqWork \in Contexts
  BY DEF HandInv, HandTyped, Contexts
<1>1. ASSUME UNCHANGED pc, Same PROVE ReplayOver'
  BY <1>1 DEF ReplayOver
<1>2. ASSUME NEW t \in Contexts, NEW label \in Labels, Go(t, label), Same,
             pc[t] \in Loop => label \in Loop, pc[t] # "spin"
      PROVE  ReplayOver'
  BY <1>2, OverStays DEF Go
<1>3. ASSUME NEW t \in Contexts, NEW label \in {"busy", "idle"}, TryLock(t, label), Same,
             pc[t] \in {"idle", "trylock", "again"}
      PROVE  ReplayOver'
  <2>1. PICK l \in {"loop", "busy", "idle"} : Go(t, l)
    BY <1>3 DEF TryLock
  <2>2. l \in Labels
    BY DEF Labels
  <2> QED BY <1>2, <1>3, <2>1, <2>2
<1>4. {"idle", "trylock", "busy", "spin", "asleep", "have", "unlock", "loop", "taken", "writing",
       "up", "recheck", "again"} = Labels
  BY DEF Labels
<1>5. ASSUME NEW t \in Contexts, pc'[t] \in Loop PROVE ReplayOver'
  BY <1>5 DEF ReplayOver
<1> HIDE DEF Loop
<1>6. ASSUME NEW t \in Contexts, NEW label \in Loop, Go(t, label) PROVE ReplayOver'
  <2>1. pc'[t] = label
    BY <1>0, <1>6 DEF Go
  <2> QED BY <1>5, <2>1
<1>7. CASE \E t \in Tasks : BeginProgram(t) \/ SayLater(t)
  <2>1. UNCHANGED pc /\ Same
    BY <1>7 DEF BeginProgram, SayLater, listVars, logVars, handVars
  <2> QED BY <1>1, <2>1
<1>8. ASSUME NEW t \in Contexts, SayNow(t) \/ Printk(t) PROVE ReplayOver'
  <2>1. Go(t, "trylock") /\ pc[t] = "idle" /\ Same
    BY <1>8 DEF SayNow, Printk, Idle, Calls, Emit, listVars, handVars
  <2> QED BY <1>2, <1>4, <2>1 DEF Loop
<1>9. ASSUME NEW t \in Contexts, TryLockSpinning(t) \/ Retry(t) PROVE ReplayOver'
  <2>1. /\ TryLock(t, "busy") \/ TryLock(t, "idle")
        /\ pc[t] \in {"idle", "trylock", "again"} /\ Same
    BY <1>9 DEF TryLockSpinning, Retry, listVars, logVars, handVars
  <2> QED BY <1>3, <2>1
<1>10. ASSUME NEW t \in Contexts, Spin(t) PROVE ReplayOver'
  BY <1>6, <1>10 DEF Spin, Loop
<1>11. ASSUME NEW t \in Contexts, StartToSpin(t) PROVE ReplayOver'
  <2>1. /\ pc[t] = "busy" /\ UNCHANGED <<stop_seq, console_seq>>
        /\ \/ console_owner \notin {None, t} /\ ~console_waiter /\ Go(t, "spin")
           \/ UNCHANGED console_waiter /\ Go(t, "idle")
    BY <1>11 DEF StartToSpin, listVars, logVars
  <2>2. CASE UNCHANGED console_waiter /\ Go(t, "idle")
    BY <1>2, <1>4, <2>1, <2>2 DEF Loop
  <2>3. CASE console_owner \notin {None, t} /\ ~console_waiter /\ Go(t, "spin")
    <3>1. PICK w \in Contexts : pc[w] = "writing"
      BY <2>3 DEF HandInv, HandTyped, Handover
    <3>2. pc'[w] = "writing"
      BY <1>0, <2>1, <2>3, <3>1 DEF Go
    <3> QED BY <1>5, <3>2 DEF Loop
  <2> QED BY <2>1, <2>2, <2>3
<1>12. ASSUME NEW t \in Contexts, Recheck(t) PROVE ReplayOver'
  <2>1. pc[t] = "recheck" /\ Same /\ (Go(t, "again") \/ Go(t, "idle"))
    BY <1>12 DEF Recheck, listVars, logVars, handVars
  <2> QED BY <1>2, <1>4, <2>1 DEF Loop
<1>13. ASSUME NEW t \in Contexts, Unlock(t) PROVE ReplayOver'
  BY <1>6, <1>13 DEF Unlock, NoSuspend, Loop
<1>14. ASSUME NEW t \in Contexts, TakeRecord(t) PROVE ReplayOver'
  <2>1. \/ Go(t, "taken")
        \/ console_seq' = next /\ UNCHANGED stop_seq
    BY <1>14 DEF TakeRecord
  <2>2. ASSUME console_seq' = next, UNCHANGED stop_seq PROVE ReplayOver'
    BY <2>2 DEF ReplayOver, WriteInv, Positions
  <2> QED BY <1>6, <2>1, <2>2 DEF Loop
<1>15. ASSUME NEW t \in Contexts, SpinningEnable(t) PROVE ReplayOver'
  BY <1>6, <1>15 DEF SpinningEnable, Loop
<1>16. ASSUME NEW t \in Contexts, WriteOut(t) PROVE ReplayOver'
  <2>1. /\ pc[t] = "writing" /\ console_waiter' = FALSE
        /\ Go(t, IF console_waiter THEN "idle" ELSE "loop")
    BY <1>16 DEF WriteOut
  <2>2. CASE console_waiter
    <3>1. PICK s \in Contexts : pc[s] = "spin"
      BY <2>2 DEF HandInv, Handover
    <3>2. pc'[s] = "spin"
      BY <1>0, <2>1, <3>1 DEF Go
    <3> QED BY <2>1, <3>2 DEF ReplayOver
  <2>3. CASE ~console_waiter
    BY <1>6, <2>1, <2>3 DEF Loop
  <2> QED BY <2>2, <2>3
<1>17. ASSUME NEW t \in Contexts, Release(t) PROVE ReplayOver'
  <2>1. pc[t] = "up" /\ UNCHANGED <<stop_seq, console_seq>>
    BY <1>17 DEF Release, listVars, logVars
  <2>2. stop_seq <= console_seq
    BY <2>1, OverForOwner
  <2> QED BY <2>1, <2>2 DEF ReplayOver
<1>18. ASSUME NEW t \in Contexts, Suspend(t) PROVE ReplayOver'
  <2>1. pc[t] = "have" /\ UNCHANGED <<stop_seq, console_seq>>
    BY <1>18 DEF Suspend, listVars, logVars
  <2>2. stop_seq <= console_seq
    BY <2>1, OverForOwner
  <2> QED BY <2>1, <2>2 DEF ReplayOver
<1>19. ASSUME NEW t \in Contexts, Register(t) \/ ChangeConsole(t) \/ Resume(t) PROVE ReplayOver'
  BY <1>6, <1>19 DEF Register, ChangeConsole, Resume, Loop
<1>20. ASSUME NEW t \in Contexts, Lock(t) PROVE ReplayOver'
  <2>1. pc[t] = "idle" /\ Same
    BY <1>20 DEF Lock, listVars, logVars, handVars
  <2>2. UNCHANGED pc \/ Down(t)
    BY <1>20 DEF Lock
  <2>3. UNCHANGED pc \/ Go(t, "asleep") \/ Go(t, "have")
    BY <2>2 DEF Down
  <2> QED BY <1>1, <1>2, <1>4, <2>1, <2>3 DEF Loop
<1>21. CASE IrqWorkRuns
  <2>1. TryLock(IrqWork, "idle") /\ pc[IrqWork] = "idle" /\ Same
    BY <1>21 DEF IrqWorkRuns, listVars, logVars, handVars
  <2> QED BY <1>0, <1>3, <2>1
<1>22. CASE SyslogRead \/ UNCHANGED vars
  <2>1. UNCHANGED pc /\ Same
    BY <1>22 DEF SyslogRead, vars, listVars, logVars, handVars
  <2> QED BY <1>1, <2>1
<1> HIDE DEF Same
<1>23. ASSUME NEW t \in Contexts, Step(t) PROVE ReplayOver'
  BY <1>8, <1>9, <1>10, <1>11, <1>12, <1>13, <1>14, <1>15, <1>16, <1>17, <1>18, <1>19, <1>20,
     <1>23 DEF Step, Prints, Writes, Locks
<1> QED BY <1>0, <1>7, <1>8, <1>21, <1>22, <1>23 DEF Next

\* A replay that begins finds the one before it over.
LEMMA CalmInTurn ==
  ASSUME CalmInv, WriteInv, HandInv, [Next]_vars
  PROVE  stop_seq' >= stop_seq
<1>0. stop_seq \in Nat
  BY DEF WriteInv, Positions
<1>1. ASSUME UNCHANGED stop_seq PROVE stop_seq' >= stop_seq
  BY <1>0, <1>1
<1>2. ASSUME NEW t \in Contexts, Register(t) PROVE stop_seq' >= stop_seq
  <2>1. pc[t] = "have" /\ (UNCHANGED stop_seq \/ stop_seq' = console_seq)
    BY <1>2 DEF Register, AddConsole
  <2>2. stop_seq <= console_seq
    BY <2>1, OverForOwner DEF CalmInv
  <2> QED BY <1>0, <2>1, <2>2 DEF WriteInv, Positions
<1>3. ASSUME NEW t \in Contexts, Step(t) PROVE stop_seq' >= stop_seq
  <2>1. UNCHANGED stop_seq \/ Register(t)
    BY <1>3 DEF Step, Prints, Writes, Locks, Printk, Emit, TryLockSpinning, StartToSpin, Spin,
                Unlock, TakeRecord, SpinningEnable, WriteOut, Release, Recheck, Retry, Lock,
                ChangeConsole, Suspend, Resume, listVars
  <2> QED BY <1>1, <1>2, <2>1
<1>4. CASE (\E t \in Tasks : BeginProgram(t) \/ SayNow(t) \/ SayLater(t)) \/ IrqWorkRuns
           \/ SyslogRead \/ UNCHANGED vars
  <2>1. UNCHANGED stop_seq
    BY <1>4 DEF BeginProgram, SayNow, SayLater, Emit, IrqWorkRuns, SyslogRead, vars, listVars
  <2> QED BY <1>1, <2>1
<1> QED BY <1>3, <1>4 DEF Next

\* No step suspends the consoles or cuts a replay short.
LEMMA CalmNext ==
  CalmInv /\ OrderInv /\ WriteInv /\ HandInv /\ [Next]_vars => CalmInv' /\ OrderInv'
<1> SUFFICES ASSUME CalmInv, OrderInv, WriteInv, HandInv, [Next]_vars
             PROVE  CalmInv' /\ OrderInv'
  OBVIOUS
<1>1. [stop_seq' >= stop_seq]_vars
  BY CalmInTurn
<1> QED BY <1>1, OrderNext, NoSuspendNext, OverNext DEF CalmInv

\* Where nobody suspends the consoles every replay is written out before the
\* semaphore is released: InOrder holds however many consoles register.
THEOREM InOrderUnlessSuspended ==
  ASSUME NeverSuspends
  PROVE  Spec => []InOrder
BY HandInit, HandNext, WriteInit, WriteNext, OrderInit, CalmInit, CalmNext, OrderOrdered, PTL
   DEF Spec

-----------------------------------------------------------------------------
(* Nothing is left behind.                                                 *)

\* A record that has not been written is somebody's business: of the owner of
\* the semaphore, of a context that is about to try to take it, of the pending
\* irq_work, or of whoever resumes the consoles.
Watchful == {"trylock", "recheck", "again"}
Attended ==
  console_seq # next =>
    \/ locked \/ console_suspended \/ pending
    \/ \E t \in Contexts : pc[t] \in Watchful

\* When nobody is in a call any more, no irq_work is pending and the consoles
\* are not suspended, everything that was stored has been written out.
NothingForgotten ==
  (\A t \in Contexts : pc[t] = "idle") /\ ~pending /\ ~console_suspended =>
    console_seq = next

LEMMA AttendedInit == Init => Attended
BY DEF Init, Attended

\* Whoever owns the semaphore, it is down.
LEMMA OwnedIsLocked ==
  ASSUME HandInv, NEW t \in Contexts, pc[t] \in Writing \cup {"have"}
  PROVE  locked
BY DEF HandInv, Handover, Owns

\* A context that is none of those who watch moves, and the semaphore stays as
\* it is.
LEMMA OthersWatch ==
  ASSUME HandInv, Attended, NEW t \in Contexts, NEW label, pc[t] \notin Watchful,
         pc' = [pc EXCEPT ![t] = label],
         UNCHANGED <<locked, console_suspended, pending, console_seq, next>>
  PROVE  Attended'
<1>1. pc \in [Contexts -> Labels]
  BY DEF HandInv, HandTyped
<1>2. ASSUME NEW s \in Contexts, pc[s] \in Watchful PROVE pc'[s] \in Watchful
  BY <1>1, <1>2
<1> QED BY <1>2 DEF Attended

\* console_trylock() fails only if somebody else has the semaphore, or is to
\* resume the consoles.
LEMMA TriedAttended ==
  ASSUME HandInv, NEW t \in Contexts, NEW label, TryLock(t, label),
         UNCHANGED console_suspended
  PROVE  Attended'
<1>1. CASE ~locked /\ ~console_suspended
  BY <1>1 DEF TryLock, Attended
<1>2. CASE ~(~locked /\ ~console_suspended)
  <2>1. locked' = locked /\ console_suspended' = console_suspended
    BY <1>2 DEF TryLock, semVars
  <2>2. locked \in BOOLEAN
    BY DEF HandInv, HandTyped
  <2>3. locked \/ console_suspended
    BY <1>2
  <2> QED BY <2>1, <2>3 DEF Attended
<1> QED BY <1>1, <1>2

\* Whoever releases the semaphore looks at the log again, unless nothing may
\* be written.
LEMMA ReleasedAttended ==
  ASSUME HandInv, NEW t \in Contexts, NEW label, Up(t, label), locked,
         label = "recheck" \/ console_suspended'
  PROVE  Attended'
<1>1. pc \in [Contexts -> Labels] /\ queue \in Seq(Contexts)
  BY DEF HandInv, HandTyped
<1>2. CASE queue = <<>>
  <2>1. pc' = [pc EXCEPT ![t] = label]
    BY <1>2 DEF Up, Go
  <2>2. pc'[t] = label
    BY <1>1, <2>1
  <2> QED BY <2>2 DEF Attended, Watchful
<1>3. CASE queue # <<>>
  BY <1>3 DEF Up, Attended
<1> QED BY <1>2, <1>3

LEMMA StepAttended ==
  ASSUME HandInv, Attended, NEW t \in Contexts, Step(t)
  PROVE  Attended'
<1>0. pc \in [Contexts -> Labels]
  BY DEF HandInv, HandTyped
<1>1. CASE Printk(t)
  <2>1. pc' = [pc EXCEPT ![t] = "trylock"]
    BY <1>1 DEF Printk, Emit, Go
  <2>2. pc'[t] = "trylock"
    BY <1>0, <2>1
  <2> QED BY <2>2 DEF Attended, Watchful
<1>2. CASE TryLockSpinning(t)
  BY <1>2, TriedAttended DEF TryLockSpinning
<1>3. CASE StartToSpin(t)
  <2>1. PICK label : pc' = [pc EXCEPT ![t] = label]
    BY <1>3 DEF StartToSpin, Go
  <2> QED BY <1>3, <2>1, OthersWatch DEF StartToSpin, semVars, logVars, Watchful
<1>4. CASE Spin(t)
  BY <1>4, OthersWatch DEF Spin, Go, semVars, logVars, Watchful
<1>5. CASE Unlock(t)
  <2>1. locked
    BY <1>5, OwnedIsLocked DEF Unlock, Writing
  <2>2. CASE console_suspended
    BY <1>5, <2>1, <2>2, ReleasedAttended DEF Unlock
  <2>3. CASE ~console_suspended
    BY <1>5, <2>1, <2>3 DEF Unlock, semVars, Attended
  <2> QED BY <2>2, <2>3
<1>6. CASE TakeRecord(t) \/ SpinningEnable(t) \/ WriteOut(t)
  <2>1. locked
    BY <1>6, OwnedIsLocked DEF TakeRecord, SpinningEnable, WriteOut, Writing
  <2>2. locked' = locked
    BY <1>6 DEF TakeRecord, SpinningEnable, WriteOut, semVars
  <2> QED BY <2>1, <2>2 DEF Attended
<1>7. CASE Release(t)
  <2>1. locked
    BY <1>7, OwnedIsLocked DEF Release, Writing
  <2> QED BY <1>7, <2>1, ReleasedAttended DEF Release
<1>8. CASE Recheck(t)
  <2>1. CASE console_seq # next
    <3>1. pc' = [pc EXCEPT ![t] = "again"]
      BY <1>8, <2>1 DEF Recheck, Go
    <3>2. pc'[t] = "again"
      BY <1>0, <3>1
    <3> QED BY <3>2 DEF Attended, Watchful
  <2>2. CASE console_seq = next
    BY <1>8, <2>2 DEF Recheck, logVars, Attended
  <2> QED BY <2>1, <2>2
<1>9. CASE Retry(t)
  BY <1>9, TriedAttended DEF Retry
<1>10. CASE Lock(t)
  <2>1. CASE UNCHANGED <<pc, semVars>>
    BY <1>10, <2>1 DEF Lock, logVars, semVars, Attended
  <2>2. CASE Down(t)
    <3>1. CASE locked
      BY <1>10, <2>2, <3>1 DEF Down, Attended
    <3>2. CASE ~locked
      BY <2>2, <3>2 DEF Down, Attended
    <3> QED BY <3>1, <3>2
  <2> QED BY <1>10, <2>1, <2>2 DEF Lock
<1>11. CASE Register(t) \/ ChangeConsole(t) \/ Resume(t)
  <2>1. locked
    BY <1>11, OwnedIsLocked DEF Register, ChangeConsole, Resume
  <2>2. locked' = locked
    BY <1>11 DEF Register, ChangeConsole, Resume, semVars
  <2> QED BY <2>1, <2>2 DEF Attended
<1>12. CASE Suspend(t)
  <2>1. locked
    BY <1>12, OwnedIsLocked DEF Suspend
  <2> QED BY <1>12 DEF Suspend, Attended
<1> QED
  BY <1>1, <1>2, <1>3, <1>4, <1>5, <1>6, <1>7, <1>8, <1>9, <1>10, <1>11, <1>12
  DEF Step, Prints, Writes, Locks

LEMMA AttendedNext == HandInv /\ Attended /\ [Next]_vars => Attended'
<1> SUFFICES ASSUME HandInv, Attended, [Next]_vars PROVE Attended'
  OBVIOUS
<1>0. pc \in [Contexts -> Labels]
  BY DEF HandInv, HandTyped
<1>1. ASSUME NEW t \in Tasks, BeginProgram(t) PROVE Attended'
  BY <1>1 DEF BeginProgram, semVars, logVars, Attended
<1>2. ASSUME NEW t \in Tasks, SayNow(t) PROVE Attended'
  <2>1. t \in Contexts
    BY DEF Contexts
  <2>2. pc' = [pc EXCEPT ![t] = "trylock"]
    BY <1>2 DEF SayNow, Emit, Go
  <2>3. pc'[t] = "trylock"
    BY <1>0, <2>1, <2>2
  <2> QED BY <2>1, <2>3 DEF Attended, Watchful
<1>3. ASSUME NEW t \in Tasks, SayLater(t) PROVE Attended'
  BY <1>3 DEF SayLater, Attended
<1>4. ASSUME NEW t \in Contexts, Step(t) PROVE Attended'
  BY <1>4, StepAttended
<1>5. CASE IrqWorkRuns
  <2>1. IrqWork \in Contexts
    BY DEF Contexts
  <2> QED BY <1>5, <2>1, TriedAttended DEF IrqWorkRuns
<1>6. CASE SyslogRead
  BY <1>6 DEF SyslogRead, semVars, logVars, Attended
<1>7. CASE UNCHANGED vars
  BY <1>7 DEF vars, semVars, logVars, Attended
<1> QED BY <1>1, <1>2, <1>3, <1>4, <1>5, <1>6, <1>7 DEF Next

\* A record that was stored while somebody else owned the semaphore, after the
\* last look at the log, by a context that may not print itself, or while the
\* consoles were suspended: at every moment somebody is still to write it.
THEOREM AttendedAlways == Spec => []Attended
BY AttendedInit, AttendedNext, HandInvariant, PTL DEF Spec

\* So output never stops with a record left in the log: this is the safety half
\* of AllOut, and needs no fairness.
THEOREM NothingForgottenAlways == Spec => []NothingForgotten
<1>1. HandInv /\ Attended => NothingForgotten
  <2> SUFFICES ASSUME HandInv, Attended, \A t \in Contexts : pc[t] = "idle", ~pending,
                      ~console_suspended
               PROVE  console_seq = next
    BY DEF NothingForgotten
  <2>1. ~locked
    BY DEF HandInv, Handover, Owns, Writing
  <2> QED BY <2>1 DEF Attended, Watchful
<1> QED BY <1>1, HandInvariant, AttendedAlways, PTL
=============================================================================

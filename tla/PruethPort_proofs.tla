-------------------------- MODULE PruethPort_proofs --------------------------
(***************************************************************************)
(* What PruethPort promises, for every set of bridges, whatever interrupts *)
(* are wired, whatever firmware there is, and whatever step of opening a   *)
(* port may fail.                                                          *)
(***************************************************************************)
EXTENDS PruethPort, TLAPS

Common == <<0, "lre">>
Lines == (Ports \X Irqs) \cup {Common}
Device ==
  [eth_type : Modes, configured : SUBSET Ports, prus : SUBSET Ports, iep : Int,
   irqs : SUBSET Lines, napi : SUBSET (Ports \cup {0}), hung : BOOLEAN,
   wiped : BOOLEAN, strays : SUBSET Lines]
Fields == {"eth_type", "configured", "prus", "iep", "irqs", "napi", "hung", "wiped", "strays"}

\* The fields of the device other than those of F.
Kept(d, e, F) == \A f \in Fields \ F : e[f] = d[f]

-----------------------------------------------------------------------------
(* The interrupts of a port.                                               *)

Names(t) ==
  CASE t = "EMAC" -> Wired
    [] t = "SWITCH" -> Wired \ {"tx"}
    [] OTHER -> Wired \cap {"ptp"}
Own(t, p) == {<<p, name>> : name \in Names(t)}

\* Those of the open ports, and the common one.
IrqsOf(t, open) ==
  {x \in Lines : \/ x = Common /\ t \in Offloads /\ open # {}
                 \/ \E q \in open : x \in Own(t, q)}

LEMMA OwnIs ==
  ASSUME NEW t, NEW p \in Ports
  PROVE  /\ Own(t, p) \subseteq Lines /\ Common \notin Own(t, p)
         /\ \A q \in Ports \ {p} : Own(t, p) \cap Own(t, q) = {}
         /\ \A x \in Own(t, p) : \E name \in Irqs : x = <<p, name>>
         /\ \A name : <<p, name>> \in Own(t, p) => name \in Irqs
  <1>1. Names(t) \subseteq Irqs BY PortAssumption DEF Names
  <1>2. p # 0 BY DEF Ports
  <1>3. \A x \in Own(t, p) : \E name \in Irqs : x = <<p, name>> BY <1>1 DEF Own
  <1>4. Own(t, p) \subseteq Lines BY <1>3 DEF Lines
  <1>5. Common \notin Own(t, p) BY <1>2 DEF Own, Common
  <1>6. \A q \in Ports \ {p} : Own(t, p) \cap Own(t, q) = {} BY DEF Own
  <1>7. \A name : <<p, name>> \in Own(t, p) => name \in Irqs BY <1>1 DEF Own
  <1> QED BY <1>3, <1>4, <1>5, <1>6, <1>7

LEMMA NeededIs ==
  ASSUME NEW d, NEW p \in Ports
  PROVE  /\ Needed(d, p) = Own(d.eth_type, p) \cup IF Lre(d) /\ Alone(d) THEN {Common} ELSE {}
         /\ Needed(d, p) \ {Common} = Own(d.eth_type, p)
         /\ Needed(d, p) \subseteq Lines
  <1>1. Needed(d, p) = Own(d.eth_type, p) \cup IF Lre(d) /\ Alone(d) THEN {Common} ELSE {}
    BY DEF Needed, Own, Names, Common
  <1> QED BY <1>1, OwnIs DEF Lines

LEMMA HeldIs ==
  ASSUME NEW d \in Device
  PROVE  Held(d) <=>
           /\ d.prus = IF d.eth_type = "EMAC" \/ d.configured = {} THEN d.configured ELSE Ports
           /\ d.iep = IF d.configured = {} THEN 0 ELSE 1
           /\ d.irqs = IrqsOf(d.eth_type, d.configured)
           /\ d.napi = IF Lre(d) THEN (IF d.configured = {} THEN {} ELSE {0}) ELSE d.configured
  <1> DEFINE open == d.configured
             lre == IF Lre(d) /\ open # {} THEN {Common} ELSE {}
             t == d.eth_type
  <1>1. open \subseteq Ports BY DEF Device
  <1>2. \A p \in open : Needed(d, p) \ {<<0, "lre">>} = Own(t, p)
    BY <1>1, NeededIs DEF Common
  <1>3. lre \cup UNION {Needed(d, p) \ {<<0, "lre">>} : p \in open} = IrqsOf(t, open)
    <2>1. UNION {Needed(d, p) \ {<<0, "lre">>} : p \in open} = UNION {Own(t, p) : p \in open}
      BY <1>2
    <2>2. \A p \in open : Own(t, p) \subseteq Lines BY <1>1, OwnIs
    <2>3. Common \in Lines BY DEF Lines
    <2>4. Lre(d) <=> t \in Offloads BY DEF Lre
    <2> HIDE DEF open, t
    <2>5. lre \cup UNION {Own(t, p) : p \in open} = IrqsOf(t, open)
      BY <2>2, <2>3, <2>4 DEF IrqsOf
    <2> QED BY <2>1, <2>5
  <1>4. {0 : p \in open} = IF open = {} THEN {} ELSE {0} OBVIOUS
  <1> QED BY <1>3, <1>4 DEF Held, Common

-----------------------------------------------------------------------------
(* The parts of opening and closing a port.                                *)

LEMMA KeptWho ==
  ASSUME NEW d, NEW e, NEW F, Kept(d, e, F), F \cap {"eth_type", "configured"} = {}
  PROVE  /\ Alone(e) <=> Alone(d)
         /\ Lre(e) <=> Lre(d)
         /\ \A p : Needed(e, p) = Needed(d, p)
  <1>1. e.eth_type = d.eth_type /\ e.configured = d.configured BY DEF Kept, Fields
  <1> QED BY <1>1 DEF Alone, Lre, Needed

LEMMA KeptTwice ==
  ASSUME NEW a, NEW b, NEW c, NEW F, NEW G, Kept(a, b, F), Kept(b, c, G)
  PROVE  Kept(a, c, F \cup G)
  BY DEF Kept

LEMMA HostInitIs ==
  ASSUME NEW d \in Device
  PROVE  LET e == HostInit(d)
         IN  /\ e \in Device /\ Kept(d, e, {"wiped"})
             /\ Held(d) => e.wiped = d.wiped
  <1>1. HostInit(d) \in Device /\ Kept(d, HostInit(d), {"wiped"})
    BY DEF HostInit, Device, Kept, Fields
  <1>2. Held(d) => HostInit(d).wiped = d.wiped
    BY HeldIs DEF HostInit, Alone, Device
  <1> QED BY <1>1, <1>2

LEMMA IepInitIs ==
  ASSUME NEW d \in Device
  PROVE  LET e == IepInit(d)
         IN  /\ e \in Device /\ Kept(d, e, {"iep"})
             /\ e.iep = IF Alone(d) THEN d.iep + 1 ELSE d.iep
  BY DEF IepInit, Device, Kept, Fields

LEMMA IepExitIs ==
  ASSUME NEW d \in Device
  PROVE  LET e == IepExit(d)
         IN  /\ e \in Device /\ Kept(d, e, {"iep"})
             /\ e.iep = IF Alone(d) THEN d.iep - 1 ELSE d.iep
  BY DEF IepExit, Device, Kept, Fields

LEMMA BootIs ==
  ASSUME NEW d \in Device, NEW p \in Ports
  PROVE  LET e == Boot(d, p)
         IN  /\ e \in Device /\ Kept(d, e, {"prus"})
             /\ e.prus = IF d.eth_type = "EMAC" THEN d.prus \cup {p}
                         ELSE IF Alone(d) THEN Ports ELSE d.prus
  <1>1. CASE d.eth_type = "EMAC"
    <2>1. Boot(d, p) = [d EXCEPT !.prus = d.prus \cup {p}] BY <1>1 DEF Boot, Device
    <2> QED BY <1>1, <2>1 DEF Device, Kept, Fields
  <1>2. CASE d.eth_type # "EMAC" /\ Alone(d)
    <2>1. Boot(d, p) = [d EXCEPT !.prus = Ports] BY <1>2 DEF Boot, Device
    <2> QED BY <1>2, <2>1 DEF Device, Kept, Fields
  <1>3. CASE d.eth_type # "EMAC" /\ ~Alone(d)
    <2>1. Boot(d, p) = d BY <1>3 DEF Boot
    <2> QED BY <1>3, <2>1 DEF Kept
  <1> QED BY <1>1, <1>2, <1>3

LEMMA ShutdownIs ==
  ASSUME NEW d \in Device, NEW p \in Ports
  PROVE  LET e == Shutdown(d, p)
         IN  /\ e \in Device /\ Kept(d, e, {"prus"})
             /\ e.prus = IF d.eth_type = "EMAC" THEN d.prus \ {p}
                         ELSE IF Alone(d) THEN {} ELSE d.prus
  <1>1. CASE d.eth_type = "EMAC"
    <2>1. Shutdown(d, p) = [d EXCEPT !.prus = d.prus \ {p}] BY <1>1 DEF Shutdown, Device
    <2> QED BY <1>1, <2>1 DEF Device, Kept, Fields
  <1>2. CASE d.eth_type # "EMAC" /\ Alone(d)
    <2>1. Shutdown(d, p) = [d EXCEPT !.prus = {}] BY <1>2 DEF Shutdown, Device
    <2> QED BY <1>2, <2>1 DEF Device, Kept, Fields
  <1>3. CASE d.eth_type # "EMAC" /\ ~Alone(d)
    <2>1. Shutdown(d, p) = d BY <1>3 DEF Shutdown
    <2> QED BY <1>3, <2>1 DEF Kept
  <1> QED BY <1>1, <1>2, <1>3

LEMMA RequestIrqsIs ==
  ASSUME NEW d \in Device, NEW p \in Ports
  PROVE  LET e == RequestIrqs(d, p)
         IN  /\ e \in Device /\ Kept(d, e, {"irqs"})
             /\ e.irqs = d.irqs \cup Needed(d, p)
  <1>1. Needed(d, p) \subseteq Lines BY NeededIs
  <1>2. RequestIrqs(d, p) = [d EXCEPT !.irqs = d.irqs \cup Needed(d, p)]
    BY DEF RequestIrqs, Device
  <1> QED BY <1>1, <1>2 DEF Device, Kept, Fields

LEMMA FreeIrqsIs ==
  ASSUME NEW d \in Device, NEW irqs \in SUBSET Lines
  PROVE  LET e == FreeIrqs(d, irqs)
         IN  /\ e \in Device /\ Kept(d, e, {"irqs", "strays"})
             /\ e.irqs = d.irqs \ irqs /\ e.strays = d.strays \cup (irqs \ d.irqs)
  BY DEF FreeIrqs, Device, Kept, Fields

LEMMA NapiEnableIs ==
  ASSUME NEW d \in Device, NEW p \in Ports
  PROVE  LET e == NapiEnable(d, p)
         IN  /\ e \in Device /\ Kept(d, e, {"napi"})
             /\ e.napi = IF ~Lre(d) THEN d.napi \cup {p}
                         ELSE IF Alone(d) THEN d.napi \cup {0} ELSE d.napi
  <1>1. CASE ~Lre(d)
    <2>1. NapiEnable(d, p) = [d EXCEPT !.napi = d.napi \cup {p}] BY <1>1 DEF NapiEnable, Device
    <2> QED BY <1>1, <2>1 DEF Device, Kept, Fields
  <1>2. CASE Lre(d) /\ Alone(d)
    <2>1. NapiEnable(d, p) = [d EXCEPT !.napi = d.napi \cup {0}] BY <1>2 DEF NapiEnable, Device
    <2> QED BY <1>2, <2>1 DEF Device, Kept, Fields
  <1>3. CASE Lre(d) /\ ~Alone(d)
    <2>1. NapiEnable(d, p) = d BY <1>3 DEF NapiEnable
    <2> QED BY <1>3, <2>1 DEF Kept
  <1> QED BY <1>1, <1>2, <1>3

LEMMA NapiDisableIs ==
  ASSUME NEW d \in Device, NEW p \in Ports
  PROVE  LET e == NapiDisable(d, p)
             n == IF Lre(d) THEN 0 ELSE p
         IN  /\ e \in Device /\ Kept(d, e, {"napi", "hung"})
             /\ e.napi = IF Lre(d) /\ ~Alone(d) THEN d.napi ELSE d.napi \ {n}
             /\ e.hung <=> \/ d.hung
                           \/ ~(Lre(d) /\ ~Alone(d)) /\ n \notin d.napi
  <1> DEFINE n == IF Lre(d) THEN 0 ELSE p
  <1>1. CASE Lre(d) /\ ~Alone(d)
    <2>1. NapiDisable(d, p) = d BY <1>1 DEF NapiDisable
    <2> QED BY <1>1, <2>1 DEF Kept
  <1>2. CASE ~(Lre(d) /\ ~Alone(d))
    <2> DEFINE h == d.hung \/ n \notin d.napi
    <2>1. NapiDisable(d, p) = [d EXCEPT !.napi = d.napi \ {n}, !.hung = h]
      BY <1>2 DEF NapiDisable, Device
    <2>2. h \in BOOLEAN BY DEF Device
    <2>3. h <=> (d.hung \/ n \notin d.napi) OBVIOUS
    <2> HIDE DEF n, h
    <2>4. /\ NapiDisable(d, p) \in Device /\ Kept(d, NapiDisable(d, p), {"napi", "hung"})
          /\ NapiDisable(d, p).napi = d.napi \ {n} /\ NapiDisable(d, p).hung = h
      BY <2>1, <2>2 DEF Device, Kept, Fields
    <2> QED BY <1>2, <2>3, <2>4 DEF n
  <1> QED BY <1>1, <1>2

\* A request that fails leaves the other interrupts as they were, and frees
\* none that is not requested but the tx interrupt.
LEMMA RequestFailsIs ==
  ASSUME NEW d \in Device, NEW p \in Ports, NEW irq \in Irqs, <<p, irq>> \in Needed(d, p)
  PROVE  LET e == RequestFails(d, p, irq)
         IN  /\ e \in Device /\ Kept(d, e, {"irqs", "strays"})
             /\ d.irqs \cap Own(d.eth_type, p) = {} /\ <<p, "rx">> \notin d.irqs
                  /\ <<p, "tx">> \notin d.irqs => e.irqs = d.irqs
             /\ e.strays \subseteq d.strays \cup {<<p, "tx">>}
  <1> DEFINE rx == {<<p, "rx">>}
             both == {<<p, "rx">>, <<p, "tx">>}
             own == Own(d.eth_type, p)
  <1>1. rx \in SUBSET Lines /\ both \in SUBSET Lines BY DEF Lines, Irqs
  <1>2. CASE irq = "rx" \/ Lre(d)
    <2>1. RequestFails(d, p, irq) = d BY <1>2 DEF RequestFails
    <2> QED BY <2>1 DEF Kept
  <1>3. CASE ~Lre(d) /\ irq = "tx"
    <2> DEFINE f == [d EXCEPT !.irqs = d.irqs \cup rx]
    <2>1. RequestFails(d, p, irq) = FreeIrqs(f, rx) BY <1>3 DEF RequestFails, Device
    <2>2. f \in Device /\ Kept(d, f, {"irqs"}) /\ f.irqs = d.irqs \cup rx
      BY <1>1 DEF Device, Kept, Fields
    <2> HIDE DEF f, rx
    <2>3. /\ FreeIrqs(f, rx) \in Device /\ Kept(f, FreeIrqs(f, rx), {"irqs", "strays"})
          /\ FreeIrqs(f, rx).irqs = f.irqs \ rx
          /\ FreeIrqs(f, rx).strays = f.strays \cup (rx \ f.irqs)
      BY <1>1, <2>2, FreeIrqsIs
    <2>4. FreeIrqs(f, rx).strays = d.strays
      <3>1. f.strays = d.strays BY <2>2 DEF Kept, Fields
      <3> QED BY <2>2, <2>3, <3>1
    <2>5. Kept(d, FreeIrqs(f, rx), {"irqs", "strays"}) BY <2>2, <2>3 DEF Kept
    <2>6. FreeIrqs(f, rx).irqs = d.irqs \ rx BY <2>2, <2>3
    <2> QED BY <2>1, <2>3, <2>4, <2>5, <2>6 DEF rx
  <1>4. CASE ~Lre(d) /\ irq = "ptp"
    <2> DEFINE more == Needed(d, p) \ {<<p, "ptp">>}
               f == [d EXCEPT !.irqs = d.irqs \cup more]
    <2>1. RequestFails(d, p, irq) = FreeIrqs(f, both) BY <1>4 DEF RequestFails, Device
    <2>2. more \in SUBSET Lines BY NeededIs
    <2>3. Needed(d, p) = own BY <1>4, NeededIs
    <2>4. more \subseteq both /\ <<p, "rx">> \in more
      <3>1. d.eth_type \in {"EMAC", "SWITCH"} BY <1>4 DEF Device, Modes, Lre
      <3>2. Names(d.eth_type) \subseteq Irqs /\ "rx" \in Names(d.eth_type)
        BY <3>1, PortAssumption DEF Names
      <3>3. <<p, "rx">> \in own BY <3>2 DEF Own
      <3>4. \A x \in own : x \in both \/ x = <<p, "ptp">> BY <3>2 DEF Own, Irqs
      <3> QED BY <2>3, <3>3, <3>4
    <2> HIDE DEF more
    <2>5. f \in Device /\ Kept(d, f, {"irqs"}) /\ f.irqs = d.irqs \cup more
      BY <2>2 DEF Device, Kept, Fields
    <2> HIDE DEF f
    <2>6. /\ FreeIrqs(f, both) \in Device /\ Kept(f, FreeIrqs(f, both), {"irqs", "strays"})
          /\ FreeIrqs(f, both).irqs = f.irqs \ both
          /\ FreeIrqs(f, both).strays = f.strays \cup (both \ f.irqs)
      <3> HIDE DEF both
      <3> QED BY <1>1, <2>5, FreeIrqsIs
    <2>7. FreeIrqs(f, both).strays \subseteq d.strays \cup {<<p, "tx">>}
      <3>1. f.strays = d.strays BY <2>5 DEF Kept, Fields
      <3> QED BY <2>4, <2>5, <2>6, <3>1
    <2>8. Kept(d, FreeIrqs(f, both), {"irqs", "strays"}) BY <2>5, <2>6 DEF Kept
    <2>9. FreeIrqs(f, both).irqs = d.irqs \ both BY <2>4, <2>5, <2>6
    <2> QED BY <2>1, <2>6, <2>7, <2>8, <2>9
  <1> QED BY <1>2, <1>3, <1>4 DEF Irqs

\* A port that is opened.
LEMMA OpenedIs ==
  ASSUME NEW d \in Device, NEW p \in Ports
  PROVE  LET n == Opened(d, p)
         IN  /\ n \in Device
             /\ Kept(d, n, {"configured", "prus", "iep", "irqs", "napi"})
             /\ n.configured = d.configured \cup {p}
             /\ n.prus = IF d.eth_type = "EMAC" THEN d.prus \cup {p}
                         ELSE IF Alone(d) THEN Ports ELSE d.prus
             /\ n.iep = IF Alone(d) THEN d.iep + 1 ELSE d.iep
             /\ n.irqs = d.irqs \cup Needed(d, p)
             /\ n.napi = IF ~Lre(d) THEN d.napi \cup {p}
                         ELSE IF Alone(d) THEN d.napi \cup {0} ELSE d.napi
  <1> DEFINE a == IepInit(d)
             b == Boot(a, p)
             c == RequestIrqs(b, p)
             e == NapiEnable(c, p)
             n == Opened(d, p)
  <1>1. /\ a \in Device /\ Kept(d, a, {"iep"})
        /\ a.iep = IF Alone(d) THEN d.iep + 1 ELSE d.iep
    BY IepInitIs
  <1> HIDE DEF a
  <1>2. /\ b \in Device /\ Kept(a, b, {"prus"})
        /\ b.prus = IF a.eth_type = "EMAC" THEN a.prus \cup {p}
                    ELSE IF Alone(a) THEN Ports ELSE a.prus
    BY <1>1, BootIs
  <1> HIDE DEF b
  <1>3. /\ c \in Device /\ Kept(b, c, {"irqs"})
        /\ c.irqs = b.irqs \cup Needed(b, p)
    BY <1>2, RequestIrqsIs
  <1> HIDE DEF c
  <1>4. /\ e \in Device /\ Kept(c, e, {"napi"})
        /\ e.napi = IF ~Lre(c) THEN c.napi \cup {p}
                    ELSE IF Alone(c) THEN c.napi \cup {0} ELSE c.napi
    BY <1>3, NapiEnableIs
  <1> HIDE DEF e
  <1>5. n = [e EXCEPT !.configured = e.configured \cup {p}]
    BY <1>4 DEF Opened, a, b, c, e, Device
  <1>6. n \in Device /\ Kept(e, n, {"configured"}) /\ n.configured = e.configured \cup {p}
    BY <1>4, <1>5 DEF Device, Kept, Fields
  <1> HIDE DEF n
  <1>7. /\ (Alone(a) <=> Alone(d)) /\ (Lre(a) <=> Lre(d))
        /\ (Alone(b) <=> Alone(a)) /\ (Lre(b) <=> Lre(a))
        /\ (Alone(c) <=> Alone(b)) /\ (Lre(c) <=> Lre(b))
        /\ Needed(a, p) = Needed(d, p) /\ Needed(b, p) = Needed(a, p)
    BY <1>1, <1>2, <1>3, KeptWho
  <1>8. a.eth_type = d.eth_type /\ a.prus = d.prus BY <1>1 DEF Kept, Fields
  <1>9. b.irqs = d.irqs /\ b.iep = a.iep BY <1>1, <1>2 DEF Kept, Fields
  <1>10. c.napi = d.napi /\ c.prus = b.prus /\ c.iep = a.iep
    BY <1>1, <1>2, <1>3, <1>9 DEF Kept, Fields
  <1>11. e.configured = d.configured BY <1>1, <1>2, <1>3, <1>4 DEF Kept, Fields
  <1>12. n.irqs = c.irqs /\ n.napi = e.napi /\ n.prus = b.prus /\ n.iep = a.iep
    BY <1>4, <1>6, <1>10 DEF Kept, Fields
  <1>13. Kept(d, n, {"configured", "prus", "iep", "irqs", "napi"})
    BY <1>1, <1>2, <1>3, <1>4, <1>6 DEF Kept
  <1> QED BY <1>1, <1>2, <1>3, <1>4, <1>6, <1>7, <1>8, <1>9, <1>10, <1>11, <1>12, <1>13
          DEF n

LEMMA FailsAtIs ==
  ASSUME NEW d, NEW p \in Ports, NEW fail \in Faults
  PROVE  LET at == FailsAt(d, p, fail)
         IN  \/ at \in {"none", "sanitize", "config", "iep", "boot"}
             \/ at \in Irqs /\ <<p, at>> \in Needed(d, p)
  <1>1. <<p, fail>> \in Needed(d, p) => fail \in Irqs
    <2>1. <<p, fail>> # Common BY DEF Common, Ports
    <2>2. <<p, fail>> \in Needed(d, p) => <<p, fail>> \in Own(d.eth_type, p)
      BY <2>1, NeededIs
    <2> QED BY <2>2, OwnIs
  <1> QED BY <1>1 DEF FailsAt

\* Opening that fails: the device holds what it held before, and nothing but
\* a tx interrupt has been freed that it did not hold.
LEMMA UnwoundIs ==
  ASSUME NEW d \in Device, NEW p \in Ports,
         NEW at, at \in {"sanitize", "config", "iep", "boot"}
                  \/ (at \in Irqs /\ <<p, at>> \in Needed(d, p))
  PROVE  LET u == Unwound(d, p, at)
         IN  /\ u \in Device /\ Kept(d, u, {"prus", "irqs", "strays"})
             /\ u.strays \subseteq d.strays \cup (Ports \X {"tx"})
             /\ Held(d) /\ p \notin d.configured => u.prus = d.prus /\ u.irqs = d.irqs
  <1> DEFINE u == Unwound(d, p, at)
             a == IepInit(d)
  <1>1. CASE at \in {"sanitize", "config", "iep"}
    <2>1. u = d BY <1>1 DEF Unwound, Irqs
    <2> QED BY <2>1 DEF Kept
  <1>2. /\ a \in Device /\ Kept(d, a, {"iep"})
        /\ a.iep = IF Alone(d) THEN d.iep + 1 ELSE d.iep
        /\ Alone(a) <=> Alone(d)
    BY IepInitIs, KeptWho
  <1> HIDE DEF a
  <1>3. CASE at = "boot"
    <2> DEFINE f == IepExit(a)
    <2>1. u = f BY <1>3 DEF Unwound, a, Irqs
    <2>2. /\ f \in Device /\ Kept(a, f, {"iep"})
          /\ f.iep = IF Alone(a) THEN a.iep - 1 ELSE a.iep
      BY <1>2, IepExitIs
    <2> HIDE DEF f
    <2>3. f.iep = d.iep BY <1>2, <2>2 DEF Device
    <2>4. Kept(d, f, {}) BY <1>2, <2>2, <2>3 DEF Kept
    <2>5. f.prus = d.prus /\ f.irqs = d.irqs /\ f.strays = d.strays
      BY <2>4 DEF Kept, Fields
    <2> QED BY <2>1, <2>2, <2>4, <2>5 DEF Kept
  <1>4. CASE at \in Irqs /\ <<p, at>> \in Needed(d, p)
    <2> DEFINE b == Boot(a, p)
               c == RequestFails(b, p, at)
               e == Shutdown(c, p)
               f == IepExit(e)
    <2>1. u = f BY <1>4 DEF Unwound, a, Irqs
    <2>2. /\ b \in Device /\ Kept(a, b, {"prus"})
          /\ b.prus = IF a.eth_type = "EMAC" THEN a.prus \cup {p}
                      ELSE IF Alone(a) THEN Ports ELSE a.prus
      BY <1>2, BootIs
    <2> HIDE DEF b
    <2>3. Needed(b, p) = Needed(d, p) BY <1>2, <2>2, KeptWho
    <2>4. /\ c \in Device /\ Kept(b, c, {"irqs", "strays"})
          /\ b.irqs \cap Own(b.eth_type, p) = {} /\ <<p, "rx">> \notin b.irqs
               /\ <<p, "tx">> \notin b.irqs => c.irqs = b.irqs
          /\ c.strays \subseteq b.strays \cup {<<p, "tx">>}
      BY <1>4, <2>2, <2>3, RequestFailsIs
    <2> HIDE DEF c
    <2>5. /\ e \in Device /\ Kept(c, e, {"prus"})
          /\ e.prus = IF c.eth_type = "EMAC" THEN c.prus \ {p}
                      ELSE IF Alone(c) THEN {} ELSE c.prus
      BY <2>4, ShutdownIs
    <2> HIDE DEF e
    <2>6. /\ f \in Device /\ Kept(e, f, {"iep"})
          /\ f.iep = IF Alone(e) THEN e.iep - 1 ELSE e.iep
      BY <2>5, IepExitIs
    <2> HIDE DEF f
    <2>7. /\ (Alone(b) <=> Alone(d)) /\ (Alone(c) <=> Alone(d)) /\ (Alone(e) <=> Alone(d))
      <3>1. /\ (Alone(b) <=> Alone(a)) /\ (Alone(c) <=> Alone(b)) /\ (Alone(e) <=> Alone(c))
        BY <2>2, <2>4, <2>5, KeptWho
      <3> QED BY <1>2, <3>1
    <2>8. f.iep = d.iep
      <3>1. e.iep = a.iep BY <2>2, <2>4, <2>5 DEF Kept, Fields
      <3> QED BY <1>2, <2>6, <2>7, <3>1 DEF Device
    <2>9. Kept(d, f, {"prus", "irqs", "strays"})
      BY <1>2, <2>2, <2>4, <2>5, <2>6, <2>8 DEF Kept
    <2>10. f.strays \subseteq d.strays \cup (Ports \X {"tx"})
      <3>1. f.strays = c.strays /\ b.strays = d.strays
        BY <1>2, <2>2, <2>5, <2>6 DEF Kept, Fields
      <3> QED BY <2>4, <3>1
    <2>11. ASSUME Held(d), p \notin d.configured PROVE f.prus = d.prus /\ f.irqs = d.irqs
      <3>1. /\ a.eth_type = d.eth_type /\ a.prus = d.prus /\ b.irqs = d.irqs
            /\ b.eth_type = d.eth_type /\ c.eth_type = d.eth_type /\ c.prus = b.prus
            /\ f.prus = e.prus /\ f.irqs = c.irqs
        BY <1>2, <2>2, <2>4, <2>5, <2>6 DEF Kept, Fields
      <3>2. /\ d.prus = IF d.eth_type = "EMAC" \/ d.configured = {} THEN d.configured ELSE Ports
            /\ d.irqs = IrqsOf(d.eth_type, d.configured)
        BY <2>11, HeldIs
      <3>3. f.prus = d.prus
        BY <1>2, <2>2, <2>5, <2>7, <2>11, <3>1, <3>2 DEF Alone
      <3>4. \A q \in d.configured : \A name : <<p, name>> \notin Own(d.eth_type, q)
        BY <2>11 DEF Own
      <3>5. \A name : <<p, name>> # Common BY DEF Common, Ports
      <3>6. \A name : <<p, name>> \notin d.irqs BY <3>2, <3>4, <3>5 DEF IrqsOf
      <3>7. \A x \in Own(d.eth_type, p) : \E name \in Irqs : x = <<p, name>> BY OwnIs
      <3>8. d.irqs \cap Own(d.eth_type, p) = {} BY <3>6, <3>7
      <3>9. c.irqs = b.irqs BY <2>4, <3>1, <3>6, <3>8
      <3> QED BY <3>1, <3>3, <3>9
    <2> QED BY <2>1, <2>6, <2>9, <2>10, <2>11
  <1> QED BY <1>1, <1>3, <1>4

-----------------------------------------------------------------------------
(* emac_ndo_open() and emac_ndo_stop()                                     *)

\* What opening a port makes of a device in any state, and of one that holds
\* what it needs.
OpenEffect(d, p, n) ==
  /\ n \in Device
  /\ n.eth_type = d.eth_type /\ n.hung = d.hung
  /\ n.configured \in {d.configured, d.configured \cup {p}}
  /\ n.strays \subseteq d.strays \cup (Ports \X {"tx"})
  /\ Held(d) /\ p \notin d.configured => Held(n) /\ n.wiped = d.wiped

LEMMA OpenIs ==
  ASSUME NEW d \in Device, NEW p \in Ports, NEW fail \in Faults
  PROVE  OpenEffect(d, p, Open(d, p, fail))
  <1> DEFINE r == HostInit(d)
             at == FailsAt(r, p, fail)
             n == Open(d, p, fail)
  <1>1. r \in Device /\ Kept(d, r, {"wiped"}) /\ (Held(d) => r.wiped = d.wiped)
    BY HostInitIs
  <1>2. n = IF at = "none" THEN Opened(r, p) ELSE Unwound(r, p, at) BY DEF Open
  <1>3. at = "none" \/ at \in {"sanitize", "config", "iep", "boot"}
          \/ (at \in Irqs /\ <<p, at>> \in Needed(r, p))
    BY FailsAtIs
  <1> HIDE DEF r, at, n
  <1>4. /\ r.eth_type = d.eth_type /\ r.configured = d.configured /\ r.hung = d.hung
        /\ r.strays = d.strays /\ r.prus = d.prus /\ r.iep = d.iep /\ r.irqs = d.irqs
        /\ r.napi = d.napi
    BY <1>1 DEF Kept, Fields
  <1>5. Held(d) => Held(r)
    <2>1. Lre(r) <=> Lre(d) BY <1>4 DEF Lre
    <2> QED BY <1>1, <1>4, <2>1, HeldIs
  <1>6. ASSUME at = "none" PROVE OpenEffect(d, p, n)
    <2>1. /\ n \in Device
          /\ Kept(r, n, {"configured", "prus", "iep", "irqs", "napi"})
          /\ n.configured = r.configured \cup {p}
          /\ n.prus = IF r.eth_type = "EMAC" THEN r.prus \cup {p}
                      ELSE IF Alone(r) THEN Ports ELSE r.prus
          /\ n.iep = IF Alone(r) THEN r.iep + 1 ELSE r.iep
          /\ n.irqs = r.irqs \cup Needed(r, p)
          /\ n.napi = IF ~Lre(r) THEN r.napi \cup {p}
                      ELSE IF Alone(r) THEN r.napi \cup {0} ELSE r.napi
      BY <1>1, <1>2, <1>6, OpenedIs
    <2>2. /\ n.eth_type = r.eth_type /\ n.hung = r.hung /\ n.strays = r.strays
          /\ n.wiped = r.wiped
      BY <2>1 DEF Kept, Fields
    <2>3. ASSUME Held(r), p \notin r.configured PROVE Held(n)
      <3> DEFINE t == r.eth_type
                 o == r.configured
      <3>1. /\ r.prus = IF t = "EMAC" \/ o = {} THEN o ELSE Ports
            /\ r.iep = IF o = {} THEN 0 ELSE 1
            /\ r.irqs = IrqsOf(t, o)
            /\ r.napi = IF Lre(r) THEN (IF o = {} THEN {} ELSE {0}) ELSE o
        BY <1>1, <2>3, HeldIs
      <3>2. (Alone(r) <=> o = {}) /\ (Lre(r) <=> t \in Offloads) /\ (Lre(n) <=> Lre(r))
        BY <2>2 DEF Alone, Lre
      <3>3. Needed(r, p) = Own(t, p) \cup IF Lre(r) /\ Alone(r) THEN {Common} ELSE {}
        BY NeededIs
      <3>4. Own(t, p) \subseteq Lines /\ Common \in Lines BY OwnIs DEF Lines
      <3> HIDE DEF t, o
      <3>5. IrqsOf(t, o) \cup Needed(r, p) = IrqsOf(t, o \cup {p})
        BY <3>2, <3>3, <3>4 DEF IrqsOf
      <3>6. o \cup {p} # {} OBVIOUS
      <3>7. n.configured = o \cup {p} /\ n.eth_type = t BY <2>1, <2>2 DEF o, t
      <3>8. n.irqs = IrqsOf(t, o \cup {p}) BY <2>1, <3>1, <3>5
      <3>9. n.prus = IF t = "EMAC" THEN o \cup {p} ELSE Ports
        BY <2>1, <3>1, <3>2 DEF o, t
      <3>10. n.iep = 1 BY <2>1, <3>1, <3>2
      <3>11. n.napi = IF Lre(r) THEN {0} ELSE o \cup {p} BY <2>1, <3>1, <3>2
      <3> QED BY <2>1, <3>2, <3>6, <3>7, <3>8, <3>9, <3>10, <3>11, HeldIs
    <2>4. n.strays = d.strays /\ n.wiped = r.wiped /\ n.configured = d.configured \cup {p}
      BY <1>4, <2>1, <2>2
    <2>5. Held(d) /\ p \notin d.configured => Held(n) /\ n.wiped = d.wiped
      BY <1>1, <1>4, <1>5, <2>3, <2>4
    <2> QED BY <1>4, <2>1, <2>2, <2>4, <2>5 DEF OpenEffect
  <1>7. ASSUME at # "none" PROVE OpenEffect(d, p, n)
    <2>1. n = Unwound(r, p, at) BY <1>2, <1>7
    <2>2. /\ n \in Device /\ Kept(r, n, {"prus", "irqs", "strays"})
          /\ n.strays \subseteq r.strays \cup (Ports \X {"tx"})
          /\ Held(r) /\ p \notin r.configured => n.prus = r.prus /\ n.irqs = r.irqs
      BY <1>1, <1>3, <1>7, <2>1, UnwoundIs
    <2>3. /\ n.eth_type = r.eth_type /\ n.hung = r.hung /\ n.configured = r.configured
          /\ n.wiped = r.wiped /\ n.iep = r.iep /\ n.napi = r.napi
      BY <2>2 DEF Kept, Fields
    <2>4. Held(r) /\ p \notin r.configured => Held(n)
      <3>1. Lre(r) <=> Lre(n) BY <2>3 DEF Lre
      <3> QED BY <1>1, <2>2, <2>3, <3>1, HeldIs
    <2>5. Held(d) /\ p \notin d.configured => Held(n) /\ n.wiped = d.wiped
      BY <1>1, <1>4, <1>5, <2>3, <2>4
    <2> QED BY <1>4, <2>2, <2>3, <2>5 DEF OpenEffect
  <1>8. OpenEffect(d, p, n) BY <1>6, <1>7
  <1> QED BY <1>8 DEF n

\* The same for closing one.
LEMMA StopIs ==
  ASSUME NEW d \in Device, NEW p \in Ports
  PROVE  LET n == Stop(d, p)
         IN  /\ n \in Device
             /\ n.eth_type = d.eth_type /\ n.wiped = d.wiped
             /\ n.configured = d.configured \ {p}
             /\ Held(d) /\ ~d.hung =>
                  /\ ~n.hung => Held(n)
                  /\ p \in d.configured => ~n.hung /\ n.strays = d.strays
  <1> DEFINE a == [d EXCEPT !.configured = d.configured \ {p}]
             out == NapiDisable(a, p)
             k == IF Lre(a) THEN 0 ELSE p
             n == Stop(d, p)
  <1>1. a \in Device /\ Kept(d, a, {"configured"}) /\ a.configured = d.configured \ {p}
    BY DEF Device, Kept, Fields
  <1>2. out = NapiDisable([d EXCEPT !.configured = @ \ {p}], p) BY DEF Device
  <1> HIDE DEF a
  <1>3. /\ out \in Device /\ Kept(a, out, {"napi", "hung"})
        /\ out.napi = IF Lre(a) /\ ~Alone(a) THEN a.napi ELSE a.napi \ {k}
        /\ out.hung <=> \/ a.hung
                        \/ ~(Lre(a) /\ ~Alone(a)) /\ k \notin a.napi
    BY <1>1, NapiDisableIs
  <1> DEFINE e == Shutdown(out, p)
             f == IepExit(e)
             irqs == Needed(out, p)
             g == FreeIrqs(f, irqs)
  <1>4. n = IF out.hung THEN out ELSE g BY <1>2 DEF Stop
  <1> HIDE DEF out, n
  <1>5. /\ e \in Device /\ Kept(out, e, {"prus"})
        /\ e.prus = IF out.eth_type = "EMAC" THEN out.prus \ {p}
                    ELSE IF Alone(out) THEN {} ELSE out.prus
    BY <1>3, ShutdownIs
  <1> HIDE DEF e
  <1>6. /\ f \in Device /\ Kept(e, f, {"iep"})
        /\ f.iep = IF Alone(e) THEN e.iep - 1 ELSE e.iep
    BY <1>5, IepExitIs
  <1>7. /\ irqs \in SUBSET Lines
        /\ irqs = Own(out.eth_type, p) \cup IF Lre(out) /\ Alone(out) THEN {Common} ELSE {}
    BY NeededIs
  <1> HIDE DEF f, irqs
  <1>8. /\ g \in Device /\ Kept(f, g, {"irqs", "strays"})
        /\ g.irqs = f.irqs \ irqs /\ g.strays = f.strays \cup (irqs \ f.irqs)
    BY <1>6, <1>7, FreeIrqsIs
  <1> HIDE DEF g
  <1>9. /\ a.eth_type = d.eth_type /\ a.wiped = d.wiped /\ a.napi = d.napi /\ a.hung = d.hung
        /\ out.eth_type = d.eth_type /\ out.wiped = d.wiped /\ out.configured = a.configured
        /\ out.prus = d.prus
    BY <1>1, <1>3 DEF Kept, Fields
  <1>10. /\ f.irqs = d.irqs /\ f.strays = d.strays /\ e.iep = d.iep
    BY <1>1, <1>3, <1>5, <1>6 DEF Kept, Fields
  <1>11. /\ g.eth_type = d.eth_type /\ g.wiped = d.wiped /\ g.configured = out.configured
         /\ g.prus = e.prus /\ g.iep = f.iep /\ g.napi = out.napi /\ g.hung = out.hung
    BY <1>5, <1>6, <1>8, <1>9 DEF Kept, Fields
  <1>12. /\ (Lre(a) <=> Lre(d)) /\ (Lre(out) <=> Lre(d)) /\ (Lre(g) <=> Lre(d))
         /\ (Alone(a) <=> d.configured \ {p} = {}) /\ (Alone(out) <=> Alone(a))
         /\ (Alone(e) <=> Alone(a))
    <2>1. e.configured = out.configured BY <1>5 DEF Kept, Fields
    <2> QED BY <1>1, <1>9, <1>11, <2>1 DEF Lre, Alone
  <1>13. n \in Device /\ n.eth_type = d.eth_type /\ n.wiped = d.wiped
         /\ n.configured = d.configured \ {p}
    BY <1>1, <1>3, <1>4, <1>8, <1>9, <1>11
  <1>14. ASSUME Held(d), ~d.hung
         PROVE  /\ ~n.hung => Held(n)
                /\ p \in d.configured => ~n.hung /\ n.strays = d.strays
    <2> DEFINE t == d.eth_type
               o == d.configured
    <2>1. /\ d.prus = IF t = "EMAC" \/ o = {} THEN o ELSE Ports
          /\ d.iep = IF o = {} THEN 0 ELSE 1
          /\ d.irqs = IrqsOf(t, o)
          /\ d.napi = IF Lre(d) THEN (IF o = {} THEN {} ELSE {0}) ELSE o
      BY <1>14, HeldIs
    <2>2. Lre(d) <=> t \in Offloads BY DEF Lre
    <2>3. /\ Own(t, p) \subseteq Lines /\ Common \notin Own(t, p) /\ Common \in Lines
          /\ \A q \in Ports \ {p} : Own(t, p) \cap Own(t, q) = {}
          /\ \A q \in Ports : Common \notin Own(t, q)
      BY OwnIs DEF Lines
    <2>4. o \subseteq Ports /\ p # 0 BY DEF Device, Ports
    <2>5. "EMAC" \notin Offloads BY DEF Offloads
    <2>6. ASSUME p \in o \/ ~out.hung
          PROVE  ~out.hung /\ (p \in o \/ (Lre(d) /\ o # {}))
      <3>1. CASE p \in o BY <1>3, <1>9, <1>12, <1>14, <2>1, <3>1
      <3>2. CASE p \notin o
        <4>1. o \ {p} = o BY <3>2
        <4>2. ~out.hung BY <2>6, <3>2
        <4>3. Lre(d) /\ ~Alone(a)
          <5>1. ASSUME ~Lre(d) PROVE FALSE
            <6>1. k = p /\ a.napi = o BY <1>9, <1>12, <2>1, <5>1
            <6> QED BY <1>3, <1>12, <3>2, <4>2, <5>1, <6>1
          <5>2. ASSUME Lre(d), Alone(a) PROVE FALSE
            <6>1. k = 0 /\ a.napi = {} BY <1>9, <1>12, <2>1, <4>1, <5>2
            <6> QED BY <1>3, <4>2, <5>2, <6>1
          <5> QED BY <5>1, <5>2
        <4> QED BY <1>12, <4>1, <4>2, <4>3
      <3> QED BY <3>1, <3>2
    <2>7. ASSUME ~out.hung, p \in o \/ (Lre(d) /\ o # {})
          PROVE  Held(g) /\ (p \in o => g.strays = d.strays)
      <3> DEFINE o2 == o \ {p}
      <3>1. out.eth_type = t BY <1>9
      <3>2. irqs = Own(t, p) \cup IF Lre(d) /\ o2 = {} THEN {Common} ELSE {}
        BY <1>7, <1>12, <3>1
      <3> HIDE DEF t, o, irqs
      <3>3. g.irqs = IrqsOf(t, o2)
        <4>1. g.irqs = IrqsOf(t, o) \ irqs BY <1>8, <1>10, <2>1
        <4>2. ASSUME NEW x \in Lines PROVE x \in IrqsOf(t, o) \ irqs <=> x \in IrqsOf(t, o2)
          <5>1. CASE x = Common
            <6>1. \A q \in o : x \notin Own(t, q) BY <2>3, <2>4, <5>1
            <6>2. x \in irqs <=> Lre(d) /\ o2 = {} BY <2>3, <3>2, <5>1
            <6> QED BY <2>2, <2>7, <5>1, <6>1, <6>2 DEF IrqsOf
          <5>2. CASE x # Common
            <6>1. x \in irqs <=> x \in Own(t, p) BY <3>2, <5>2
            <6>2. x \in Own(t, p) => \A q \in o2 : x \notin Own(t, q) BY <2>3, <2>4
            <6> QED BY <5>2, <6>1, <6>2 DEF IrqsOf
          <5> QED BY <5>1, <5>2
        <4>3. IrqsOf(t, o) \subseteq Lines /\ IrqsOf(t, o2) \subseteq Lines BY DEF IrqsOf
        <4> QED BY <4>1, <4>2, <4>3
      <3>4. g.prus = IF t = "EMAC" \/ o2 = {} THEN o2 ELSE Ports
        <4>1. g.prus = IF t = "EMAC" THEN d.prus \ {p} ELSE IF o2 = {} THEN {} ELSE d.prus
          BY <1>5, <1>9, <1>11, <1>12, <3>1 DEF o
        <4>2. CASE t = "EMAC"
          <5>1. d.prus = o BY <2>1, <4>2
          <5> QED BY <4>1, <4>2, <5>1
        <4>3. CASE t # "EMAC"
          <5>1. o2 # {} => d.prus = Ports BY <2>1, <4>3
          <5> QED BY <4>1, <4>3, <5>1
        <4> QED BY <4>2, <4>3
      <3>5. g.iep = IF o2 = {} THEN 0 ELSE 1
        <4>1. o # {} BY <2>7
        <4>2. d.iep = 1 BY <2>1, <4>1
        <4>3. g.iep = IF o2 = {} THEN d.iep - 1 ELSE d.iep
          BY <1>6, <1>10, <1>11, <1>12 DEF o
        <4> QED BY <4>2, <4>3
      <3>6. g.napi = IF Lre(d) THEN (IF o2 = {} THEN {} ELSE {0}) ELSE o2
        <4>1. g.napi = IF Lre(d) /\ o2 # {} THEN d.napi ELSE d.napi \ {IF Lre(d) THEN 0 ELSE p}
          BY <1>3, <1>9, <1>11, <1>12 DEF o
        <4>2. CASE Lre(d)
          <5>1. d.napi = {0} BY <2>1, <2>7, <4>2
          <5> QED BY <4>1, <4>2, <5>1
        <4>3. CASE ~Lre(d) BY <2>1, <4>1, <4>3
        <4> QED BY <4>2, <4>3
      <3>7. g.eth_type = t /\ g.configured = o2 BY <1>1, <1>9, <1>11 DEF t, o
      <3>8. Held(g) BY <1>8, <1>12, <3>3, <3>4, <3>5, <3>6, <3>7, HeldIs
      <3>9. ASSUME p \in o PROVE g.strays = d.strays
        <4>1. irqs \subseteq IrqsOf(t, o) BY <2>2, <2>3, <3>2, <3>9 DEF IrqsOf
        <4> QED BY <1>8, <1>10, <2>1, <4>1
      <3> QED BY <3>8, <3>9
    <2> HIDE DEF g
    <2>8. ASSUME ~n.hung PROVE Held(n)
      <3>1. ~out.hung BY <1>4, <2>8
      <3> QED BY <1>4, <2>6, <2>7, <3>1
    <2>9. ASSUME p \in o PROVE ~n.hung /\ n.strays = d.strays
      <3>1. ~out.hung BY <2>6, <2>9
      <3>2. n = g BY <1>4, <3>1
      <3> QED BY <1>11, <2>7, <2>9, <3>1, <3>2
    <2> QED BY <2>8, <2>9
  <1> QED BY <1>13, <1>14 DEF n

-----------------------------------------------------------------------------
(* Both ports in turn.                                                     *)

LEMMA StopAllIs ==
  ASSUME NEW d \in Device, NEW P \in SUBSET Ports
  PROVE  LET n == StopAll(d, P)
         IN  /\ n \in Device
             /\ n.eth_type = d.eth_type /\ n.wiped = d.wiped
             /\ n.configured \subseteq d.configured
             /\ ~n.hung => n.configured = d.configured \ P
             /\ Held(d) /\ ~d.hung =>
                  /\ ~n.hung => Held(n)
                  /\ P \subseteq d.configured => ~n.hung /\ n.strays = d.strays
  <1> DEFINE one == IF 1 \in P THEN Stop(d, 1) ELSE d
             n == StopAll(d, P)
  <1>1. 1 \in Ports /\ 2 \in Ports /\ (\A q \in P : q = 1 \/ q = 2) BY DEF Ports
  <1>2. /\ one \in Device /\ one.eth_type = d.eth_type /\ one.wiped = d.wiped
        /\ one.configured = d.configured \ (P \cap {1})
        /\ Held(d) /\ ~d.hung =>
             /\ ~one.hung => Held(one)
             /\ P \subseteq d.configured => ~one.hung /\ one.strays = d.strays
    <2>1. CASE 1 \in P
      <3>1. P \cap {1} = {1} BY <2>1
      <3>2. one = Stop(d, 1) BY <2>1
      <3> HIDE DEF one
      <3> QED BY <1>1, <2>1, <3>1, <3>2, StopIs
    <2>2. CASE 1 \notin P BY <2>2
    <2> QED BY <2>1, <2>2
  <1>3. n = IF 2 \in P /\ ~one.hung THEN Stop(one, 2) ELSE one BY DEF StopAll
  <1> HIDE DEF one, n
  <1>4. CASE 2 \in P /\ ~one.hung
    <2>1. /\ n \in Device /\ n.eth_type = one.eth_type /\ n.wiped = one.wiped
          /\ n.configured = one.configured \ {2}
          /\ Held(one) /\ ~one.hung =>
               /\ ~n.hung => Held(n)
               /\ 2 \in one.configured => ~n.hung /\ n.strays = one.strays
      BY <1>1, <1>2, <1>3, <1>4, StopIs
    <2>2. n.configured = d.configured \ P BY <1>1, <1>2, <1>4, <2>1
    <2>3. P \subseteq d.configured => 2 \in one.configured BY <1>2, <1>4
    <2> QED BY <1>2, <1>4, <2>1, <2>2, <2>3 DEF n
  <1>5. CASE 2 \notin P
    <2>1. P \cap {1} = P BY <1>1, <1>5
    <2> QED BY <1>2, <1>3, <1>5, <2>1 DEF n
  <1>6. CASE one.hung
    BY <1>2, <1>3, <1>6 DEF n
  <1> QED BY <1>4, <1>5, <1>6

LEMMA OpenAllIs ==
  ASSUME NEW d \in Device, NEW P \in SUBSET Ports, NEW fail \in [Ports -> Faults]
  PROVE  LET n == OpenAll(d, P, fail)
         IN  /\ n \in Device
             /\ n.eth_type = d.eth_type /\ n.hung = d.hung
             /\ d.configured \subseteq n.configured /\ n.configured \subseteq d.configured \cup P
             /\ n.strays \subseteq d.strays \cup (Ports \X {"tx"})
             /\ Held(d) /\ P \cap d.configured = {} => Held(n) /\ n.wiped = d.wiped
  <1> DEFINE one == IF 1 \in P THEN Open(d, 1, fail[1]) ELSE d
             n == OpenAll(d, P, fail)
  <1>1. /\ 1 \in Ports /\ 2 \in Ports /\ fail[1] \in Faults /\ fail[2] \in Faults
    BY DEF Ports
  <1>2. /\ one \in Device /\ one.eth_type = d.eth_type /\ one.hung = d.hung
        /\ d.configured \subseteq one.configured
        /\ one.configured \subseteq d.configured \cup (P \cap {1})
        /\ one.strays \subseteq d.strays \cup (Ports \X {"tx"})
        /\ Held(d) /\ P \cap d.configured = {} => Held(one) /\ one.wiped = d.wiped
    <2>1. CASE 1 \in P
      <3>1. P \cap {1} = {1} BY <2>1
      <3> DEFINE m == Open(d, 1, fail[1])
      <3>2. OpenEffect(d, 1, m) BY <1>1, OpenIs
      <3>3. P \cap d.configured = {} => 1 \notin d.configured BY <2>1
      <3>4. one = m BY <2>1
      <3> HIDE DEF one, m
      <3> QED BY <3>1, <3>2, <3>3, <3>4 DEF OpenEffect
    <2>2. CASE 1 \notin P BY <2>2
    <2> QED BY <2>1, <2>2
  <1>3. n = IF 2 \in P /\ (1 \in P => 1 \in one.configured) THEN Open(one, 2, fail[2]) ELSE one
    BY DEF OpenAll
  <1> HIDE DEF one, n
  <1>4. CASE 2 \in P /\ (1 \in P => 1 \in one.configured)
    <2>1. /\ n \in Device /\ n.eth_type = one.eth_type /\ n.hung = one.hung
          /\ n.configured \in {one.configured, one.configured \cup {2}}
          /\ n.strays \subseteq one.strays \cup (Ports \X {"tx"})
          /\ Held(one) /\ 2 \notin one.configured => Held(n) /\ n.wiped = one.wiped
      <3>1. OpenEffect(one, 2, Open(one, 2, fail[2])) BY <1>1, <1>2, OpenIs
      <3>2. n = Open(one, 2, fail[2]) BY <1>3, <1>4
      <3> QED BY <3>1, <3>2 DEF OpenEffect
    <2>2. P \cap d.configured = {} => 2 \notin one.configured BY <1>2, <1>4
    <2>3. n.configured \subseteq d.configured \cup P /\ d.configured \subseteq n.configured
      BY <1>2, <1>4, <2>1
    <2>4. n.strays \subseteq d.strays \cup (Ports \X {"tx"}) BY <1>2, <2>1
    <2> QED BY <1>2, <2>1, <2>2, <2>3, <2>4 DEF n
  <1>5. CASE ~(2 \in P /\ (1 \in P => 1 \in one.configured))
    <2>1. n = one BY <1>3, <1>5
    <2> QED BY <1>2, <2>1 DEF n
  <1> QED BY <1>4, <1>5

\* A device with no port open holds nothing, in any mode.
LEMMA NoneOpen ==
  ASSUME NEW d \in Device, NEW mode \in Modes
  PROVE  LET e == [d EXCEPT !.eth_type = mode]
         IN  /\ e \in Device /\ Kept(d, e, {"eth_type"}) /\ e.eth_type = mode
             /\ Held(d) /\ (d.configured = {} \/ mode = d.eth_type) => Held(e)
  <1> DEFINE e == [d EXCEPT !.eth_type = mode]
  <1>1. e \in Device /\ Kept(d, e, {"eth_type"}) /\ e.eth_type = mode
    BY DEF Device, Kept, Fields
  <1> HIDE DEF e
  <1>2. /\ e.configured = d.configured /\ e.prus = d.prus /\ e.iep = d.iep
        /\ e.irqs = d.irqs /\ e.napi = d.napi
    BY <1>1 DEF Kept, Fields
  <1>3. ASSUME Held(d), d.configured = {} PROVE Held(e)
    <2>1. d.prus = {} /\ d.iep = 0 /\ d.irqs = {} /\ d.napi = {}
      BY <1>3, HeldIs DEF IrqsOf
    <2>2. IrqsOf(mode, {}) = {} BY DEF IrqsOf
    <2> QED BY <1>1, <1>2, <1>3, <2>1, <2>2, HeldIs
  <1>4. ASSUME Held(d), mode = d.eth_type PROVE Held(e)
    <2>1. Lre(e) <=> Lre(d) BY <1>1, <1>4 DEF Lre
    <2> QED BY <1>1, <1>2, <1>4, <2>1, HeldIs
  <1> QED BY <1>1, <1>3, <1>4 DEF e

LEMMA ChangeModeIs ==
  ASSUME NEW d \in Device, NEW mode \in Modes, NEW fail \in [Ports -> Faults],
         running \subseteq Ports, d.configured \subseteq running
  PROVE  LET n == ChangeMode(d, mode, fail)
         IN  /\ n \in Device /\ n.configured \subseteq running
             /\ ~n.hung => n.eth_type = mode
             /\ Held(d) /\ ~d.hung =>
                  /\ ~n.hung => Held(n)
                  /\ n.wiped = d.wiped
                  /\ running \subseteq d.configured =>
                       ~n.hung /\ n.strays \subseteq d.strays \cup (Ports \X {"tx"})
  <1> DEFINE closed == StopAll(d, running)
             e == [closed EXCEPT !.eth_type = mode]
             n == ChangeMode(d, mode, fail)
  <1>1. /\ closed \in Device /\ closed.eth_type = d.eth_type /\ closed.wiped = d.wiped
        /\ closed.configured \subseteq d.configured
        /\ ~closed.hung => closed.configured = d.configured \ running
        /\ Held(d) /\ ~d.hung =>
             /\ ~closed.hung => Held(closed)
             /\ running \subseteq d.configured => ~closed.hung /\ closed.strays = d.strays
    BY StopAllIs
  <1>2. n = IF closed.hung THEN closed ELSE OpenAll(e, running, fail) BY DEF ChangeMode
  <1> HIDE DEF closed, n
  <1>3. CASE closed.hung BY <1>1, <1>2, <1>3 DEF n
  <1>4. CASE ~closed.hung
    <2>1. closed.configured = {} BY <1>1, <1>4
    <2>2. /\ e \in Device /\ Kept(closed, e, {"eth_type"}) /\ e.eth_type = mode
          /\ Held(closed) => Held(e)
      BY <1>1, <2>1, NoneOpen
    <2> HIDE DEF e
    <2>3. /\ e.configured = {} /\ e.wiped = d.wiped /\ e.hung = closed.hung
          /\ e.strays = closed.strays
      BY <1>1, <2>1, <2>2 DEF Kept, Fields
    <2> DEFINE m == OpenAll(e, running, fail)
    <2>4. n = m BY <1>2, <1>4
    <2>5. /\ m \in Device /\ m.eth_type = e.eth_type /\ m.hung = e.hung
          /\ m.configured \subseteq e.configured \cup running
          /\ m.strays \subseteq e.strays \cup (Ports \X {"tx"})
          /\ Held(e) /\ running \cap e.configured = {} => Held(m) /\ m.wiped = e.wiped
      BY <2>2, OpenAllIs
    <2> HIDE DEF m
    <2> QED BY <1>1, <1>4, <2>2, <2>3, <2>4, <2>5 DEF n
  <1> QED BY <1>3, <1>4

-----------------------------------------------------------------------------
(* The invariant.  Which ports are open follows from what the net core     *)
(* knows even when nothing else holds any more; what the device holds, as  *)
(* long as the mode has not changed under an open port.                    *)

PortTypes ==
  /\ prueth \in Device
  /\ prueth.configured \subseteq running /\ running \subseteq Ports
  /\ {asleep, stranded, stale, deaf} \subseteq BOOLEAN

RunInv ==
  /\ ~stranded /\ ~asleep /\ ~prueth.hung => running = prueth.configured
  /\ asleep /\ ~prueth.hung => prueth.configured = {}

HeldInv ==
  ~stale =>
    /\ ~prueth.hung => Held(prueth)
    /\ ~stranded => ~prueth.hung /\ prueth.strays \subseteq Ports \X {"tx"}
    /\ ~prueth.wiped

PortInv == PortTypes /\ RunInv /\ HeldInv

LEMMA PortInit == Init => PortInv
  <1> SUFFICES ASSUME Init PROVE PortInv
    OBVIOUS
  <1>1. prueth = [eth_type |-> "EMAC", configured |-> {}, prus |-> {}, iep |-> 0,
                  irqs |-> {}, napi |-> {}, hung |-> FALSE, wiped |-> FALSE, strays |-> {}]
    BY DEF Init
  <1>2. prueth \in Device BY <1>1 DEF Device, Modes
  <1>3. /\ prueth.configured = {} /\ prueth.prus = {} /\ prueth.iep = 0 /\ prueth.irqs = {}
        /\ prueth.napi = {} /\ ~prueth.hung /\ ~prueth.wiped /\ prueth.strays = {}
    BY <1>1
  <1>4. Held(prueth)
    <2>1. IrqsOf(prueth.eth_type, {}) = {} BY DEF IrqsOf
    <2> QED BY <1>2, <1>3, <2>1, HeldIs
  <1>5. running = {} /\ ~asleep /\ ~stranded /\ ~stale
        /\ {asleep, stranded, stale, deaf} \subseteq BOOLEAN
    BY DEF Init
  <1> QED BY <1>2, <1>3, <1>4, <1>5 DEF PortInv, PortTypes, RunInv, HeldInv

LEMMA PortUnchanged ==
  ASSUME PortInv, UNCHANGED <<prueth, running, asleep, stranded, stale>>, deaf' \in BOOLEAN
  PROVE  PortInv'
  BY DEF PortInv, PortTypes, RunInv, HeldInv, Held, Needed, Lre, Alone

LEMMA PortDevOpen ==
  ASSUME PortInv, NEW p \in Ports, NEW fail \in Faults, DevOpen(p, fail) PROVE PortInv'
  <1> DEFINE n == Open(prueth, p, fail)
  <1>1. /\ prueth' = n /\ ~prueth.hung /\ ~asleep /\ p \notin running
        /\ running' = IF p \in n.configured THEN running \cup {p} ELSE running
        /\ UNCHANGED <<asleep, stranded, stale, deaf>>
    BY DEF DevOpen, Alive
  <1>2. prueth \in Device /\ prueth.configured \subseteq running /\ running \subseteq Ports
    BY DEF PortInv, PortTypes
  <1>3. p \notin prueth.configured BY <1>1, <1>2
  <1>4. /\ n \in Device /\ n.hung = prueth.hung
        /\ n.configured \in {prueth.configured, prueth.configured \cup {p}}
        /\ n.strays \subseteq prueth.strays \cup (Ports \X {"tx"})
        /\ Held(prueth) => Held(n) /\ n.wiped = prueth.wiped
    BY <1>2, <1>3, OpenIs DEF OpenEffect
  <1> HIDE DEF n
  <1>5. PortTypes' BY <1>1, <1>2, <1>4 DEF PortInv, PortTypes
  <1>6. RunInv' BY <1>1, <1>3, <1>4 DEF PortInv, RunInv
  <1>7. HeldInv'
    <2>1. ~stale => Held(n) /\ ~n.wiped /\ (~stranded => n.strays \subseteq Ports \X {"tx"})
      BY <1>1, <1>4 DEF PortInv, HeldInv
    <2> QED BY <1>1, <1>4, <2>1 DEF HeldInv
  <1> QED BY <1>5, <1>6, <1>7 DEF PortInv

LEMMA PortDevClose ==
  ASSUME PortInv, NEW p \in Ports, DevClose(p) PROVE PortInv'
  <1> DEFINE n == Stop(prueth, p)
  <1>1. /\ prueth' = n /\ ~prueth.hung /\ ~asleep /\ p \in running
        /\ running' = running \ {p}
        /\ UNCHANGED <<asleep, stranded, stale, deaf>>
    BY DEF DevClose, Alive
  <1>2. prueth \in Device /\ prueth.configured \subseteq running /\ running \subseteq Ports
    BY DEF PortInv, PortTypes
  <1>3. /\ n \in Device /\ n.wiped = prueth.wiped
        /\ n.configured = prueth.configured \ {p}
        /\ Held(prueth) =>
             /\ ~n.hung => Held(n)
             /\ p \in prueth.configured => ~n.hung /\ n.strays = prueth.strays
    BY <1>1, <1>2, StopIs
  <1> HIDE DEF n
  <1>4. PortTypes' BY <1>1, <1>2, <1>3 DEF PortInv, PortTypes
  <1>5. RunInv' BY <1>1, <1>3 DEF PortInv, RunInv
  <1>6. HeldInv'
    <2>1. ~stranded => p \in prueth.configured BY <1>1 DEF PortInv, RunInv
    <2> QED BY <1>1, <1>3, <2>1 DEF PortInv, HeldInv
  <1> QED BY <1>4, <1>5, <1>6 DEF PortInv

LEMMA PortFeatures ==
  ASSUME PortInv, NEW p \in Ports, NEW wanted \in Offloads \cup {"none"},
         emac_ndo_set_features(p, wanted)
  PROVE  PortInv' /\ prueth'.eth_type # "SWITCH"
  <1> DEFINE mode == IF wanted = "none" THEN "EMAC" ELSE wanted
             n == [prueth EXCEPT !.eth_type = mode]
  <1>1. /\ prueth' = n /\ UNCHANGED <<running, asleep, stranded, deaf>>
        /\ stale' = (stale \/ (mode # prueth.eth_type /\ prueth.configured # {}))
    BY DEF emac_ndo_set_features, core
  <1>2. mode \in Modes /\ mode # "SWITCH" BY DEF Modes, Offloads
  <1>3. prueth \in Device BY DEF PortInv, PortTypes
  <1> HIDE DEF mode
  <1>4. /\ n \in Device /\ Kept(prueth, n, {"eth_type"}) /\ n.eth_type = mode
        /\ Held(prueth) /\ (prueth.configured = {} \/ mode = prueth.eth_type) => Held(n)
    BY <1>2, <1>3, NoneOpen
  <1>5. /\ n.configured = prueth.configured /\ n.hung = prueth.hung
        /\ n.wiped = prueth.wiped /\ n.strays = prueth.strays
    BY <1>4 DEF Kept, Fields
  <1> HIDE DEF n
  <1>6. PortTypes' BY <1>1, <1>4, <1>5 DEF PortInv, PortTypes
  <1>7. RunInv' BY <1>1, <1>5 DEF PortInv, RunInv
  <1>8. HeldInv' BY <1>1, <1>4, <1>5 DEF PortInv, HeldInv
  <1> QED BY <1>1, <1>2, <1>4, <1>6, <1>7, <1>8 DEF PortInv

\* The mode follows the members of the bridge.
LEMMA PortUpdate ==
  ASSUME PortInv, ~prueth.hung, ~asleep, NEW members, NEW fail \in [Ports -> Faults],
         UpdateMode(members, fail), UNCHANGED <<running, asleep>>, deaf' \in BOOLEAN
  PROVE  /\ PortInv'
         /\ members = {} /\ ~prueth'.hung => prueth'.eth_type # "SWITCH"
  <1> DEFINE mode == CASE members = Ports -> "SWITCH"
                       [] members = {} -> "EMAC"
                       [] OTHER -> prueth.eth_type
             n == ChangeMode(prueth, mode, fail)
  <1>1. prueth \in Device /\ prueth.configured \subseteq running /\ running \subseteq Ports
    BY DEF PortInv, PortTypes
  <1>2. mode \in Modes BY <1>1 DEF Device, Modes
  <1>3. members = {} => mode = "EMAC" BY DEF Ports
  <1>4. CASE mode = prueth.eth_type
    <2>1. UNCHANGED <<prueth, stranded, stale>> BY <1>4 DEF UpdateMode
    <2>2. PortInv' BY <2>1, PortUnchanged
    <2> QED BY <1>3, <1>4, <2>1, <2>2
  <1>5. CASE mode # prueth.eth_type
    <2>1. /\ prueth' = n
          /\ stranded' = (stranded \/ ~(running \subseteq prueth'.configured))
          /\ stale' \in BOOLEAN /\ (~stale' => ~stale)
      <3>1. /\ prueth' = n /\ Strand(running)
            /\ stale' = (stale \/ StopAll(prueth, running).configured # {})
        BY <1>5 DEF UpdateMode
      <3> HIDE DEF n
      <3> QED BY <3>1 DEF Strand
    <2> HIDE DEF mode
    <2>2. /\ n \in Device /\ n.configured \subseteq running
          /\ ~n.hung => n.eth_type = mode
          /\ Held(prueth) /\ ~prueth.hung =>
               /\ ~n.hung => Held(n)
               /\ n.wiped = prueth.wiped
               /\ running \subseteq prueth.configured =>
                    ~n.hung /\ n.strays \subseteq prueth.strays \cup (Ports \X {"tx"})
      BY <1>1, <1>2, ChangeModeIs
    <2> HIDE DEF n
    <2>3. PortTypes' BY <2>1, <2>2 DEF PortInv, PortTypes
    <2>4. RunInv' BY <2>1, <2>2 DEF PortInv, RunInv
    <2>5. HeldInv'
      <3>1. ~stranded => running \subseteq prueth.configured BY DEF PortInv, RunInv
      <3> QED BY <2>1, <2>2, <3>1 DEF PortInv, HeldInv
    <2> QED BY <1>3, <2>1, <2>2, <2>3, <2>4, <2>5 DEF PortInv
  <1> QED BY <1>4, <1>5

LEMMA PortLink ==
  ASSUME PortInv, NEW p \in Ports, NEW b, NEW fail \in [Ports -> Faults], Link(p, b, fail)
  PROVE  PortInv'
  <1>1. /\ ~prueth.hung /\ ~asleep /\ UNCHANGED <<running, asleep, deaf>> /\ deaf \in BOOLEAN
    BY DEF Link, Alive, core, PortInv, PortTypes
  <1>2. CASE Listens(p)
    <2> DEFINE members == br_members'
    <2>1. UpdateMode(members, fail) BY <1>2 DEF Link
    <2> HIDE DEF members
    <2> QED BY <1>1, <2>1, PortUpdate
  <1>3. CASE ~Listens(p)
    <2>1. UNCHANGED <<prueth, stranded, stale>> BY <1>3 DEF Link
    <2> QED BY <1>1, <2>1, PortUnchanged
  <1> QED BY <1>2, <1>3

LEMMA PortUnlink ==
  ASSUME PortInv, NEW p \in Ports, NEW fail \in [Ports -> Faults], Unlink(p, fail)
  PROVE  PortInv' /\ (Listens(p) /\ br_members' = {} /\ ~prueth'.hung =>
                        prueth'.eth_type # "SWITCH")
  <1>1. /\ ~prueth.hung /\ ~asleep /\ UNCHANGED <<running, asleep>> /\ deaf' \in BOOLEAN
    BY DEF Unlink, Alive, core, PortInv, PortTypes
  <1>2. CASE Listens(p)
    <2> DEFINE members == br_members'
    <2>1. UpdateMode(members, fail) BY <1>2 DEF Unlink
    <2> HIDE DEF members
    <2>2. PortInv' /\ (members = {} /\ ~prueth'.hung => prueth'.eth_type # "SWITCH")
      BY <1>1, <2>1, PortUpdate
    <2> QED BY <2>2 DEF members
  <1>3. CASE ~Listens(p)
    <2>1. UNCHANGED <<prueth, stranded, stale>> BY <1>3 DEF Unlink
    <2> QED BY <1>1, <1>3, <2>1, PortUnchanged
  <1> QED BY <1>2, <1>3

LEMMA PortSuspend ==
  ASSUME PortInv, prueth_suspend PROVE PortInv'
  <1> DEFINE n == StopAll(prueth, running)
  <1>1. /\ prueth' = n /\ ~prueth.hung /\ ~asleep /\ asleep' = TRUE
        /\ UNCHANGED <<running, stranded, stale, deaf>>
    BY DEF prueth_suspend, Alive
  <1>2. prueth \in Device /\ prueth.configured \subseteq running /\ running \subseteq Ports
    BY DEF PortInv, PortTypes
  <1>3. /\ n \in Device /\ n.wiped = prueth.wiped
        /\ n.configured \subseteq prueth.configured
        /\ ~n.hung => n.configured = prueth.configured \ running
        /\ Held(prueth) =>
             /\ ~n.hung => Held(n)
             /\ running \subseteq prueth.configured => ~n.hung /\ n.strays = prueth.strays
    BY <1>1, <1>2, StopAllIs
  <1> HIDE DEF n
  <1>4. PortTypes' BY <1>1, <1>2, <1>3 DEF PortInv, PortTypes
  <1>5. RunInv' BY <1>1, <1>2, <1>3 DEF RunInv
  <1>6. HeldInv'
    <2>1. ~stranded => running \subseteq prueth.configured BY <1>1 DEF PortInv, RunInv
    <2> QED BY <1>1, <1>3, <2>1 DEF PortInv, HeldInv
  <1> QED BY <1>4, <1>5, <1>6 DEF PortInv

LEMMA PortResume ==
  ASSUME PortInv, NEW fail \in [Ports -> Faults], prueth_resume(fail) PROVE PortInv'
  <1> DEFINE n == OpenAll(prueth, running, fail)
  <1>1. /\ prueth' = n /\ ~prueth.hung /\ asleep /\ asleep' = FALSE
        /\ UNCHANGED <<running, stale, deaf>>
        /\ stranded' = (stranded \/ ~(running \subseteq prueth'.configured))
    BY DEF prueth_resume, Strand
  <1>2. prueth \in Device /\ prueth.configured = {} /\ running \subseteq Ports
    BY <1>1 DEF PortInv, PortTypes, RunInv
  <1>3. /\ n \in Device /\ n.hung = prueth.hung
        /\ n.configured \subseteq prueth.configured \cup running
        /\ n.strays \subseteq prueth.strays \cup (Ports \X {"tx"})
        /\ Held(prueth) /\ running \cap prueth.configured = {} =>
             Held(n) /\ n.wiped = prueth.wiped
    <2>1. prueth \in Device /\ running \in SUBSET Ports BY <1>2
    <2> QED BY <2>1, OpenAllIs
  <1> HIDE DEF n
  <1>4. PortTypes' BY <1>1, <1>2, <1>3 DEF PortInv, PortTypes
  <1>5. RunInv' BY <1>1, <1>2, <1>3 DEF RunInv
  <1>6. HeldInv' BY <1>1, <1>2, <1>3 DEF PortInv, HeldInv
  <1> QED BY <1>4, <1>5, <1>6 DEF PortInv

LEMMA PortNext == PortInv /\ [Next]_vars => PortInv'
  <1> SUFFICES ASSUME PortInv, [Next]_vars PROVE PortInv'
    OBVIOUS
  <1>1. ASSUME NEW p \in Ports, NEW fail \in Faults, DevOpen(p, fail) PROVE PortInv'
    BY <1>1, PortDevOpen
  <1>2. ASSUME NEW p \in Ports, DevClose(p) PROVE PortInv'
    BY <1>2, PortDevClose
  <1>3. ASSUME NEW p \in Ports, NEW wanted \in Offloads \cup {"none"},
               emac_ndo_set_features(p, wanted)
        PROVE  PortInv'
    BY <1>3, PortFeatures
  <1>4. ASSUME NEW p \in Ports, NEW b \in Bridges, NEW fail \in [Ports -> Faults],
               Link(p, b, fail)
        PROVE  PortInv'
    BY <1>4, PortLink
  <1>5. ASSUME NEW p \in Ports, NEW fail \in [Ports -> Faults], Unlink(p, fail)
        PROVE  PortInv'
    BY <1>5, PortUnlink
  <1>6. CASE prueth_suspend BY <1>6, PortSuspend
  <1>7. ASSUME NEW fail \in [Ports -> Faults], prueth_resume(fail) PROVE PortInv'
    BY <1>7, PortResume
  <1>8. CASE UNCHANGED vars
    <2>1. UNCHANGED <<prueth, running, asleep, stranded, stale>> /\ deaf' = deaf
      BY <1>8 DEF vars, core
    <2> QED BY <2>1, PortUnchanged DEF PortInv, PortTypes
  <1> QED BY <1>1, <1>2, <1>3, <1>4, <1>5, <1>6, <1>7, <1>8 DEF Next

\* Whatever has been opened, closed, refused half way and undone, in any mode
\* and in any order: what the driver holds is what the open ports need, no
\* other interrupt than a tx interrupt has been freed that was not requested,
\* and the ports that are up are those the driver has opened.
THEOREM HoldsAlways == Spec => []HoldsWhatItNeeds
  <1>1. PortInv => HoldsWhatItNeeds
    BY DEF PortInv, RunInv, HeldInv, HoldsWhatItNeeds, ResourcesHeld, RunningIsOpen
  <1> QED BY <1>1, PortInit, PortNext, PTL DEF Spec

\* emac_ndo_open() of the first port never clears memory a PRU works in.
THEOREM WipedNever == Spec => []NeverWiped
  <1>1. PortInv => NeverWiped
    BY DEF PortInv, HeldInv, NeverWiped
  <1> QED BY <1>1, PortInit, PortNext, PTL DEF Spec

\* napi_disable() in emac_ndo_stop() returns, as long as every port the
\* driver itself has closed could be opened again.
THEOREM HangsNever == Spec => []NeverHangs
  <1>1. PortInv => NeverHangs
    BY DEF PortInv, HeldInv, NeverHangs
  <1> QED BY <1>1, PortInit, PortNext, PTL DEF Spec

-----------------------------------------------------------------------------
(* What the driver knows of the bridges.                                   *)

BridgeInv ==
  /\ br_members \subseteq Ports
  /\ upper \in [Ports -> Bridges \cup {NoBridge}]
  /\ ~prueth.hung /\ prueth.eth_type = "SWITCH" => br_members # {}
  /\ ~deaf => \A p \in br_members : upper[p] = hw_bridge_dev /\ hw_bridge_dev \in Bridges

LEMMA BridgeKept ==
  ASSUME BridgeInv, UNCHANGED <<upper, br_members, hw_bridge_dev, deaf>>,
         ~prueth'.hung /\ prueth'.eth_type = "SWITCH" =>
           ~prueth.hung /\ prueth.eth_type = "SWITCH"
  PROVE  BridgeInv'
  BY DEF BridgeInv

LEMMA BridgeLink ==
  ASSUME BridgeInv, NEW p \in Ports, NEW b \in Bridges, NEW fail, Link(p, b, fail)
  PROVE  BridgeInv'
  <1>1. /\ upper[p] = NoBridge /\ upper' = [upper EXCEPT ![p] = b] /\ deaf' = deaf
    BY DEF Link
  <1>2. /\ upper' \in [Ports -> Bridges \cup {NoBridge}] /\ upper'[p] = b
        /\ \A q \in Ports \ {p} : upper'[q] = upper[q]
    BY <1>1 DEF BridgeInv
  <1>3. CASE Listens(p)
    <2>1. /\ br_members = {} \/ hw_bridge_dev = b
          /\ hw_bridge_dev' = b /\ br_members' = br_members \cup {p}
      BY <1>3 DEF Link
    <2>2. ASSUME ~deaf', NEW q \in br_members' PROVE upper'[q] = b
      <3>1. CASE q = p BY <1>2, <3>1
      <3>2. CASE q # p
        <4>1. q \in br_members /\ hw_bridge_dev = b BY <2>1, <2>2, <3>2
        <4> QED BY <1>1, <1>2, <2>2, <3>2, <4>1 DEF BridgeInv
      <3> QED BY <3>1, <3>2
    <2>3. br_members' \subseteq Ports /\ br_members' # {} BY <2>1 DEF BridgeInv
    <2> QED BY <1>2, <2>1, <2>2, <2>3 DEF BridgeInv
  <1>4. CASE ~Listens(p)
    <2>1. UNCHANGED <<br_members, hw_bridge_dev, prueth>> BY <1>4 DEF Link
    <2>2. ~deaf => p \notin br_members BY <1>1, PortAssumption DEF BridgeInv
    <2> QED BY <1>1, <1>2, <2>1, <2>2 DEF BridgeInv
  <1> QED BY <1>3, <1>4

LEMMA BridgeUnlink ==
  ASSUME PortInv, BridgeInv, NEW p \in Ports, NEW fail \in [Ports -> Faults], Unlink(p, fail)
  PROVE  BridgeInv'
  <1>1. upper' = [upper EXCEPT ![p] = NoBridge] BY DEF Unlink
  <1>2. /\ upper' \in [Ports -> Bridges \cup {NoBridge}]
        /\ \A q \in Ports \ {p} : upper'[q] = upper[q]
    BY <1>1 DEF BridgeInv
  <1>3. CASE Listens(p)
    <2>1. /\ br_members' = br_members \ {p} /\ deaf' = deaf
          /\ hw_bridge_dev' = IF br_members' = {} THEN NoBridge ELSE hw_bridge_dev
      BY <1>3 DEF Unlink
    <2>2. ~prueth'.hung /\ prueth'.eth_type = "SWITCH" => br_members' # {}
      BY <1>3, PortUnlink
    <2>3. ASSUME ~deaf', NEW q \in br_members'
          PROVE  upper'[q] = hw_bridge_dev' /\ hw_bridge_dev' \in Bridges
      <3>1. q \in br_members /\ q \in Ports \ {p} /\ hw_bridge_dev' = hw_bridge_dev
        BY <2>1, <2>3 DEF BridgeInv
      <3> QED BY <1>2, <2>1, <2>3, <3>1 DEF BridgeInv
    <2>4. br_members' \subseteq Ports BY <2>1 DEF BridgeInv
    <2> QED BY <1>2, <2>2, <2>3, <2>4 DEF BridgeInv
  <1>4. CASE ~Listens(p)
    <2>1. /\ UNCHANGED <<br_members, hw_bridge_dev, prueth>>
          /\ ~deaf' => ~deaf /\ p \notin br_members
      BY <1>4 DEF Unlink
    <2> QED BY <1>2, <2>1 DEF BridgeInv
  <1> QED BY <1>3, <1>4

LEMMA BridgeNext == PortInv /\ BridgeInv /\ [Next]_vars => BridgeInv'
  <1> SUFFICES ASSUME PortInv, BridgeInv, [Next]_vars PROVE BridgeInv'
    OBVIOUS
  <1>0. prueth \in Device /\ running \subseteq Ports BY DEF PortInv, PortTypes
  <1>1. ASSUME NEW p \in Ports, NEW fail \in Faults, DevOpen(p, fail) PROVE BridgeInv'
    <2> DEFINE n == Open(prueth, p, fail)
    <2>1. n.eth_type = prueth.eth_type /\ n.hung = prueth.hung BY <1>0, OpenIs DEF OpenEffect
    <2>2. prueth' = n /\ UNCHANGED <<upper, br_members, hw_bridge_dev, deaf>>
      BY <1>1 DEF DevOpen, bridge
    <2> HIDE DEF n
    <2> QED BY <2>1, <2>2, BridgeKept
  <1>2. ASSUME NEW p \in Ports, DevClose(p) PROVE BridgeInv'
    <2> DEFINE n == Stop(prueth, p)
    <2>1. n.eth_type = prueth.eth_type BY <1>0, StopIs
    <2>2. prueth' = n /\ ~prueth.hung /\ UNCHANGED <<upper, br_members, hw_bridge_dev, deaf>>
      BY <1>2 DEF DevClose, Alive, bridge
    <2> HIDE DEF n
    <2> QED BY <2>1, <2>2, BridgeKept
  <1>3. ASSUME NEW p \in Ports, NEW wanted \in Offloads \cup {"none"},
               emac_ndo_set_features(p, wanted)
        PROVE  BridgeInv'
    <2>1. UNCHANGED <<upper, br_members, hw_bridge_dev, deaf>>
      BY <1>3 DEF emac_ndo_set_features, bridge
    <2> QED BY <1>3, <2>1, PortFeatures, BridgeKept
  <1>4. ASSUME NEW p \in Ports, NEW b \in Bridges, NEW fail \in [Ports -> Faults],
               Link(p, b, fail)
        PROVE  BridgeInv'
    BY <1>4, BridgeLink
  <1>5. ASSUME NEW p \in Ports, NEW fail \in [Ports -> Faults], Unlink(p, fail)
        PROVE  BridgeInv'
    BY <1>5, BridgeUnlink
  <1>6. CASE prueth_suspend
    <2> DEFINE n == StopAll(prueth, running)
    <2>1. n.eth_type = prueth.eth_type BY <1>0, StopAllIs
    <2>2. prueth' = n /\ ~prueth.hung /\ UNCHANGED <<upper, br_members, hw_bridge_dev, deaf>>
      BY <1>6 DEF prueth_suspend, Alive, bridge
    <2> HIDE DEF n
    <2> QED BY <2>1, <2>2, BridgeKept
  <1>7. ASSUME NEW fail \in [Ports -> Faults], prueth_resume(fail) PROVE BridgeInv'
    <2> DEFINE n == OpenAll(prueth, running, fail)
    <2>1. n.eth_type = prueth.eth_type /\ n.hung = prueth.hung BY <1>0, OpenAllIs
    <2>2. prueth' = n /\ UNCHANGED <<upper, br_members, hw_bridge_dev, deaf>>
      BY <1>7 DEF prueth_resume, bridge
    <2> HIDE DEF n
    <2> QED BY <2>1, <2>2, BridgeKept
  <1>8. CASE UNCHANGED vars
    BY <1>8, BridgeKept DEF vars, bridge
  <1> QED BY <1>1, <1>2, <1>3, <1>4, <1>5, <1>6, <1>7, <1>8 DEF Next

\* However the ports enter and leave bridges, whatever refuses or fails: the
\* members the driver counts are in the bridge it knows, and it is a switch
\* only while a port is in a bridge; as long as it hears of every port that
\* leaves.
THEOREM BridgeAlways == Spec => []BridgeKnown
  <1>1. Init => PortInv /\ BridgeInv
    <2>1. Init => BridgeInv BY DEF Init, BridgeInv
    <2> QED BY <2>1, PortInit
  <1>2. PortInv /\ BridgeInv /\ [Next]_vars => (PortInv /\ BridgeInv)'
    BY PortNext, BridgeNext
  <1>3. BridgeInv => BridgeKnown
    <2> SUFFICES ASSUME BridgeInv PROVE BridgeKnown
      OBVIOUS
    <2>1. MembersInBridge BY PortAssumption DEF BridgeInv, MembersInBridge
    <2>2. BackToEmac BY PortAssumption DEF BridgeInv, BackToEmac
    <2> QED BY <2>1, <2>2 DEF BridgeKnown
  <1> QED BY <1>1, <1>2, <1>3, PTL DEF Spec
=============================================================================

----------------------------- MODULE PruethPort ------------------------------
(***************************************************************************)
(* The life of the two ports: opening and closing them, turning HSR or PRP *)
(* offload on and off, adding them to a bridge and removing them, suspend  *)
(* and resume.  The ports share the mode (eth_type), the RAM of the PRU    *)
(* subsystem and the IEP timer; who is first and who is last is decided by *)
(* emac_configured.  Any acquisition of a port that is opened may fail.    *)
(*                                                                         *)
(* All of this runs under rtnl_lock (suspend and resume with user space    *)
(* frozen), so that every operation is one step; what is hard is the order *)
(* in which operations and failures may follow each other.                 *)
(***************************************************************************)
EXTENDS Integers

CONSTANTS Bridges,  \* the bridges of the system
          NoBridge,
          Wired,    \* the interrupts of a port in the device tree, of Irqs
          Firmware, \* the modes the SoC has firmware for
          Fails     \* the steps of emac_ndo_open() that may fail, of Steps

Ports == {1, 2}
Irqs == {"rx", "tx", "ptp"}
Offloads == {"HSR", "PRP"}
Modes == {"EMAC", "SWITCH"} \cup Offloads
Steps == {"config", "iep", "boot", "rx", "tx", "ptp"}

ASSUME PortAssumption ==
  /\ NoBridge \notin Bridges
  /\ "rx" \in Wired /\ Wired \subseteq Irqs
  /\ {"EMAC"} \cup Offloads \subseteq Firmware /\ Firmware \subseteq Modes
  /\ Fails \subseteq Steps

VARIABLES
  prueth,        \* the device: its mode and everything its ports have acquired
  running,       \* netif_running(): ports that are up as far as the net core knows
  present,       \* netif_device_present()
  asleep,        \* between suspend and resume
  offload,       \* the offload flag in the features of every port
  upper,         \* the bridge every port is in
  br_members,    \* the ports the driver takes to be in a bridge
  hw_bridge_dev, \* and in which
  \* history
  stranded,      \* the driver itself has closed a port and failed to reopen it
  stale,         \* the mode has changed under an open port
  deaf           \* a port has left its bridge without the driver noticing

core == <<running, present, asleep>>
bridge == <<upper, br_members, hw_bridge_dev>>
vars == <<prueth, core, offload, bridge, stranded, stale, deaf>>

-----------------------------------------------------------------------------
(* Parts of emac_ndo_open() and emac_ndo_stop(): what they do to the        *)
(* device d for port p.                                                    *)

Alone(d) == d.configured = {}
Lre(d) == d.eth_type \in Offloads

\* A slip: every port that is opened initialises the host.
HostInitAlways(d) == [d EXCEPT !.wiped = @ \/ d.prus # {}]

\* prueth_init_ethernet_mode() clears the memories the firmware works in.
HostInit(d) ==
  IF Alone(d) THEN [d EXCEPT !.wiped = @ \/ d.prus # {}] ELSE d

\* emac_sanitize_feature_flags()
Sane(d, p) ==
  IF Lre(d) THEN offload[p] = d.eth_type ELSE offload[p] = "none"

IepInit(d) == IF Alone(d) THEN [d EXCEPT !.iep = @ + 1] ELSE d
IepExit(d) == IF Alone(d) THEN [d EXCEPT !.iep = @ - 1] ELSE d

\* emac_set_boot_pru(), or both PRUs with the first port (external).
Boot(d, p) ==
  CASE d.eth_type = "EMAC" -> [d EXCEPT !.prus = @ \cup {p}]
    [] d.eth_type # "EMAC" /\ Alone(d) -> [d EXCEPT !.prus = Ports]
    [] OTHER -> d
Shutdown(d, p) ==
  CASE d.eth_type = "EMAC" -> [d EXCEPT !.prus = @ \ {p}]
    [] d.eth_type # "EMAC" /\ Alone(d) -> [d EXCEPT !.prus = {}]
    [] OTHER -> d

\* The interrupts of a port in the mode of the device; those of the LRE
\* queues belong to both ports (external).
Needed(d, p) ==
  LET names == CASE d.eth_type = "EMAC" -> Wired
                 [] d.eth_type = "SWITCH" -> Wired \ {"tx"}
                 [] OTHER -> Wired \cap {"ptp"}
  IN {<<p, name>> : name \in names}
       \cup IF Lre(d) /\ Alone(d) THEN {<<0, "lre">>} ELSE {}

RequestIrqs(d, p) == [d EXCEPT !.irqs = @ \cup Needed(d, p)]
FreeIrqs(d, irqs) == [d EXCEPT !.irqs = @ \ irqs, !.strays = @ \cup (irqs \ d.irqs)]

\* A slip: the rx interrupt stays requested.
RequestFailsKeepsRx(d, p, irq) ==
  IF irq = "rx" \/ Lre(d) THEN d
  ELSE [d EXCEPT !.irqs = @ \cup {<<p, "rx">>}]

\* emac_request_irqs() when the request of one of them fails.  With the PTP
\* interrupt the tx interrupt is freed, whether or not it was requested.
RequestFails(d, p, irq) ==
  CASE irq = "rx" \/ Lre(d) -> d
    [] irq = "tx" /\ ~Lre(d) ->
         FreeIrqs([d EXCEPT !.irqs = @ \cup {<<p, "rx">>}], {<<p, "rx">>})
    [] irq = "ptp" /\ ~Lre(d) ->
         FreeIrqs([d EXCEPT !.irqs = @ \cup (Needed(d, p) \ {<<p, "ptp">>})],
                  {<<p, "rx">>, <<p, "tx">>})

\* NAPI of the port, or of the LRE queues with the first and last port (0).
\* napi_disable() waits for ever if it is not enabled.
NapiEnable(d, p) ==
  CASE ~Lre(d) -> [d EXCEPT !.napi = @ \cup {p}]
    [] Lre(d) /\ Alone(d) -> [d EXCEPT !.napi = @ \cup {0}]
    [] OTHER -> d
\* A slip: with HSR and PRP every port disables the common NAPI contexts.
NapiDisableEach(d, p) ==
  LET n == IF Lre(d) THEN 0 ELSE p
  IN [d EXCEPT !.napi = @ \ {n}, !.hung = @ \/ n \notin d.napi]

NapiDisable(d, p) ==
  LET n == IF Lre(d) THEN 0 ELSE p
  IN IF Lre(d) /\ ~Alone(d) THEN d
     ELSE [d EXCEPT !.napi = @ \ {n}, !.hung = @ \/ n \notin d.napi]

-----------------------------------------------------------------------------
(* emac_ndo_open(): the device afterwards, when the step "fail" fails.      *)

\* The step the call really fails at, or "none".
FailsAt(d, p, fail) ==
  IF ~Sane(d, p) THEN "sanitize"
  ELSE IF (fail = "config" /\ d.eth_type # "EMAC") \/ (fail = "iep" /\ Alone(d)) THEN fail
  ELSE IF \/ d.eth_type \notin Firmware
          \/ fail = "boot" /\ (d.eth_type = "EMAC" \/ Alone(d)) THEN "boot"
  ELSE IF <<p, fail>> \in Needed(d, p) THEN fail ELSE "none"

Opened(d, p) ==
  LET up == NapiEnable(RequestIrqs(Boot(IepInit(d), p), p), p)
  IN [up EXCEPT !.configured = @ \cup {p}]

\* The labels at the end of emac_ndo_open(), from the one at fault on.
Unwound(d, p, at) ==
  CASE at \in {"sanitize", "config", "iep"} -> d
    [] at = "boot" -> IepExit(IepInit(d))
    [] at \in Irqs ->
         IepExit(Shutdown(RequestFails(Boot(IepInit(d), p), p, at), p))

Open(d, p, fail) ==
  LET ready == HostInit(d)
      at == FailsAt(ready, p, fail)
  IN IF at = "none" THEN Opened(ready, p) ELSE Unwound(ready, p, at)

\* emac_ndo_stop(), which never fails but may never end.
Stop(d, p) ==
  LET out == NapiDisable([d EXCEPT !.configured = @ \ {p}], p)
  IN IF out.hung THEN out
     ELSE FreeIrqs(IepExit(Shutdown(out, p)), Needed(out, p))

\* Both ports in turn, those that run; the second port is not opened when
\* the first one fails.
StopAll(d, ports) ==
  LET first == IF 1 \in ports THEN Stop(d, 1) ELSE d
  IN IF 2 \in ports /\ ~first.hung THEN Stop(first, 2) ELSE first

OpenAll(d, ports, fail) ==
  LET first == IF 1 \in ports THEN Open(d, 1, fail[1]) ELSE d
  IN IF 2 \in ports /\ (1 \in ports => 1 \in first.configured)
     THEN Open(first, 2, fail[2]) ELSE first

\* prueth_change_to_switch_mode() and prueth_change_to_emac_mode()
ChangeMode(d, mode, fail) ==
  LET closed == StopAll(d, running)
  IN IF closed.hung THEN closed
     ELSE OpenAll([closed EXCEPT !.eth_type = mode], running, fail)

-----------------------------------------------------------------------------
Init ==
  /\ prueth = [eth_type |-> "EMAC", configured |-> {}, prus |-> {}, iep |-> 0,
               irqs |-> {}, napi |-> {}, hung |-> FALSE, wiped |-> FALSE,
               strays |-> {}]
  /\ running = {} /\ present = Ports /\ asleep = FALSE
  /\ offload = [p \in Ports |-> "none"]
  /\ upper = [p \in Ports |-> NoBridge]
  /\ br_members = {} /\ hw_bridge_dev = NoBridge
  /\ stranded = FALSE /\ stale = FALSE /\ deaf = FALSE

\* The system still works and is awake.
Alive == ~prueth.hung /\ ~asleep

\* Every open may fail at a step, or not.
Faults == Fails \cup {"none"}

\* Reopening the ports of P has failed for one of them.
Strand(P) == stranded' = (stranded \/ ~(P \subseteq prueth'.configured))

-----------------------------------------------------------------------------
(* The net core opens and closes a port.                                   *)

DevOpen(p, fail) ==
  /\ Alive
  /\ p \in present \ running
  /\ prueth' = Open(prueth, p, fail)
  /\ running' = IF p \in prueth'.configured THEN running \cup {p} ELSE running
  /\ UNCHANGED <<present, asleep, offload, bridge, stranded, stale, deaf>>

DevClose(p) ==
  /\ Alive
  /\ p \in running
  /\ running' = running \ {p}
  /\ prueth' = Stop(prueth, p)
  /\ UNCHANGED <<present, asleep, offload, bridge, stranded, stale, deaf>>

-----------------------------------------------------------------------------
(* emac_ndo_set_features(): the user changes some features of port p, and  *)
(* wants HSR, PRP or neither.                                              *)

emac_ndo_set_features(p, wanted) ==
  /\ Alive
  /\ prueth.eth_type # "SWITCH"
  /\ wanted # offload[p] => running = {}
  /\ LET mode == IF wanted = "none" THEN "EMAC" ELSE wanted
     IN /\ prueth' = [prueth EXCEPT !.eth_type = mode]
        /\ stale' = (stale \/ (mode # prueth.eth_type /\ prueth.configured # {}))
  /\ offload' = [offload EXCEPT ![p] = wanted]
  /\ UNCHANGED <<core, bridge, stranded, deaf>>

-----------------------------------------------------------------------------
(* prueth_ndev_event(): a port enters or leaves a bridge.  With an offload *)
(* flag the port takes no part (prueth_sw_port_dev_check).                 *)

Listens(p) == offload[p] = "none"

\* prueth_port_offload_fwd_mark_update() for the new set of members: both
\* ports make a switch, none makes two EMACs; reopening may fail.
UpdateMode(members, fail) ==
  LET mode == CASE members = Ports -> "SWITCH"
                [] members = {} -> "EMAC"
                [] OTHER -> prueth.eth_type
  IN IF mode = prueth.eth_type
     THEN UNCHANGED <<prueth, stranded, stale>>
     ELSE /\ prueth' = ChangeMode(prueth, mode, fail)
          /\ Strand(running)
          /\ stale' = (stale \/ StopAll(prueth, running).configured # {})

\* A slip: a second bridge is taken for the first one.
LinkAnyBridge(p, b, fail) ==
  /\ Alive
  /\ upper[p] = NoBridge
  /\ upper' = [upper EXCEPT ![p] = b]
  /\ IF Listens(p)
     THEN /\ hw_bridge_dev' = b
          /\ br_members' = br_members \cup {p}
          /\ UpdateMode(br_members', fail)
     ELSE UNCHANGED <<br_members, hw_bridge_dev, prueth, stranded, stale>>
  /\ UNCHANGED <<core, offload, deaf>>

\* prueth_ndev_port_link(): a second bridge is refused, and the net core
\* then takes the port out again.
Link(p, b, fail) ==
  /\ Alive
  /\ upper[p] = NoBridge
  /\ Listens(p) => br_members = {} \/ hw_bridge_dev = b
  /\ upper' = [upper EXCEPT ![p] = b]
  /\ IF Listens(p)
     THEN /\ hw_bridge_dev' = b
          /\ br_members' = br_members \cup {p}
          /\ UpdateMode(br_members', fail)
     ELSE UNCHANGED <<br_members, hw_bridge_dev, prueth, stranded, stale>>
  /\ UNCHANGED <<core, offload, deaf>>

\* prueth_ndev_port_unlink()
Unlink(p, fail) ==
  /\ Alive
  /\ upper[p] # NoBridge
  /\ upper' = [upper EXCEPT ![p] = NoBridge]
  /\ IF Listens(p)
     THEN /\ br_members' = br_members \ {p}
          /\ UpdateMode(br_members', fail)
          /\ hw_bridge_dev' = IF br_members' = {} THEN NoBridge ELSE hw_bridge_dev
          /\ UNCHANGED deaf
     ELSE /\ deaf' = (deaf \/ p \in br_members)
          /\ UNCHANGED <<br_members, hw_bridge_dev, prueth, stranded, stale>>
  /\ UNCHANGED <<core, offload>>

-----------------------------------------------------------------------------
(* prueth_suspend() and prueth_resume(); the first port that cannot be     *)
(* opened ends the resume, and only opened ports are attached again.       *)

prueth_suspend ==
  /\ Alive
  /\ asleep' = TRUE
  /\ present' = present \ running
  /\ prueth' = StopAll(prueth, running)
  /\ UNCHANGED <<running, offload, bridge, stranded, stale, deaf>>

prueth_resume(fail) ==
  /\ asleep
  /\ ~prueth.hung
  /\ asleep' = FALSE
  /\ prueth' = OpenAll(prueth, running, fail)
  /\ present' = present \cup (running \cap prueth'.configured)
  /\ Strand(running)
  /\ UNCHANGED <<running, offload, bridge, stale, deaf>>

-----------------------------------------------------------------------------
Next ==
  \/ \E p \in Ports, fail \in Faults : DevOpen(p, fail)
  \/ \E p \in Ports : DevClose(p)
  \/ \E p \in Ports, wanted \in Offloads \cup {"none"} : emac_ndo_set_features(p, wanted)
  \/ \E p \in Ports, b \in Bridges, fail \in [Ports -> Faults] : Link(p, b, fail)
  \/ \E p \in Ports, fail \in [Ports -> Faults] : Unlink(p, fail)
  \/ prueth_suspend
  \/ \E fail \in [Ports -> Faults] : prueth_resume(fail)

Spec == Init /\ [][Next]_vars

-----------------------------------------------------------------------------
\* Every variable has its type.
TypeOK ==
  /\ prueth.eth_type \in Modes
  /\ prueth.configured \cup prueth.prus \subseteq Ports
  /\ prueth.iep \in Int
  /\ prueth.irqs \cup prueth.strays \subseteq (Ports \X Irqs) \cup {<<0, "lre">>}
  /\ prueth.napi \subseteq Ports \cup {0}
  /\ running \cup present \cup br_members \subseteq Ports
  /\ offload \in [Ports -> Offloads \cup {"none"}]
  /\ upper \in [Ports -> Bridges \cup {NoBridge}]
  /\ hw_bridge_dev \in Bridges \cup {NoBridge}
  /\ {asleep, stranded, stale, deaf, prueth.hung, prueth.wiped} \subseteq BOOLEAN

\* Whatever has been opened, closed, refused half way and undone, in any
\* mode: the open ports hold the PRUs, interrupts, NAPI contexts and the
\* timer their mode needs, and nothing else is held; and no interrupt is freed
\* that is not requested.  (Unless the mode has changed under an open port.
\* The tx interrupt is an exception in the code: when the PTP interrupt
\* cannot be requested, it is freed in the modes that do not request it.)
Held(d) ==
  LET open == d.configured
      lre == IF Lre(d) /\ open # {} THEN {<<0, "lre">>} ELSE {}
  IN /\ d.prus = IF d.eth_type = "EMAC" \/ open = {} THEN open ELSE Ports
     /\ d.iep = IF open = {} THEN 0 ELSE 1
     /\ d.irqs = lre \cup UNION {Needed(d, p) \ {<<0, "lre">>} : p \in open}
     /\ d.napi = IF Lre(d) THEN {0 : p \in open} ELSE open
ResourcesHeld ==
  ~stale => /\ ~prueth.hung => Held(prueth)
            /\ ~stranded => prueth.strays \subseteq Ports \X {"tx"}

\* A port that is up as far as the net core knows is open in the driver, and
\* the other way round, unless the driver has failed to reopen it.
RunningIsOpen ==
  ~stranded /\ ~asleep /\ ~prueth.hung => running = prueth.configured

\* Both: what the driver holds is what the ports that are up need.
HoldsWhatItNeeds == ResourcesHeld /\ RunningIsOpen

\* The memory of the PRUs is never cleared while one of them runs.
NeverWiped == ~stale => ~prueth.wiped

\* Closing a port never waits for ever for a NAPI context that is not
\* enabled, unless the port had been closed already.
NeverHangs == ~stranded /\ ~stale => ~prueth.hung

\* A port that has left its bridge does not keep the ports in switch mode.
\* "User needs to first remove eth ports from a bridge which will
\* automatically put the ethtype back to EMAC" (emac_ndo_set_features).
BackToEmac ==
  ~deaf /\ ~prueth.hung /\ prueth.eth_type = "SWITCH" =>
    \E p \in Ports : upper[p] # NoBridge

\* The bridge members the driver knows are in the bridge it knows, unless a
\* port has left while its offload flag kept the event from the driver.
MembersInBridge ==
  ~deaf => \A p \in br_members : upper[p] = hw_bridge_dev /\ hw_bridge_dev # NoBridge

\* Both: what the driver knows of the bridges is what the net core knows.
BridgeKnown == BackToEmac /\ MembersInBridge
=============================================================================

----------------------------- MODULE PruethProbe -----------------------------
(***************************************************************************)
(* Binding the driver to its device and unbinding it: prueth_probe() with  *)
(* its labels for unwinding, and prueth_remove().  Every acquisition may   *)
(* fail.  From register_netdev() to unregister_netdev() user space opens   *)
(* and closes the ports, turns HSR on and puts them into a bridge, between *)
(* any two steps.                                                          *)
(*                                                                         *)
(* The SoC is one with firmware for everything (AM57xx); on the others the *)
(* ports do less.  The offload flags of both ports are set together, and   *)
(* reopening a port never fails: PruethPort is about that.  What devm_     *)
(* functions allocate is freed by the device core and not counted.         *)
(***************************************************************************)
EXTENDS Integers, Sequences

Ports == {1, 2}  \* PRUETH_PORT_MII0 and PRUETH_PORT_MII1
Of(name) == {<<name, p>> : p \in Ports}
Resources ==
  (UNION {Of(name) : name \in {"node", "pru", "dram", "phy_node", "phy", "netdev"}})
    \cup {<<name>> : name \in {"pruss", "ocp", "shared", "ocmc", "iep", "ecap", "notifiers"}}

VARIABLES
  nodes,      \* the children of the device's node that are available
  phase,      \* "unbound", "probe", "unwind", "bound", "remove", or "oops"
  at,         \* the step of the phase, from 1
  held,       \* what the driver has acquired and not released
  emac,       \* the ports p with a prueth->emac[p - 1]
  support_lre,
  lp,         \* prueth->lp is not NULL
  timer,      \* tbl_check_timer: "none", "idle" or "active"
  eth_type,   \* the mode of both ports
  open,       \* the ports that are open
  bridged,    \* the ports in the bridge
  br_members, \* and those the driver takes to be in it
  \* history
  strays,     \* what has been released without being held
  past        \* "mii_rt": a probe has failed there; "remove": one has ended

prueth == <<emac, support_lre, lp, timer>>
user == <<eth_type, open, bridged, br_members>>
probeVars == <<nodes, phase, at, held, prueth, user, strays, past>>

-----------------------------------------------------------------------------
Plan == <<"nodes", "mii_rt", "pru0", "pru1", "pruss", "ocp", "dram0", "dram1",
          "shared", "ocmc", "lre", "netdev0", "netdev1", "iep", "ecap",
          "register0", "register1", "timer", "notifiers">>

Labels == <<"netdev_unregister0", "netdev_unregister1", "ecap_put", "iep_put",
            "netdev_exit", "free_pool", "put_mem", "put_pruss", "put_pru1",
            "put_pru0", "put_node">>

\* A slip: the IEP is released before the ports are unregistered.
RemovalIepFirst == <<"cancel", "notifiers", "iep", "unregister0", "unregister1",
                     "netdev_exit", "pool", "mem", "ecap", "pruss", "prus">>

Removal == <<"cancel", "notifiers", "unregister0", "unregister1", "netdev_exit",
             "pool", "mem", "ecap", "iep", "pruss", "prus">>

Label(name) == CHOOSE i \in DOMAIN Labels : Labels[i] = name

\* Where prueth_probe() goes when a step fails.
\* A slip: without an IEP the unwinding starts one label too early.
FailsToLate(step) ==
  CASE step \in {"nodes", "pru0"} -> "put_node"
    [] step = "pru1" -> "put_pru0"
    [] step = "pruss" -> "put_pru1"
    [] step = "ocp" -> "put_pruss"
    [] step \in {"dram0", "dram1", "shared", "ocmc"} -> "put_mem"
    [] step \in {"lre", "netdev0"} -> "free_pool"
    [] step = "netdev1" -> "netdev_exit"
    [] step \in {"iep", "ecap"} -> "iep_put"
    [] step = "register0" -> "ecap_put"
    [] step \in {"register1", "notifiers"} -> "netdev_unregister0"

FailsTo(step) ==
  CASE step \in {"nodes", "pru0"} -> "put_node"
    [] step = "pru1" -> "put_pru0"
    [] step = "pruss" -> "put_pru1"
    [] step = "ocp" -> "put_pruss"
    [] step \in {"dram0", "dram1", "shared", "ocmc"} -> "put_mem"
    [] step \in {"lre", "netdev0"} -> "free_pool"
    [] step \in {"netdev1", "iep"} -> "netdev_exit"
    [] step = "ecap" -> "iep_put"
    [] step = "register0" -> "ecap_put"
    [] step \in {"register1", "notifiers"} -> "netdev_unregister0"

\* What a step acquires.
Gets(step) ==
  CASE step = "nodes" -> {<<"node", p>> : p \in nodes}
    [] step = "pru0" -> {<<"pru", p>> : p \in nodes \cap {1}}
    [] step = "pru1" -> {<<"pru", p>> : p \in nodes \cap {2}}
    [] step = "register0" -> {<<"netdev", p>> : p \in nodes \cap {1}}
    [] step = "register1" -> {<<"netdev", p>> : p \in nodes \cap {2}}
    [] step = "dram0" -> {<<"dram", p>> : p \in nodes \cap {1}}
    [] step = "dram1" -> {<<"dram", p>> : p \in nodes \cap {2}}
    [] step \in {"pruss", "ocp", "shared", "ocmc", "iep", "ecap", "notifiers"} -> {<<step>>}
    [] OTHER -> {}

\* What the code behind a label, or a step of prueth_remove(), releases.
Puts(step) ==
  CASE step = "put_node" -> {<<"node", p>> : p \in nodes}
    [] step = "put_pru0" -> {<<"pru", p>> : p \in nodes \cap {1}}
    [] step = "put_pru1" -> {<<"pru", p>> : p \in nodes \cap {2}}
    [] step \in {"put_pruss", "pruss"} -> {<<"pruss">>}
    [] step = "put_mem" -> {<<"ocp">>} \cup (held \cap (Of("dram") \cup {<<"shared">>}))
    [] step = "mem" -> held \cap (Of("dram") \cup {<<"shared">>})
    [] step \in {"free_pool", "pool"} -> {<<"ocmc">>}
    [] step = "netdev_exit" ->
         {<<"phy", p>> : p \in nodes \cap emac}
           \cup {<<"node", p>> : p \in IF phase = "remove" THEN nodes ELSE {}}
    [] step \in {"iep_put", "iep"} -> {<<"iep">>}
    [] step \in {"ecap_put", "ecap"} -> held \cap {<<"ecap">>}
    [] step \in {"netdev_unregister0", "unregister0"} -> held \cap {<<"netdev", 1>>}
    [] step \in {"netdev_unregister1", "unregister1"} -> held \cap {<<"netdev", 2>>}
    [] step = "notifiers" -> {<<"notifiers">>}
    [] step = "prus" -> \* pru1 for the first port and pru0 for the second;
                        \* pru_rproc_put() of NULL does nothing (external)
         IF nodes = Ports THEN Of("pru") ELSE {}
    [] OTHER -> {}

ProbeInit ==
  /\ nodes \in SUBSET Ports
  /\ phase = "unbound" /\ at = 1
  /\ held = {} /\ strays = {} /\ past = {}
  /\ emac = {} /\ support_lre = FALSE /\ lp = FALSE /\ timer = "none"
  /\ eth_type = "EMAC" /\ open = {} /\ bridged = {} /\ br_members = {}

-----------------------------------------------------------------------------
(* prueth_probe()                                                          *)

Doing(step) == phase = "probe" /\ Plan[at] = step

Onward == IF at = Len(Plan) THEN phase' = "bound" /\ at' = 1
                          ELSE phase' = "probe" /\ at' = at + 1

\* The device is bound: a new struct prueth, all zero.
Probe ==
  /\ phase = "unbound"
  /\ phase' = "probe" /\ at' = 1
  /\ emac' = {} /\ support_lre' = FALSE /\ lp' = FALSE /\ timer' = "none"
  /\ eth_type' = "EMAC" /\ open' = {} /\ bridged' = {} /\ br_members' = {}
  /\ UNCHANGED <<nodes, held, strays, past>>

\* A PRU or memory that is still held cannot be acquired again.
Acquire(step) ==
  /\ Doing(step)
  /\ step = "nodes" => nodes # {}
  /\ Gets(step) \cap held \subseteq Of("node") \cup {<<"ocp">>}
  /\ held' = held \cup Gets(step)
  /\ Onward
  /\ UNCHANGED <<nodes, prueth, user, strays, past>>

\* A step can fail if it does anything at all.
MayFail(step) ==
  CASE step = "nodes" -> nodes = {}
    [] step = "mii_rt" -> TRUE
    [] step = "lre" -> nodes = Ports
    [] OTHER -> Gets(step) # {}

\* A step fails; with no syscon regmap the function just returns.
Refused(step) ==
  /\ Doing(step)
  /\ MayFail(step)
  /\ IF step = "mii_rt"
     THEN phase' = "unbound" /\ at' = 1 /\ past' = past \cup {"mii_rt"}
     ELSE phase' = "unwind" /\ at' = Label(FailsTo(step)) /\ UNCHANGED past
  /\ UNCHANGED <<nodes, held, prueth, user, strays>>

\* Any error but -EPROBE_DEFER means that there is no ECAP.
NoEcap == Doing("ecap") /\ Onward /\ UNCHANGED <<nodes, held, prueth, user, strays, past>>

\* HSR and PRP, with both nodes; that the allocation of lp has failed is not
\* noticed, and without the interrupts there is no support.
LreInit(on, got_lp) ==
  /\ Doing("lre")
  /\ on \/ got_lp => nodes = Ports
  /\ support_lre' = on /\ lp' = got_lp
  /\ Onward
  /\ UNCHANGED <<nodes, held, emac, timer, user, strays, past>>

\* prueth_netdev_init(); the node of the PHY is never released.
NetdevInit(p, step) ==
  /\ Doing(step)
  /\ IF p \in nodes
     THEN /\ held' = held \cup {<<"phy_node", p>>, <<"phy", p>>}
          /\ emac' = emac \cup {p}
          /\ IF p = 1 /\ support_lre /\ ~lp THEN phase' = "oops" /\ at' = 1 ELSE Onward
     ELSE UNCHANGED <<held, emac>> /\ Onward
  /\ UNCHANGED <<nodes, support_lre, lp, timer, user, strays, past>>

NetdevFails(p, step, found) ==
  /\ Doing(step)
  /\ p \in nodes
  /\ held' = held \cup (IF found THEN {<<"phy_node", p>>} ELSE {})
  /\ phase' = "unwind" /\ at' = Label(FailsTo(step))
  /\ UNCHANGED <<nodes, prueth, user, strays, past>>

\* prueth_init_timer()
InitTimer ==
  /\ Doing("timer")
  /\ timer' = "idle"
  /\ Onward
  /\ UNCHANGED <<nodes, held, emac, support_lre, lp, user, strays, past>>

-----------------------------------------------------------------------------
(* emac_ndo_open(), emac_ndo_stop() and the bridge, as far as they concern *)
(* what is acquired here.                                                  *)

Registered(p) == phase # "oops" /\ <<"netdev", p>> \in held
Oops == phase' = "oops" /\ at' = 1

\* prueth_start_timer() with a timer that is not initialised yet.
Open(p) ==
  /\ Registered(p) /\ p \notin open
  /\ open' = open \cup {p}
  /\ IF eth_type = "HSR" /\ timer = "none"
     THEN Oops /\ UNCHANGED timer
     ELSE /\ timer' = IF eth_type = "HSR" THEN "active" ELSE timer
          /\ UNCHANGED <<phase, at>>
  /\ UNCHANGED <<nodes, held, emac, support_lre, lp, eth_type, bridged, br_members, strays, past>>

TimerAfter(closed) == IF eth_type = "HSR" /\ open = closed /\ closed # {} THEN "idle" ELSE timer

Close(p) ==
  /\ Registered(p) /\ p \in open
  /\ open' = open \ {p}
  /\ timer' = TimerAfter({p})
  /\ UNCHANGED <<nodes, phase, at, held, emac, support_lre, lp, eth_type, bridged, br_members,
                 strays, past>>

\* emac_ndo_set_features(), for one port and then for the other.
SetHsr(on) ==
  /\ \A p \in Ports : Registered(p)
  /\ support_lre /\ eth_type # "SWITCH" /\ open = {}
  /\ eth_type' = IF on THEN "HSR" ELSE "EMAC"
  /\ UNCHANGED <<nodes, phase, at, held, prueth, open, bridged, br_members, strays, past>>

\* prueth_port_offload_fwd_mark_update() writes to both ports.
OffloadUpdate(members) ==
  /\ br_members' = members
  /\ IF emac # Ports
     THEN Oops /\ UNCHANGED eth_type
     ELSE /\ eth_type' = CASE members = Ports -> "SWITCH"
                       [] members = {} -> "EMAC"
                       [] OTHER -> eth_type
          /\ UNCHANGED <<phase, at>>

\* prueth_ndev_event(), if it is registered.
Bridge(ports, members) ==
  /\ bridged' = ports
  /\ IF <<"notifiers">> \in held /\ eth_type # "HSR"
     THEN OffloadUpdate(members)
     ELSE UNCHANGED <<br_members, eth_type, phase, at>>
  /\ UNCHANGED <<nodes, held, prueth, open, strays, past>>

Link(p) == Registered(p) /\ p \notin bridged /\ Bridge(bridged \cup {p}, br_members \cup {p})
Unlink(p) == Registered(p) /\ p \in bridged /\ Bridge(bridged \ {p}, br_members \ {p})

-----------------------------------------------------------------------------
(* The labels of prueth_probe() and the steps of prueth_remove().          *)

\* unregister_netdev() closes the port first; the timer is cancelled once at
\* the beginning and by the last port.
Release(step) ==
  LET out == {p \in open : <<"netdev", p>> \in Puts(step)}
  IN /\ held' = held \ Puts(step)
     /\ strays' = strays \cup (Puts(step) \ held)
     /\ open' = open \ out
     /\ bridged' = bridged \ {p \in bridged : <<"netdev", p>> \in Puts(step)}
     /\ timer' = IF step = "cancel" /\ timer = "active" THEN "idle" ELSE TimerAfter(out)
     /\ emac' = IF step = "netdev_exit" THEN emac \ nodes ELSE emac
     /\ UNCHANGED <<nodes, support_lre, lp, eth_type, br_members>>

Unwind ==
  /\ phase = "unwind"
  /\ Release(Labels[at])
  /\ IF at = Len(Labels) THEN phase' = "unbound" /\ at' = 1
                         ELSE at' = at + 1 /\ UNCHANGED phase
  /\ UNCHANGED past

Remove ==
  /\ phase = "bound"
  /\ phase' = "remove" /\ at' = 1
  /\ UNCHANGED <<nodes, held, prueth, user, strays, past>>

RemoveStep ==
  /\ phase = "remove"
  /\ Release(Removal[at])
  /\ IF at = Len(Removal)
     THEN phase' = "unbound" /\ at' = 1 /\ past' = past \cup {"remove"}
     ELSE at' = at + 1 /\ UNCHANGED <<phase, past>>

-----------------------------------------------------------------------------
Plain == {"nodes", "mii_rt", "pru0", "pru1", "pruss", "ocp", "dram0", "dram1", "shared",
          "ocmc", "iep", "ecap", "register0", "register1", "notifiers"}

ProbeNext ==
  \/ Probe
  \/ \E step \in Plain : Acquire(step)
  \/ \E step \in Plain \cup {"lre"} : Refused(step)
  \/ NoEcap
  \/ \E on, got_lp \in BOOLEAN : LreInit(on, got_lp)
  \/ NetdevInit(1, "netdev0") \/ NetdevInit(2, "netdev1")
  \/ \E found \in BOOLEAN :
       NetdevFails(1, "netdev0", found) \/ NetdevFails(2, "netdev1", found)
  \/ InitTimer
  \/ \E p \in Ports : Open(p) \/ Close(p) \/ Link(p) \/ Unlink(p)
  \/ \E on \in BOOLEAN : SetHsr(on)
  \/ Unwind
  \/ Remove
  \/ RemoveStep

ProbeSpec == ProbeInit /\ [][ProbeNext]_probeVars

-----------------------------------------------------------------------------
\* Every variable has its type.
ProbeTypeOK ==
  /\ nodes \cup emac \cup open \cup bridged \cup br_members \subseteq Ports
  /\ phase \in {"unbound", "probe", "unwind", "bound", "remove", "oops"}
  /\ at \in CASE phase = "probe" -> DOMAIN Plan
              [] phase = "unwind" -> DOMAIN Labels
              [] phase = "remove" -> DOMAIN Removal
              [] OTHER -> {1}
  /\ held \cup strays \subseteq Resources
  /\ past \subseteq {"mii_rt", "remove"}
  /\ support_lre \in BOOLEAN /\ lp \in BOOLEAN
  /\ timer \in {"none", "idle", "active"}
  /\ eth_type \in {"EMAC", "HSR", "SWITCH"}

\* What emac_ndo_open(), the firmware and emac_ndo_stop() use for port p.
Uses(p) ==
  LET ports == IF eth_type = "EMAC" THEN {p} ELSE Ports
  IN {<<"netdev", p>>, <<"phy", p>>, <<"pruss">>, <<"ocp">>, <<"shared">>, <<"ocmc">>, <<"iep">>}
       \cup ({"pru", "dram"} \X ports)

\* However early a port is opened while the probe is still going on, and
\* whatever fails or is removed under it: what an open port uses is there.
InUseIsHeld == \A p \in open : Uses(p) \subseteq held

\* What the code never gives back: the nodes of the PHYs, the child nodes if
\* there is no syscon regmap, the OCP master ports after prueth_remove(),
\* and then the PRU of the only port of a device, because prueth_remove()
\* takes pru0 for pru1.
Forgotten ==
  Of("phy_node")
    \cup (IF "mii_rt" \in past THEN Of("node") ELSE {})
    \cup (IF "remove" \in past THEN {<<"ocp">>} ELSE {})
    \cup (IF "remove" \in past /\ nodes # Ports THEN Of("pru") ELSE {})

\* A probe that has failed, at any step, and a removal leave nothing behind
\* but that, so that the device can be bound again.  Nor does the timer of
\* HSR and PRP run on in memory that is freed, although a port may be opened
\* between hrtimer_cancel() and unregister_netdev().
NothingKept == phase = "unbound" => held \subseteq Forgotten /\ timer # "active"

\* No label and no step of the removal releases what is not held: nothing is
\* released twice, or on the way back from a step before it was acquired.
PutOnlyHeld == strays = {}

\* With both ports available, nobody follows a pointer to a port that is not
\* there.  (The allocation of lp that nobody checks and a port opened in HSR
\* mode before prueth_init_timer() are left out.)
PortsThere == phase = "oops" => nodes # Ports \/ (support_lre /\ ~lp) \/ timer = "none"

\* Both: whatever an operation of the net core follows or uses while probe and
\* remove are on their way is there.
UsesWhatIsThere == InUseIsHeld /\ PortsThere

\* Both: every resource is released, and once.
ReleasedOnce == NothingKept /\ PutOnlyHeld
=============================================================================

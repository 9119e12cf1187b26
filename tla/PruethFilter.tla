---------------------------- MODULE PruethFilter -----------------------------
(***************************************************************************)
(* Which frames the firmware gives to the host: the multicast filter, the  *)
(* promiscuous bits and the VLAN filter, tables in the RAM of the PRUs     *)
(* that set_rx_mode and the VLAN calls of the net core write, and that     *)
(* opening a port and changing the mode of both ports clear.               *)
(*                                                                         *)
(* Every port has tables of its own in its data RAM, or, with HSR and PRP  *)
(* ("LRE"), both share one; the register with the promiscuous bits is one  *)
(* for both ports.  set_rx_mode runs under the address lock of its own     *)
(* device and a lock of its own port: calls for the two ports interleave.  *)
(* Everything else runs under rtnl_lock, in one step, here also after      *)
(* set_rx_mode has ended.  With HSR and PRP both ports have the offload    *)
(* flag and are in no bridge; flags that differ, and a port that cannot be *)
(* opened, are matters of PruethPort.  What prueth_switch.c adds to the    *)
(* filter is left out: the file is not in the repository.                  *)
(***************************************************************************)
EXTENDS Integers, FiniteSets

CONSTANTS Addrs,       \* multicast addresses
          Hash,        \* emac_get_mc_hash(): the bin of every address
          Wishes,      \* what the stack may want of a port: see Wish
          BridgeAddrs, \* the addresses of the bridge device
          Vids         \* VLAN identifiers, 0 not among them

Ports == {1, 2}        \* and their data RAMs
Shared == 0            \* the shared RAM
Bins == {Hash[a] : a \in Addrs}
Wish == [list : SUBSET Addrs, promisc : BOOLEAN, allmulti : BOOLEAN]

ASSUME FilterAssumption ==
  /\ Hash \in [Addrs -> Nat]
  /\ Wishes \subseteq Wish /\ Wishes # {}
  /\ BridgeAddrs \subseteq Addrs

VARIABLES
  mode,     \* eth_type: "EMAC", "SWITCH" or "LRE"
  open,     \* the ports that are open
  members,  \* the ports in the bridge; hw_bridge_dev is set if there are any
  mc,       \* the multicast filter in every data RAM
  promisc,  \* EMAC_PROMISCUOUS_MODE: the ports with their bit set
  vlan,     \* the VLAN filter in every RAM
  call,     \* emac_ndo_set_rx_mode() for every port
  wish,     \* what the stack wants of a port
  vids,     \* the VLAN identifiers the stack has registered for a port
  \* history
  told,     \* the ports whose multicast filter is what their last call wrote
  lost,     \* the ports whose promiscuous bit is not what their last call wrote
  kept      \* the VLAN identifiers of a port nobody has cleared or removed

tables == <<mc, promisc, vlan>>
stack == <<wish, vids>>
vars == <<mode, open, members, tables, call, stack, told, lost, kept>>

McRam(p) == IF mode = "LRE" THEN 2 ELSE p
VlanRam(p) == IF mode = "LRE" THEN Shared ELSE p
\* The ports with the same tables.
Sharing(p) == IF mode = "LRE" THEN Ports ELSE {p}

NoMc == [on |-> FALSE, bins |-> {}]
NoVlan == [on |-> FALSE, vids |-> {}]
Idle == [pc |-> "idle", reg |-> {}, todo |-> {}, alone |-> TRUE]
Busy(p) == call[p].pc # "idle"

Init ==
  /\ mode = "EMAC" /\ open = {} /\ members = {}
  /\ mc = [r \in Ports |-> NoMc] /\ promisc = {}
  /\ vlan = [r \in Ports \cup {Shared} |-> NoVlan]
  /\ call = [p \in Ports |-> Idle]
  /\ wish \in [Ports -> Wishes]
  /\ vids = [p \in Ports |-> {}]
  /\ told = {} /\ lost = {} /\ kept = vids

-----------------------------------------------------------------------------
(* emac_ndo_set_rx_mode(): every write to the tables is a step.  The       *)
(* register is read before the lock is taken.                              *)

Called(p) ==
  [pc |-> "disable", reg |-> promisc, todo |-> {},
   alone |-> \A q \in Sharing(p) \ {p} : ~Busy(q)]

\* The call of p begins, for the others on its tables in the middle of theirs.
Begin(p) ==
  call' = [q \in Ports |->
             CASE q = p -> Called(p)
               [] q \in Sharing(p) \ {p} -> [call[q] EXCEPT !.alone = FALSE]
               [] OTHER -> call[q]]

\* The stack wants something else; LRE does not know promiscuous mode, and
\* leaves everything as it is.
emac_ndo_set_rx_mode(p, w) ==
  /\ p \in open /\ ~Busy(p)
  /\ wish' = [wish EXCEPT ![p] = w]
  /\ IF w.promisc /\ mode = "LRE"
     THEN told' = told \ {p} /\ UNCHANGED call
     ELSE told' = told \ Sharing(p) /\ Begin(p)
  /\ UNCHANGED <<mode, open, members, tables, vids, lost, kept>>

At(p, label) == call[p].pc = label
Goto(p, label) == call' = [call EXCEPT ![p].pc = label]
Return(p) ==
  /\ call' = [call EXCEPT ![p] = Idle]
  /\ told' = IF call[p].alone THEN told \cup {p} ELSE told

\* emac_mc_filter_ctrl(emac, false)
Disable(p) ==
  /\ At(p, "disable")
  /\ mc' = [mc EXCEPT ![McRam(p)].on = FALSE]
  /\ Goto(p, "reset")
  /\ UNCHANGED <<mode, open, members, promisc, vlan, stack, told, lost, kept>>

\* A slip: the bins are not reset.
ResetNot(p) ==
  /\ At(p, "reset")
  /\ UNCHANGED mc
  /\ Goto(p, IF mode = "EMAC" THEN "promisc" ELSE "enable")
  /\ UNCHANGED <<mode, open, members, promisc, vlan, stack, told, lost, kept>>

\* emac_mc_filter_reset(); the mask never changes.
Reset(p) ==
  /\ At(p, "reset")
  /\ mc' = [mc EXCEPT ![McRam(p)].bins = {}]
  /\ Goto(p, IF mode = "EMAC" THEN "promisc" ELSE "enable")
  /\ UNCHANGED <<mode, open, members, promisc, vlan, stack, told, lost, kept>>

\* A slip: the register is written for this port alone.
PromiscuousAlone(p) ==
  /\ At(p, "promisc")
  /\ promisc' = IF wish[p].promisc THEN {p} ELSE {}
  /\ lost' = lost \ {p}
  /\ IF wish[p].promisc THEN Return(p) ELSE Goto(p, "enable") /\ UNCHANGED told
  /\ UNCHANGED <<mode, open, members, mc, vlan, stack, kept>>

\* The bit of this port goes into the value read at the beginning, and with
\* it what the other port's bit was then.
Promiscuous(p) ==
  LET other == Ports \ {p}
  IN /\ At(p, "promisc")
     /\ promisc' = (call[p].reg \cap other) \cup (IF wish[p].promisc THEN {p} ELSE {})
     /\ lost' = IF promisc' \cap other = promisc \cap other THEN lost \ {p}
                ELSE (lost \ {p}) \cup other
     /\ IF wish[p].promisc THEN Return(p) ELSE Goto(p, "enable") /\ UNCHANGED told
     /\ UNCHANGED <<mode, open, members, mc, vlan, stack, kept>>

\* emac_mc_filter_ctrl(emac, true), unless all multicast is wanted.  The
\* addresses of the bridge are not looked at if the port has none of its own.
Enable(p) ==
  /\ At(p, "enable")
  /\ IF wish[p].allmulti /\ mode # "SWITCH"
     THEN Return(p) /\ UNCHANGED mc
     ELSE /\ mc' = [mc EXCEPT ![McRam(p)].on = TRUE]
          /\ IF wish[p].list = {} THEN Return(p)
             ELSE /\ call' = [call EXCEPT ![p].pc = "allow",
                                          ![p].todo = wish[p].list \cup
                                             IF members # {} THEN BridgeAddrs ELSE {}]
                  /\ UNCHANGED told
  /\ UNCHANGED <<mode, open, members, promisc, vlan, stack, lost, kept>>

\* emac_mc_filter_bin_allow()
Allow(p) ==
  /\ At(p, "allow")
  /\ \E a \in call[p].todo :
       /\ mc' = [mc EXCEPT ![McRam(p)].bins = @ \cup {Hash[a]}]
       /\ IF call[p].todo = {a} THEN Return(p)
          ELSE call' = [call EXCEPT ![p].todo = @ \ {a}] /\ UNCHANGED told
  /\ UNCHANGED <<mode, open, members, promisc, vlan, stack, lost, kept>>

-----------------------------------------------------------------------------
(* emac_add_del_vid()                                                      *)

emac_ndo_vlan_rx_add_vid(p, v) ==
  /\ v \notin vids[p]
  /\ vids' = [vids EXCEPT ![p] = @ \cup {v}]
  /\ kept' = [kept EXCEPT ![p] = @ \cup {v}]
  /\ vlan' = [vlan EXCEPT ![VlanRam(p)].vids = @ \cup {v}]
  /\ UNCHANGED <<mode, open, members, mc, promisc, call, wish, told, lost>>

\* A slip: a VLAN identifier that has been removed stays in the table.
KillNot(p, v) ==
  /\ v \in vids[p]
  /\ vids' = [vids EXCEPT ![p] = @ \ {v}]
  /\ kept' = [q \in Ports |-> IF q \in Sharing(p) THEN kept[q] \ {v} ELSE kept[q]]
  /\ UNCHANGED <<mode, open, members, tables, call, wish, told, lost>>

\* On shared tables it is removed for the other port, too.
emac_ndo_vlan_rx_kill_vid(p, v) ==
  /\ v \in vids[p]
  /\ vids' = [vids EXCEPT ![p] = @ \ {v}]
  /\ kept' = [q \in Ports |-> IF q \in Sharing(p) THEN kept[q] \ {v} ELSE kept[q]]
  /\ vlan' = [vlan EXCEPT ![VlanRam(p)].vids = @ \ {v}]
  /\ UNCHANGED <<mode, open, members, mc, promisc, call, wish, told, lost>>

-----------------------------------------------------------------------------
(* Opening and closing.  r stands for the tables, and what is known of     *)
(* them, between the steps of an operation.                                *)

Now == [mc |-> mc, promisc |-> promisc, vlan |-> vlan, kept |-> kept, told |-> told]

\* prueth_hostinit(): all the RAM is cleared with the first port.
HostInit ==
  [mc |-> [q \in Ports |-> NoMc], promisc |-> {},
   vlan |-> [q \in Ports \cup {Shared} |-> NoVlan],
   kept |-> [q \in Ports |-> {}], told |-> {}]

\* prueth_emac_config(): the data RAM of a port is cleared.
EmacConfig(r, p) ==
  [mc |-> [r.mc EXCEPT ![p] = NoMc], promisc |-> r.promisc,
   vlan |-> [r.vlan EXCEPT ![p] = NoVlan],
   kept |-> [r.kept EXCEPT ![p] = {}], told |-> r.told \ {p}]

\* prueth_port_enable()
PortEnable(v, p, m, on) ==
  LET ram == IF m = "LRE" THEN Shared ELSE p
  IN  [v EXCEPT ![ram] = [on |-> on, vids |-> v[ram].vids]]

\* emac_ndo_open() in mode m, with the ports P open before.
Opened(r, p, m, P) ==
  LET first == IF P = {} THEN HostInit ELSE r
      own == IF m = "EMAC" THEN EmacConfig(first, p) ELSE first
  IN [mc |-> own.mc, promisc |-> own.promisc,
      vlan |-> PortEnable(own.vlan, p, m, TRUE),
      kept |-> own.kept, told |-> own.told]

AllIdle == \A p \in Ports : ~Busy(p)

\* The net core calls set_rx_mode when it has opened a port.
DevOpen(p) ==
  /\ AllIdle /\ p \notin open
  /\ open' = open \cup {p}
  /\ LET r == Opened(Now, p, mode, open)
         called == ~(wish[p].promisc /\ mode = "LRE")
     IN  /\ mc' = r.mc /\ promisc' = r.promisc /\ vlan' = r.vlan /\ kept' = r.kept
         /\ told' = r.told \ (IF called THEN Sharing(p) ELSE {p})
         /\ call' = IF called
                    THEN [call EXCEPT ![p] = [Called(p) EXCEPT !.reg = r.promisc]]
                    ELSE call
  /\ lost' = lost \ {p}
  /\ UNCHANGED <<mode, members, stack>>

\* emac_ndo_stop()
DevClose(p) ==
  /\ AllIdle /\ p \in open
  /\ open' = open \ {p}
  /\ vlan' = PortEnable(vlan, p, mode, FALSE)
  /\ UNCHANGED <<mode, members, mc, promisc, call, stack, told, lost, kept>>

\* The stack wants something else of a port that is closed.
WishDown(p, w) ==
  /\ p \notin open
  /\ wish' = [wish EXCEPT ![p] = w]
  /\ UNCHANGED <<mode, open, members, tables, call, vids, told, lost, kept>>

\* emac_ndo_set_features(): HSR or PRP on and off, with both ports closed.
SetFeatures(m) ==
  /\ open = {} /\ mode # "SWITCH" /\ members = {}
  /\ mode' = m
  /\ kept' = IF m = mode THEN kept ELSE [p \in Ports |-> {}]
  /\ UNCHANGED <<open, members, tables, call, stack, told, lost>>

\* prueth_change_to_switch_mode() and prueth_change_to_emac_mode(): the ports
\* that are open are closed and opened again by the driver itself.
Reopened(m) ==
  LET off == [q \in DOMAIN vlan |->
                [on |-> vlan[q].on /\ q \notin open, vids |-> vlan[q].vids]]
      closed == [mc |-> mc, promisc |-> promisc, vlan |-> off, kept |-> kept, told |-> told]
      one == IF 1 \in open THEN Opened(closed, 1, m, {}) ELSE closed
  IN  IF 2 \in open THEN Opened(one, 2, m, open \cap {1}) ELSE one

\* prueth_port_offload_fwd_mark_update(): the mode follows the members of
\* the bridge.  Nobody calls set_rx_mode.
Bridge(ports) ==
  /\ AllIdle /\ mode # "LRE"
  /\ members' = ports
  /\ mode' = CASE ports = Ports -> "SWITCH"
               [] ports = {} -> "EMAC"
               [] OTHER -> mode
  /\ IF mode' = mode THEN UNCHANGED <<tables, told, lost, kept>>
     ELSE LET r == Reopened(mode')
          IN  /\ mc' = r.mc /\ promisc' = r.promisc /\ vlan' = r.vlan
              /\ kept' = r.kept /\ told' = r.told
              /\ lost' = IF open = {} THEN lost ELSE Ports
  /\ UNCHANGED <<open, call, stack>>

Link(p) == p \notin members /\ Bridge(members \cup {p})
Unlink(p) == p \in members /\ Bridge(members \ {p})

-----------------------------------------------------------------------------
Next ==
  \/ \E p \in Ports, w \in Wishes : emac_ndo_set_rx_mode(p, w) \/ WishDown(p, w)
  \/ \E p \in Ports :
       \/ Disable(p) \/ Reset(p) \/ Promiscuous(p) \/ Enable(p) \/ Allow(p)
       \/ DevOpen(p) \/ DevClose(p) \/ Link(p) \/ Unlink(p)
  \/ \E p \in Ports, v \in Vids :
       emac_ndo_vlan_rx_add_vid(p, v) \/ emac_ndo_vlan_rx_kill_vid(p, v)
  \/ \E m \in {"EMAC", "LRE"} : SetFeatures(m)

Spec == Init /\ [][Next]_vars

-----------------------------------------------------------------------------
\* Every variable has its type.
TypeOK ==
  /\ mode \in {"EMAC", "SWITCH", "LRE"}
  /\ open \cup members \cup promisc \cup told \cup lost \subseteq Ports
  /\ mc \in [Ports -> [on : BOOLEAN, bins : SUBSET Bins]]
  /\ vlan \in [Ports \cup {Shared} -> [on : BOOLEAN, vids : SUBSET Vids]]
  /\ call \in [Ports -> [pc : {"idle", "disable", "reset", "promisc", "enable", "allow"},
                         reg : SUBSET Ports, todo : SUBSET Addrs, alone : BOOLEAN]]
  /\ wish \in [Ports -> Wish]
  /\ {vids, kept} \subseteq [Ports -> SUBSET Vids]

\* The firmware (external): a frame for a multicast address gets through.
Passes(p, a) ==
  \/ mode = "EMAC" /\ p \in promisc
  \/ ~mc[McRam(p)].on
  \/ Hash[a] \in mc[McRam(p)].bins

\* An open port that is not in the middle of set_rx_mode hears the addresses
\* the stack wants, or all of them, and once it has been told so no others
\* but those of the same bin; whatever mode it has been in before and
\* whatever the other port does meanwhile.  With HSR and PRP that holds for
\* the port whose call was the last alone: each call wipes what the other
\* port's has written.  (In promiscuous mode it hears more, see below.)
EverythingWanted(p) == wish[p].allmulti /\ mode # "SWITCH"
GroupsAsAsked ==
  \A p \in open, a \in Addrs :
    ~Busy(p) /\ (p \in told \/ mode # "LRE") =>
      /\ a \in wish[p].list \/ EverythingWanted(p) => Passes(p, a)
      /\ p \in told /\ Passes(p, a) =>
           \/ EverythingWanted(p) \/ p \in promisc \/ wish[p].promisc
           \/ \E b \in Addrs : Hash[b] = Hash[a] /\ b \in wish[p].list \cup BridgeAddrs

\* As dual EMAC an open port is promiscuous if and only if the stack wants
\* it, although the register is shared; unless the other port's call read
\* the register before this port's wrote it and wrote it after, or the driver
\* has reopened the port itself.
PromiscAsAsked ==
  \A p \in open \ lost :
    mode = "EMAC" /\ ~Busy(p) => (p \in promisc <=> wish[p].promisc)

\* An open port filters VLANs, and lets through those that have been
\* registered since its table was cleared last, unless, with HSR and PRP,
\* the other port has removed the same one or has been closed; and none that
\* is registered for no port with this table.
VlansAsAsked ==
  \A p \in open :
    LET t == vlan[VlanRam(p)]
    IN  /\ mode = "LRE" /\ open = Ports => t.on
        /\ mode # "LRE" => t.on
        /\ kept[p] \subseteq t.vids
        /\ t.vids \subseteq UNION {vids[q] : q \in Sharing(p)}
=============================================================================

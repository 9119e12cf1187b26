------------------------- MODULE PruethFilter_proofs -------------------------
(***************************************************************************)
(* The VLAN filter, the promiscuous bits as dual EMAC and the table of     *)
(* multicast groups are what the stack asks for, but for what the driver   *)
(* itself has cleared or undone, for every set of addresses, bins, wishes  *)
(* and VLAN identifiers.                                                   *)
(***************************************************************************)
EXTENDS PruethFilter, TLAPS

Rams == Ports \cup {Shared}
Filters == [Rams -> [on : BOOLEAN, vids : SUBSET Vids]]

\* The VLAN tables among r, and what is known of them, have their types.
Typed(r) == r.vlan \in Filters /\ r.kept \in [Ports -> SUBSET Vids]

\* The operations of opening and closing, as functions from tables to tables.
LEMMA HostInitTyped == Typed(HostInit)
  BY DEF HostInit, Typed, Filters, NoVlan, Rams

LEMMA EmacConfigTyped ==
  ASSUME NEW r, Typed(r), NEW p \in Ports PROVE Typed(EmacConfig(r, p))
  BY DEF EmacConfig, Typed, Filters, NoVlan, Rams

LEMMA PortEnableTyped ==
  ASSUME NEW v \in Filters, NEW p \in Ports, NEW m, NEW on \in BOOLEAN
  PROVE  PortEnable(v, p, m, on) \in Filters
  BY DEF PortEnable, Filters, Rams

LEMMA OpenedTyped ==
  ASSUME NEW r, Typed(r), NEW p \in Ports, NEW m, NEW P
  PROVE  Typed(Opened(r, p, m, P))
  <1> DEFINE one == IF P = {} THEN HostInit ELSE r
             own == IF m = "EMAC" THEN EmacConfig(one, p) ELSE one
  <1>1. Typed(one) BY HostInitTyped
  <1>2. Typed(own) BY <1>1, EmacConfigTyped
  <1>3. /\ Opened(r, p, m, P).vlan = PortEnable(own.vlan, p, m, TRUE)
        /\ Opened(r, p, m, P).kept = own.kept
    BY DEF Opened
  <1> HIDE DEF own
  <1> QED BY <1>2, <1>3, PortEnableTyped DEF Typed

\* What the VLAN filter depends on has its type.
VlanTypes ==
  /\ mode \in {"EMAC", "SWITCH", "LRE"}
  /\ open \subseteq Ports
  /\ vlan \in Filters
  /\ vids \in [Ports -> SUBSET Vids]
  /\ kept \in [Ports -> SUBSET Vids]

\* What opening port p in mode m does to the VLAN tables, with the
\* ports P open before.
LEMMA OpenedClears ==
  ASSUME NEW r, Typed(r), NEW p \in Ports, NEW m, NEW P
  PROVE  LET n == Opened(r, p, m, P)
             cleared(q) == P = {} \/ (m = "EMAC" /\ q = p)
         IN  /\ n.vlan[IF m = "LRE" THEN Shared ELSE p].on
             /\ \A q \in Rams : ~cleared(q) /\ r.vlan[q].on => n.vlan[q].on
             /\ \A q \in Rams : n.vlan[q].vids = IF cleared(q) THEN {} ELSE r.vlan[q].vids
             /\ \A q \in Ports : n.kept[q] = IF cleared(q) THEN {} ELSE r.kept[q]
  <1> DEFINE one == IF P = {} THEN HostInit ELSE r
             own == IF m = "EMAC" THEN EmacConfig(one, p) ELSE one
             n == Opened(r, p, m, P)
             cleared(q) == P = {} \/ (m = "EMAC" /\ q = p)
             w == IF m = "LRE" THEN Shared ELSE p
  <1>1. /\ Typed(one)
        /\ \A q \in Rams : one.vlan[q] = IF P = {} THEN NoVlan ELSE r.vlan[q]
        /\ \A q \in Ports : one.kept[q] = IF P = {} THEN {} ELSE r.kept[q]
    BY HostInitTyped DEF HostInit, Rams
  <1>2. n = [mc |-> own.mc, promisc |-> own.promisc, vlan |-> PortEnable(own.vlan, p, m, TRUE),
             kept |-> own.kept, told |-> own.told]
    BY DEF Opened
  <1> HIDE DEF one, n
  <1>3. /\ Typed(own)
        /\ \A q \in Rams : own.vlan[q] = IF m = "EMAC" /\ q = p THEN NoVlan ELSE one.vlan[q]
        /\ \A q \in Ports : own.kept[q] = IF m = "EMAC" /\ q = p THEN {} ELSE one.kept[q]
    <2>1. CASE m = "EMAC"
      <3>1. own = EmacConfig(one, p) BY <2>1
      <3>2. Typed(own) BY <1>1, <3>1, EmacConfigTyped
      <3>3. one.vlan \in Filters
            /\ one.kept \in [Ports -> SUBSET Vids]
        BY <1>1 DEF Typed
      <3>4. own.vlan = [one.vlan EXCEPT ![p] = NoVlan] /\ own.kept = [one.kept EXCEPT ![p] = {}]
        BY <3>1 DEF EmacConfig
      <3> QED BY <2>1, <3>2, <3>3, <3>4 DEF Filters
    <2>2. CASE m # "EMAC" BY <1>1, <2>2
    <2> QED BY <2>1, <2>2
  <1> HIDE DEF own
  <1>4. own.vlan \in Filters BY <1>3 DEF Typed
  <1>5. /\ n.vlan = [own.vlan EXCEPT ![w] = [on |-> TRUE, vids |-> own.vlan[w].vids]]
        /\ n.kept = own.kept
    BY <1>2 DEF PortEnable
  <1>6. w \in Rams BY DEF Rams
  <1> HIDE DEF w
  <1>7. /\ n.vlan[w] = [on |-> TRUE, vids |-> own.vlan[w].vids]
        /\ \A q \in Rams : q # w => n.vlan[q] = own.vlan[q]
    BY <1>4, <1>5, <1>6 DEF Filters
  <1>8. \A q \in Rams : own.vlan[q] = IF cleared(q) THEN NoVlan ELSE r.vlan[q]
    BY <1>1, <1>3
  <1>9. n.vlan[w].on BY <1>7
  <1>10. \A q \in Rams : ~cleared(q) /\ r.vlan[q].on => n.vlan[q].on
    BY <1>7, <1>8
  <1>11. \A q \in Rams : n.vlan[q].vids = IF cleared(q) THEN {} ELSE r.vlan[q].vids
    <2>1. NoVlan.vids = {} BY DEF NoVlan
    <2>2. \A q \in Rams : n.vlan[q].vids = own.vlan[q].vids BY <1>6, <1>7
    <2> QED BY <1>8, <2>1, <2>2
  <1>12. \A q \in Ports : n.kept[q] = IF cleared(q) THEN {} ELSE r.kept[q]
    BY <1>1, <1>3, <1>5
  <1> QED BY <1>9, <1>10, <1>11, <1>12 DEF n, w

\* Closing and opening again the ports that are open clears everything, and
\* switches their VLAN filters on.
LEMMA ReopenedClears ==
  ASSUME VlanTypes, NEW m \in {"EMAC", "SWITCH"}
  PROVE  LET r == Reopened(m)
         IN  /\ Typed(r)
             /\ \A q \in Rams : r.vlan[q].vids = IF open = {} THEN vlan[q].vids ELSE {}
             /\ \A q \in Ports : r.kept[q] = IF open = {} THEN kept[q] ELSE {}
             /\ \A p \in open : r.vlan[p].on
  <1> DEFINE off == [q \in DOMAIN vlan |->
                       [on |-> vlan[q].on /\ q \notin open, vids |-> vlan[q].vids]]
             closed == [mc |-> mc, promisc |-> promisc, vlan |-> off, kept |-> kept,
                        told |-> told]
             one == IF 1 \in open THEN Opened(closed, 1, m, {}) ELSE closed
             r == IF 2 \in open THEN Opened(one, 2, m, open \cap {1}) ELSE one
  <1>1. r = Reopened(m) BY DEF Reopened
  <1>2. open \subseteq {1, 2} /\ 1 \in Ports /\ 2 \in Ports /\ Ports \subseteq Rams
    BY DEF VlanTypes, Ports, Rams
  <1>3. off \in Filters
        /\ \A q \in Rams : off[q].vids = vlan[q].vids
    <2>1. vlan \in Filters BY DEF VlanTypes
    <2> QED BY <2>1 DEF Filters
  <1>4. /\ Typed(closed)
        /\ \A q \in Rams : closed.vlan[q].vids = vlan[q].vids
        /\ closed.kept = kept
    BY <1>3 DEF VlanTypes, Typed
  <1> HIDE DEF closed
  <1>5. CASE open = {}
    BY <1>1, <1>4, <1>5
  <1>6. CASE 1 \in open
    <2>1. one = Opened(closed, 1, m, {}) BY <1>6
    <2>2. /\ one.vlan[1].on
          /\ \A q \in Rams : one.vlan[q].vids = {}
          /\ \A q \in Ports : one.kept[q] = {}
      BY <1>2, <1>4, <2>1, OpenedClears
    <2>3. Typed(one) BY <1>2, <1>4, <2>1, OpenedTyped
    <2> HIDE DEF one
    <2>4. CASE 2 \notin open BY <1>1, <1>2, <1>6, <2>2, <2>3, <2>4
    <2>5. CASE 2 \in open
      <3>1. r = Opened(one, 2, m, {1}) BY <1>6, <2>5
      <3>2. Typed(r) BY <1>2, <2>3, <3>1, OpenedTyped
      <3>3. /\ r.vlan[2].on
            /\ one.vlan[1].on => r.vlan[1].on
            /\ \A q \in Rams : r.vlan[q].vids = {}
            /\ \A q \in Ports : r.kept[q] = {}
        BY <1>2, <2>2, <2>3, <3>1, OpenedClears
      <3> HIDE DEF r
      <3> QED BY <1>1, <1>2, <1>6, <2>2, <3>2, <3>3
    <2> QED BY <2>4, <2>5
  <1>7. CASE open = {2}
    <2>1. r = Opened(closed, 2, m, {}) BY <1>7
    <2> HIDE DEF r
    <2>2. /\ r.vlan[2].on
          /\ \A q \in Rams : r.vlan[q].vids = {}
          /\ \A q \in Ports : r.kept[q] = {}
      BY <1>2, <1>4, <2>1, OpenedClears
    <2>3. Typed(r) BY <1>2, <1>4, <2>1, OpenedTyped
    <2> QED BY <1>1, <1>7, <2>2, <2>3
  <1> QED BY <1>2, <1>5, <1>6, <1>7

-----------------------------------------------------------------------------
(* The inductive invariant                                                 *)

\* VlansAsAsked says nothing of a port that is closed; the table it shares or
\* is opened with must be right all the same: what nobody has cleared is in
\* it, and while a port is open nothing is in it that nobody has registered.
VlanInv ==
  /\ VlanTypes
  /\ \A p \in Ports : kept[p] \subseteq vlan[VlanRam(p)].vids
  /\ open # {} => \A p \in Ports :
                   \A x \in vlan[VlanRam(p)].vids : \E q \in Sharing(p) : x \in vids[q]
  /\ mode # "LRE" => \A p \in open : vlan[p].on
  /\ mode = "LRE" /\ open = Ports => vlan[Shared].on

LEMMA VlanInvInit == Init => VlanInv
  <1> SUFFICES ASSUME Init PROVE VlanInv
    OBVIOUS
  <1>1. VlanTypes BY DEF Init, VlanTypes, NoVlan, Filters, Rams
  <1>2. open = {} /\ mode = "EMAC" /\ \A p \in Ports : kept[p] = {} BY DEF Init
  <1> QED BY <1>1, <1>2 DEF VlanInv, Ports

LEMMA VlanInvImplies == VlanInv => VlansAsAsked
  <1> SUFFICES ASSUME VlanInv, NEW p \in open
               PROVE  LET t == vlan[VlanRam(p)]
                      IN  /\ mode = "LRE" /\ open = Ports => t.on
                          /\ mode # "LRE" => t.on
                          /\ kept[p] \subseteq t.vids
                          /\ t.vids \subseteq UNION {vids[q] : q \in Sharing(p)}
    BY DEF VlansAsAsked
  <1>1. p \in Ports /\ open # {} BY DEF VlanInv, VlanTypes
  <1>2. /\ kept[p] \subseteq vlan[VlanRam(p)].vids
        /\ \A x \in vlan[VlanRam(p)].vids : \E q \in Sharing(p) : x \in vids[q]
    BY <1>1 DEF VlanInv
  <1>3. /\ mode = "LRE" /\ open = Ports => vlan[VlanRam(p)].on
        /\ mode # "LRE" => vlan[VlanRam(p)].on
    BY DEF VlanInv, VlanRam
  <1> QED BY <1>2, <1>3

\* The steps that leave the VLAN filter alone.
LEMMA VlanInvUnchanged ==
  ASSUME VlanInv, UNCHANGED <<mode, open, vlan, vids, kept>> PROVE VlanInv'
  BY DEF VlanInv, VlanTypes, VlanRam, Sharing

LEMMA VlanInvAdd ==
  ASSUME VlanInv, NEW p \in Ports, NEW v \in Vids, emac_ndo_vlan_rx_add_vid(p, v)
  PROVE  VlanInv'
  <1> DEFINE w == VlanRam(p)
  <1>1. /\ mode' = mode /\ open' = open
        /\ vids' = [vids EXCEPT ![p] = @ \cup {v}]
        /\ kept' = [kept EXCEPT ![p] = @ \cup {v}]
        /\ vlan' = [vlan EXCEPT ![w].vids = @ \cup {v}]
    BY DEF emac_ndo_vlan_rx_add_vid
  <1>2. w \in Rams BY DEF VlanRam, Rams
  <1>3. VlanTypes BY DEF VlanInv
  <1>4. /\ \A q \in Rams : vlan'[q].vids = IF q = w THEN vlan[q].vids \cup {v} ELSE vlan[q].vids
        /\ \A q \in Rams : vlan'[q].on = vlan[q].on
        /\ vlan' \in Filters
    BY <1>1, <1>2, <1>3 DEF VlanTypes, Filters
  <1>5. /\ \A q \in Ports : vids'[q] = IF q = p THEN vids[q] \cup {v} ELSE vids[q]
        /\ \A q \in Ports : kept'[q] = IF q = p THEN kept[q] \cup {v} ELSE kept[q]
        /\ vids' \in [Ports -> SUBSET Vids] /\ kept' \in [Ports -> SUBSET Vids]
    BY <1>1, <1>3 DEF VlanTypes
  <1>6. VlanTypes' BY <1>1, <1>3, <1>4, <1>5 DEF VlanTypes
  <1>7. \A q \in Ports : VlanRam(q)' = VlanRam(q) /\ VlanRam(q) \in Rams
                         /\ Sharing(q)' = Sharing(q)
    BY <1>1 DEF VlanRam, Sharing, Rams, Ports, Shared
  <1>8. \A q \in Ports : kept'[q] \subseteq vlan'[VlanRam(q)'].vids
    BY <1>4, <1>5, <1>7 DEF VlanInv
  <1>9. ASSUME open' # {}, NEW q \in Ports
        PROVE  \A x \in vlan'[VlanRam(q)'].vids : \E s \in Sharing(q)' : x \in vids'[s]
    <2>1. \A x \in vlan[VlanRam(q)].vids : \E s \in Sharing(q) : x \in vids[s]
      BY <1>1, <1>9 DEF VlanInv
    <2>2. \A s \in Sharing(q) : s \in Ports /\ vids[s] \subseteq vids'[s]
      BY <1>5 DEF Sharing
    <2>3. VlanRam(q) = w => p \in Sharing(q) /\ v \in vids'[p]
      BY <1>5 DEF VlanRam, Sharing, Shared, Ports
    <2> QED BY <1>4, <1>7, <2>1, <2>2, <2>3
  <1>10. mode' # "LRE" => \A q \in open' : vlan'[q].on
    BY <1>1, <1>3, <1>4 DEF VlanInv, VlanTypes, Rams
  <1>11. mode' = "LRE" /\ open' = Ports => vlan'[Shared].on
    BY <1>1, <1>4 DEF VlanInv, Rams
  <1> QED BY <1>6, <1>8, <1>9, <1>10, <1>11 DEF VlanInv

LEMMA VlanInvKill ==
  ASSUME VlanInv, NEW p \in Ports, NEW v \in Vids, emac_ndo_vlan_rx_kill_vid(p, v)
  PROVE  VlanInv'
  <1> DEFINE w == VlanRam(p)
  <1>1. /\ mode' = mode /\ open' = open
        /\ vids' = [vids EXCEPT ![p] = @ \ {v}]
        /\ kept' = [q \in Ports |-> IF q \in Sharing(p) THEN kept[q] \ {v} ELSE kept[q]]
        /\ vlan' = [vlan EXCEPT ![w].vids = @ \ {v}]
    BY DEF emac_ndo_vlan_rx_kill_vid
  <1>2. w \in Rams BY DEF VlanRam, Rams
  <1>3. VlanTypes BY DEF VlanInv
  <1>4. /\ \A q \in Rams : vlan'[q].vids = IF q = w THEN vlan[q].vids \ {v} ELSE vlan[q].vids
        /\ \A q \in Rams : vlan'[q].on = vlan[q].on
        /\ vlan' \in Filters
    BY <1>1, <1>2, <1>3 DEF VlanTypes, Filters
  <1>5. /\ \A q \in Ports : vids'[q] = IF q = p THEN vids[q] \ {v} ELSE vids[q]
        /\ \A q \in Ports : kept'[q] = IF q \in Sharing(p) THEN kept[q] \ {v} ELSE kept[q]
        /\ vids' \in [Ports -> SUBSET Vids] /\ kept' \in [Ports -> SUBSET Vids]
    BY <1>1, <1>3 DEF VlanTypes
  <1>6. VlanTypes' BY <1>1, <1>3, <1>4, <1>5 DEF VlanTypes
  <1>7. \A q \in Ports : /\ VlanRam(q)' = VlanRam(q) /\ VlanRam(q) \in Rams
                         /\ Sharing(q)' = Sharing(q)
                         /\ (q \in Sharing(p)) <=> (VlanRam(q) = w)
                         /\ (p \in Sharing(q)) <=> (VlanRam(q) = w)
    BY <1>1 DEF VlanRam, Sharing, Rams, Ports, Shared
  <1>8. ASSUME NEW q \in Ports PROVE kept'[q] \subseteq vlan'[VlanRam(q)'].vids
    <2>1. kept[q] \subseteq vlan[VlanRam(q)].vids BY DEF VlanInv
    <2>2. CASE VlanRam(q) = w
      <3>1. vlan'[VlanRam(q)'].vids = vlan[VlanRam(q)].vids \ {v} BY <1>4, <1>7, <2>2
      <3>2. kept'[q] = kept[q] \ {v} BY <1>5, <1>7, <2>2
      <3> QED BY <2>1, <3>1, <3>2
    <2>3. CASE VlanRam(q) # w
      <3>1. vlan'[VlanRam(q)'].vids = vlan[VlanRam(q)].vids BY <1>4, <1>7, <2>3
      <3>2. kept'[q] = kept[q] BY <1>5, <1>7, <2>3
      <3> QED BY <2>1, <3>1, <3>2
    <2> QED BY <2>2, <2>3
  <1>9. ASSUME open' # {}, NEW q \in Ports
        PROVE  \A x \in vlan'[VlanRam(q)'].vids : \E s \in Sharing(q)' : x \in vids'[s]
    <2>1. \A x \in vlan[VlanRam(q)].vids : \E s \in Sharing(q) : x \in vids[s]
      BY <1>1, <1>9 DEF VlanInv
    <2>2. \A s \in Sharing(q) : s \in Ports /\ vids[s] \ {v} \subseteq vids'[s]
      BY <1>5 DEF Sharing
    <2>3. CASE VlanRam(q) = w
      <3>1. vlan'[VlanRam(q)'].vids = vlan[VlanRam(q)].vids \ {v} BY <1>4, <1>7, <2>3
      <3> QED BY <1>7, <2>1, <2>2, <3>1
    <2>4. CASE VlanRam(q) # w
      <3>1. vlan'[VlanRam(q)'].vids = vlan[VlanRam(q)].vids BY <1>4, <1>7, <2>4
      <3>2. \A s \in Sharing(q) : vids'[s] = vids[s] BY <1>5, <1>7, <2>2, <2>4
      <3> QED BY <1>7, <2>1, <3>1, <3>2
    <2> QED BY <2>3, <2>4
  <1>10. mode' # "LRE" => \A q \in open' : vlan'[q].on
    BY <1>1, <1>3, <1>4 DEF VlanInv, VlanTypes, Rams
  <1>11. mode' = "LRE" /\ open' = Ports => vlan'[Shared].on
    BY <1>1, <1>4 DEF VlanInv, Rams
  <1> QED BY <1>6, <1>8, <1>9, <1>10, <1>11 DEF VlanInv

LEMMA VlanInvOpen ==
  ASSUME VlanInv, NEW p \in Ports, DevOpen(p) PROVE VlanInv'
  <1> DEFINE r == Opened(Now, p, mode, open)
             cleared(q) == open = {} \/ (mode = "EMAC" /\ q = p)
  <1>1. /\ mode' = mode /\ vids' = vids /\ open' = open \cup {p} /\ p \notin open
        /\ vlan' = r.vlan /\ kept' = r.kept
    BY DEF DevOpen, stack
  <1>2. VlanTypes BY DEF VlanInv
  <1>3. Typed(Now) /\ Now.vlan = vlan /\ Now.kept = kept BY <1>2 DEF VlanTypes, Typed, Now
  <1>4. Typed(r) BY <1>3, OpenedTyped
  <1>5. /\ r.vlan[IF mode = "LRE" THEN Shared ELSE p].on
        /\ \A q \in Rams : ~cleared(q) /\ vlan[q].on => r.vlan[q].on
        /\ \A q \in Rams : r.vlan[q].vids = IF cleared(q) THEN {} ELSE vlan[q].vids
        /\ \A q \in Ports : r.kept[q] = IF cleared(q) THEN {} ELSE kept[q]
    BY <1>3, OpenedClears
  <1> HIDE DEF r
  <1>6. VlanTypes' BY <1>1, <1>2, <1>4 DEF VlanTypes, Typed
  <1>7. \A q \in Ports : /\ VlanRam(q)' = VlanRam(q) /\ VlanRam(q) \in Rams
                         /\ Sharing(q)' = Sharing(q)
                         /\ cleared(VlanRam(q)) <=> cleared(q)
    BY <1>1 DEF VlanRam, Sharing, Rams
  <1> HIDE DEF cleared
  <1>8. \A q \in Ports : kept'[q] \subseteq vlan'[VlanRam(q)'].vids
    BY <1>1, <1>5, <1>7 DEF VlanInv
  <1>9. ASSUME NEW q \in Ports
        PROVE  \A x \in vlan'[VlanRam(q)'].vids : \E s \in Sharing(q)' : x \in vids'[s]
    <2>1. CASE open = {} BY <1>1, <1>5, <1>7, <2>1 DEF cleared
    <2>2. CASE open # {} BY <1>1, <1>5, <1>7, <2>2 DEF VlanInv
    <2> QED BY <2>1, <2>2
  <1>10. ASSUME mode' # "LRE", NEW q \in open' PROVE vlan'[q].on
    <2>1. CASE q = p BY <1>1, <1>5, <1>10, <2>1
    <2>2. CASE q # p
      <3>1. q \in open /\ q \in Rams /\ ~cleared(q)
        BY <1>1, <1>2, <2>2 DEF VlanTypes, Rams, cleared
      <3> QED BY <1>1, <1>5, <1>10, <3>1 DEF VlanInv
    <2> QED BY <2>1, <2>2
  <1>11. mode' = "LRE" /\ open' = Ports => vlan'[Shared].on BY <1>1, <1>5
  <1> QED BY <1>6, <1>8, <1>9, <1>10, <1>11 DEF VlanInv

LEMMA VlanInvClose ==
  ASSUME VlanInv, NEW p \in Ports, DevClose(p) PROVE VlanInv'
  <1> DEFINE w == IF mode = "LRE" THEN Shared ELSE p
  <1>1. /\ mode' = mode /\ vids' = vids /\ kept' = kept
        /\ open' = open \ {p} /\ p \in open
        /\ vlan' = PortEnable(vlan, p, mode, FALSE)
    BY DEF DevClose, stack
  <1>2. VlanTypes BY DEF VlanInv
  <1>3. vlan' \in Filters BY <1>1, <1>2, PortEnableTyped DEF VlanTypes
  <1>4. /\ \A q \in Rams : vlan'[q].vids = vlan[q].vids
        /\ \A q \in Rams : q # w => vlan'[q] = vlan[q]
    BY <1>1, <1>2 DEF PortEnable, VlanTypes, Filters
  <1>5. VlanTypes' BY <1>1, <1>2, <1>3 DEF VlanTypes
  <1>6. \A q \in Ports : /\ VlanRam(q)' = VlanRam(q) /\ VlanRam(q) \in Rams
                         /\ Sharing(q)' = Sharing(q)
    BY <1>1 DEF VlanRam, Sharing, Rams
  <1>7. \A q \in Ports : kept'[q] \subseteq vlan'[VlanRam(q)'].vids
    BY <1>1, <1>4, <1>6 DEF VlanInv
  <1>8. ASSUME NEW q \in Ports
        PROVE  \A x \in vlan'[VlanRam(q)'].vids : \E s \in Sharing(q)' : x \in vids'[s]
    <2>1. \A x \in vlan[VlanRam(q)].vids : \E s \in Sharing(q) : x \in vids[s]
      BY <1>1 DEF VlanInv
    <2>2. vlan'[VlanRam(q)'].vids = vlan[VlanRam(q)].vids BY <1>4, <1>6
    <2> QED BY <1>1, <1>6, <2>1, <2>2
  <1>9. mode' # "LRE" => \A q \in open' : vlan'[q].on
    BY <1>1, <1>2, <1>4 DEF VlanInv, VlanTypes, Rams
  <1>10. open' # Ports BY <1>1
  <1> QED BY <1>5, <1>7, <1>8, <1>9, <1>10 DEF VlanInv

LEMMA VlanInvBridge ==
  ASSUME VlanInv, NEW ports, Bridge(ports) PROVE VlanInv'
  <1>1. /\ mode # "LRE" /\ vids' = vids /\ open' = open
        /\ mode' \in {mode, "EMAC", "SWITCH"}
    BY DEF Bridge, stack
  <1>2. VlanTypes BY DEF VlanInv
  <1>3. CASE mode' = mode
    BY <1>1, <1>3, VlanInvUnchanged DEF Bridge, tables
  <1>4. CASE mode' # mode
    <2> DEFINE r == Reopened(mode')
    <2>1. mode' \in {"EMAC", "SWITCH"} BY <1>1, <1>4
    <2>2. vlan' = r.vlan /\ kept' = r.kept BY <1>4 DEF Bridge
    <2>3. /\ Typed(r)
          /\ \A q \in Rams : r.vlan[q].vids = IF open = {} THEN vlan[q].vids ELSE {}
          /\ \A q \in Ports : r.kept[q] = IF open = {} THEN kept[q] ELSE {}
          /\ \A p \in open : r.vlan[p].on
      BY <1>2, <2>1, ReopenedClears
    <2> HIDE DEF r
    <2>4. VlanTypes' BY <1>1, <1>2, <2>1, <2>2, <2>3 DEF VlanTypes, Typed
    <2>5. \A q \in Ports : VlanRam(q) = q /\ VlanRam(q)' = q /\ q \in Rams
      BY <1>1, <2>1 DEF VlanRam, Rams
    <2>6. \A q \in Ports : kept'[q] \subseteq vlan'[VlanRam(q)'].vids
      BY <2>2, <2>3, <2>5 DEF VlanInv
    <2>7. open' # {} => \A q \in Ports : vlan'[VlanRam(q)'].vids = {}
      BY <1>1, <2>2, <2>3, <2>5
    <2>8. \A q \in open' : vlan'[q].on BY <1>1, <2>2, <2>3
    <2> QED BY <2>1, <2>4, <2>6, <2>7, <2>8 DEF VlanInv
  <1> QED BY <1>3, <1>4

LEMMA VlanInvFeatures ==
  ASSUME VlanInv, NEW m \in {"EMAC", "LRE"}, SetFeatures(m) PROVE VlanInv'
  <1>1. /\ open = {} /\ mode' = m /\ open' = open /\ vlan' = vlan /\ vids' = vids
        /\ kept' = IF m = mode THEN kept ELSE [p \in Ports |-> {}]
    BY DEF SetFeatures, tables, stack
  <1>2. CASE m = mode BY <1>1, <1>2, VlanInvUnchanged
  <1>3. CASE m # mode
    <2>1. VlanTypes' BY <1>1, <1>3 DEF VlanInv, VlanTypes
    <2>2. \A p \in Ports : kept'[p] = {} BY <1>1, <1>3
    <2> QED BY <1>1, <2>1, <2>2 DEF VlanInv, Ports
  <1> QED BY <1>2, <1>3

LEMMA VlanInvNext == VlanInv /\ [Next]_vars => VlanInv'
  <1> SUFFICES ASSUME VlanInv, [Next]_vars PROVE VlanInv'
    OBVIOUS
  <1>1. ASSUME NEW p \in Ports, NEW w \in Wishes,
               emac_ndo_set_rx_mode(p, w) \/ WishDown(p, w)
        PROVE  VlanInv'
    BY <1>1, VlanInvUnchanged DEF emac_ndo_set_rx_mode, WishDown, tables
  <1>2. ASSUME NEW p \in Ports,
               Disable(p) \/ Reset(p) \/ Promiscuous(p) \/ Enable(p) \/ Allow(p)
        PROVE  VlanInv'
    <2>1. UNCHANGED <<mode, open, vlan, vids, kept>>
      BY <1>2 DEF Disable, Reset, Promiscuous, Enable, Allow, stack
    <2> QED BY <2>1, VlanInvUnchanged
  <1>3. ASSUME NEW p \in Ports, DevOpen(p) PROVE VlanInv'
    BY <1>3, VlanInvOpen
  <1>4. ASSUME NEW p \in Ports, DevClose(p) PROVE VlanInv'
    BY <1>4, VlanInvClose
  <1>5. ASSUME NEW p \in Ports, Link(p) \/ Unlink(p) PROVE VlanInv'
    BY <1>5, VlanInvBridge DEF Link, Unlink
  <1>6. ASSUME NEW p \in Ports, NEW v \in Vids, emac_ndo_vlan_rx_add_vid(p, v)
        PROVE  VlanInv'
    BY <1>6, VlanInvAdd
  <1>7. ASSUME NEW p \in Ports, NEW v \in Vids, emac_ndo_vlan_rx_kill_vid(p, v)
        PROVE  VlanInv'
    BY <1>7, VlanInvKill
  <1>8. ASSUME NEW m \in {"EMAC", "LRE"}, SetFeatures(m) PROVE VlanInv'
    BY <1>8, VlanInvFeatures
  <1>9. CASE UNCHANGED vars BY <1>9, VlanInvUnchanged DEF vars, tables, stack
  <1> QED BY <1>1, <1>2, <1>3, <1>4, <1>5, <1>6, <1>7, <1>8, <1>9 DEF Next

\* An open port lets through the VLANs that are registered for it and no
\* others, but for those the driver has cleared itself: after any sequence of
\* emac_ndo_vlan_rx_add_vid() and emac_ndo_vlan_rx_kill_vid(), of opening and
\* closing, and of changes between EMAC, switch, and HSR or PRP.
THEOREM VlansAlways == Spec => []VlansAsAsked
  BY VlanInvInit, VlanInvNext, VlanInvImplies, PTL DEF Spec

-----------------------------------------------------------------------------
(* The promiscuous bits                                                    *)

Labels == {"idle", "disable", "reset", "promisc", "enable", "allow"}
Calls == [pc : Labels, reg : SUBSET Ports, todo : SUBSET Addrs, alone : BOOLEAN]

\* The bit is right from the moment the call has written it, not only when
\* the call has ended.
Written(p) == call[p].pc \in {"idle", "enable", "allow"}
BitRight(p) == Written(p) => (p \in promisc <=> wish[p].promisc)
PromiscInv ==
  /\ open \subseteq Ports /\ promisc \subseteq Ports
  /\ call \in [Ports -> Calls]
  /\ wish \in [Ports -> Wish]
  /\ mode = "EMAC" => \A p \in open \ lost : BitRight(p)

\* The step of a call that moves its pc from one label to another and does
\* nothing else the bits depend on.
LEMMA PcSteps ==
  ASSUME PromiscInv, NEW p \in Ports,
         call' \in [Ports -> Calls], \A q \in Ports \ {p} : call'[q] = call[q],
         Written(p)' => Written(p),
         UNCHANGED <<mode, open, promisc, wish, lost>>
  PROVE  PromiscInv'
  <1>1. ASSUME mode' = "EMAC", NEW q \in open' \ lost' PROVE BitRight(q)'
    <2>1. q \in Ports /\ BitRight(q) BY <1>1 DEF PromiscInv
    <2>2. Written(q)' => Written(q) BY <2>1 DEF Written
    <2> QED BY <2>1, <2>2 DEF BitRight
  <1> QED BY <1>1 DEF PromiscInv

LEMMA GotoTyped ==
  ASSUME call \in [Ports -> Calls], NEW p \in Ports, NEW l \in Labels, Goto(p, l)
  PROVE  /\ call' \in [Ports -> Calls] /\ call'[p].pc = l
         /\ \A q \in Ports \ {p} : call'[q] = call[q]
  BY DEF Goto, Calls

LEMMA ReturnTyped ==
  ASSUME call \in [Ports -> Calls], NEW p \in Ports, Return(p)
  PROVE  /\ call' \in [Ports -> Calls] /\ call'[p].pc = "idle"
         /\ \A q \in Ports \ {p} : call'[q] = call[q]
  BY DEF Return, Idle, Calls, Labels

LEMMA TodoTyped ==
  ASSUME NEW f \in [Ports -> Calls], NEW p \in Ports, NEW t \in SUBSET Addrs
  PROVE  LET g == [f EXCEPT ![p].todo = t]
         IN  /\ g \in [Ports -> Calls] /\ g[p].pc = f[p].pc
             /\ \A q \in Ports \ {p} : g[q] = f[q]
  BY DEF Calls

LEMMA PromiscInvInit == Init => PromiscInv
  <1> SUFFICES ASSUME Init PROVE PromiscInv
    OBVIOUS
  <1>1. open = {} /\ promisc = {} BY DEF Init
  <1>2. call \in [Ports -> Calls] BY DEF Init, Idle, Calls, Labels
  <1>3. wish \in [Ports -> Wish] BY FilterAssumption DEF Init
  <1> QED BY <1>1, <1>2, <1>3 DEF PromiscInv

LEMMA PromiscInvImplies == PromiscInv => PromiscAsAsked
  BY DEF PromiscInv, PromiscAsAsked, BitRight, Written, Busy

LEMMA CalledTyped ==
  ASSUME PromiscInv, NEW p \in Ports, NEW b \in SUBSET Ports
  PROVE  LET c == [Called(p) EXCEPT !.reg = b]
         IN  c \in Calls /\ c.pc = "disable" /\ Called(p) \in Calls
  <1>1. Called(p) \in Calls /\ Called(p).pc = "disable"
    BY DEF PromiscInv, Called, Calls, Labels
  <1> QED BY <1>1 DEF Calls

\* The call begins.
LEMMA PromiscInvBegin ==
  ASSUME PromiscInv, NEW p \in Ports, NEW w \in Wishes, emac_ndo_set_rx_mode(p, w)
  PROVE  PromiscInv'
  <1>1. /\ mode' = mode /\ open' = open /\ promisc' = promisc /\ lost' = lost
        /\ wish' = [wish EXCEPT ![p] = w]
        /\ IF w.promisc /\ mode = "LRE" THEN call' = call ELSE Begin(p)
    BY DEF emac_ndo_set_rx_mode, tables
  <1>2. call \in [Ports -> Calls] /\ wish \in [Ports -> Wish] BY DEF PromiscInv
  <1>3. wish' \in [Ports -> Wish] BY <1>1, <1>2, FilterAssumption
  <1>4. ASSUME Begin(p)
        PROVE  /\ call' \in [Ports -> Calls] /\ call'[p].pc = "disable"
               /\ \A q \in Ports \ {p} : call'[q].pc = call[q].pc
    <2>1. Called(p) \in Calls /\ Called(p).pc = "disable"
      BY DEF PromiscInv, Called, Calls, Labels
    <2>2. ASSUME NEW q \in Ports
          PROVE  /\ [call[q] EXCEPT !.alone = FALSE] \in Calls
                 /\ [call[q] EXCEPT !.alone = FALSE].pc = call[q].pc
      <3>1. call[q] \in Calls BY <1>2
      <3> QED BY <3>1 DEF Calls
    <2> QED BY <1>2, <1>4, <2>1, <2>2 DEF Begin
  <1>5. call' \in [Ports -> Calls] BY <1>1, <1>2, <1>4
  <1>6. ASSUME mode' = "EMAC", NEW q \in open' \ lost' PROVE BitRight(q)'
    <2>1. q \in Ports /\ BitRight(q) BY <1>1, <1>6 DEF PromiscInv
    <2>2. CASE q = p BY <1>1, <1>4, <1>6, <2>2 DEF BitRight, Written
    <2>3. CASE q # p
      <3>1. wish'[q] = wish[q] /\ call'[q].pc = call[q].pc BY <1>1, <1>2, <1>4, <1>6, <2>1, <2>3
      <3> QED BY <1>1, <2>1, <3>1 DEF BitRight, Written
    <2> QED BY <2>2, <2>3
  <1> QED BY <1>1, <1>3, <1>5, <1>6 DEF PromiscInv

\* The call writes the register: its own bit is right, and the other port's
\* is what it was, or is lost.
LEMMA PromiscInvWrite ==
  ASSUME PromiscInv, NEW p \in Ports, Promiscuous(p) PROVE PromiscInv'
  <1> DEFINE other == Ports \ {p}
  <1>1. /\ mode' = mode /\ open' = open /\ wish' = wish
        /\ promisc' = (call[p].reg \cap other) \cup (IF wish[p].promisc THEN {p} ELSE {})
        /\ lost' = IF promisc' \cap other = promisc \cap other THEN lost \ {p}
                   ELSE (lost \ {p}) \cup other
        /\ Return(p) \/ Goto(p, "enable")
    BY DEF Promiscuous, stack
  <1>2. call \in [Ports -> Calls] BY DEF PromiscInv
  <1>3. call' \in [Ports -> Calls] /\ \A q \in Ports \ {p} : call'[q] = call[q]
    <2>1. CASE Return(p) BY <1>2, <2>1, ReturnTyped
    <2>2. CASE Goto(p, "enable") BY <1>2, <2>2, GotoTyped DEF Labels
    <2> QED BY <1>1, <2>1, <2>2
  <1>4. promisc' \subseteq Ports /\ (p \in promisc' <=> wish[p].promisc)
    BY <1>1
  <1>5. ASSUME mode' = "EMAC", NEW q \in open' \ lost' PROVE BitRight(q)'
    <2>1. q \in Ports BY <1>1 DEF PromiscInv
    <2>2. CASE q = p BY <1>1, <1>4, <2>2 DEF BitRight
    <2>3. CASE q # p
      <3>1. q \in other BY <2>1, <2>3
      <3>2. q \notin lost /\ promisc' \cap other = promisc \cap other
        BY <1>1, <1>5, <3>1
      <3>3. BitRight(q) BY <1>1, <1>5, <3>2 DEF PromiscInv
      <3>4. q \in promisc' <=> q \in promisc BY <3>1, <3>2
      <3>5. call'[q] = call[q] BY <1>3, <2>1, <2>3
      <3> QED BY <1>1, <3>3, <3>4, <3>5 DEF BitRight, Written
    <2> QED BY <2>2, <2>3
  <1> QED BY <1>1, <1>3, <1>4, <1>5 DEF PromiscInv

\* The other steps of the call.
LEMMA PromiscInvCall ==
  ASSUME PromiscInv, NEW p \in Ports, Disable(p) \/ Reset(p) \/ Enable(p) \/ Allow(p)
  PROVE  PromiscInv'
  <1>1. UNCHANGED <<mode, open, promisc, wish, lost>>
    BY DEF Disable, Reset, Enable, Allow, stack
  <1>2. call \in [Ports -> Calls] /\ wish \in [Ports -> Wish] BY DEF PromiscInv
  <1> DEFINE Moves == /\ call' \in [Ports -> Calls]
                      /\ \A q \in Ports \ {p} : call'[q] = call[q]
  <1>3. CASE Disable(p)
    <2>1. Moves /\ call'[p].pc = "reset" BY <1>2, <1>3, GotoTyped DEF Disable, Labels
    <2> QED BY <1>1, <2>1, PcSteps DEF Written
  <1>4. CASE Reset(p) /\ mode = "EMAC"
    <2>1. Moves /\ call'[p].pc = "promisc" BY <1>2, <1>4, GotoTyped DEF Reset, Labels
    <2> QED BY <1>1, <2>1, PcSteps DEF Written
  <1>5. CASE Reset(p) /\ mode # "EMAC"
    <2>1. Moves BY <1>2, <1>5, GotoTyped DEF Reset, Labels
    <2> QED BY <1>1, <1>5, <2>1 DEF PromiscInv
  <1>6. CASE Enable(p)
    <2>1. Written(p) BY <1>6 DEF Enable, At, Written
    <2>2. CASE Return(p)
      BY <1>1, <1>2, <2>1, <2>2, ReturnTyped, PcSteps
    <2>3. ASSUME NEW t \in SUBSET Addrs,
                 call' = [call EXCEPT ![p].pc = "allow", ![p].todo = t]
          PROVE  Moves
      <3>1. call' = [[call EXCEPT ![p].pc = "allow"] EXCEPT ![p].todo = t] BY <2>3
      <3> DEFINE f == [call EXCEPT ![p].pc = "allow"]
      <3>2. f \in [Ports -> Calls] /\ \A q \in Ports \ {p} : f[q] = call[q]
        BY <1>2 DEF Calls, Labels
      <3> HIDE DEF f
      <3>3. call' = [f EXCEPT ![p].todo = t] BY <3>1 DEF f
      <3> QED BY <3>2, <3>3, TodoTyped
    <2>4. CASE ~Return(p)
      <3> DEFINE t == wish[p].list \cup IF members # {} THEN BridgeAddrs ELSE {}
      <3>1. call' = [call EXCEPT ![p].pc = "allow", ![p].todo = t]
        BY <1>6, <2>4 DEF Enable
      <3>2. t \in SUBSET Addrs BY <1>2, FilterAssumption DEF Wish
      <3> HIDE DEF t
      <3>3. Moves BY <2>3, <3>1, <3>2
      <3> QED BY <1>1, <2>1, <3>3, PcSteps
    <2> QED BY <2>2, <2>4
  <1>7. CASE Allow(p)
    <2>1. Written(p) BY <1>7 DEF Allow, At, Written
    <2>2. CASE Return(p)
      BY <1>1, <1>2, <2>1, <2>2, ReturnTyped, PcSteps
    <2>3. CASE ~Return(p)
      <3>1. PICK a \in call[p].todo : call' = [call EXCEPT ![p].todo = @ \ {a}]
        BY <1>7, <2>3 DEF Allow
      <3> DEFINE t == call[p].todo \ {a}
      <3>2. t \in SUBSET Addrs
        <4>1. call[p] \in Calls BY <1>2
        <4> QED BY <4>1 DEF Calls
      <3>3. call' = [call EXCEPT ![p].todo = t] BY <1>2, <3>1
      <3> HIDE DEF t
      <3>4. Moves BY <1>2, <3>2, <3>3, TodoTyped
      <3> QED BY <1>1, <2>1, <3>4, PcSteps
    <2> QED BY <2>2, <2>3
  <1> QED BY <1>3, <1>4, <1>5, <1>6, <1>7

LEMMA OpenedPromisc ==
  ASSUME NEW r, NEW p, NEW m, NEW P
  PROVE  Opened(r, p, m, P).promisc = IF P = {} THEN {} ELSE r.promisc
  BY DEF Opened, EmacConfig, HostInit

\* A port that is opened is in the middle of its call; the bit of a port that
\* was open before is not touched.
LEMMA PromiscInvOpen ==
  ASSUME PromiscInv, NEW p \in Ports, DevOpen(p) PROVE PromiscInv'
  <1> DEFINE b == Opened(Now, p, mode, open).promisc
  <1>1. /\ mode' = mode /\ wish' = wish /\ open' = open \cup {p} /\ p \notin open
        /\ lost' = lost \ {p} /\ promisc' = b
        /\ \/ call' = call /\ mode = "LRE"
           \/ call' = [call EXCEPT ![p] = [Called(p) EXCEPT !.reg = b]]
    BY DEF DevOpen, stack
  <1>2. b = IF open = {} THEN {} ELSE promisc BY OpenedPromisc DEF Now
  <1> HIDE DEF b
  <1>3. b \subseteq Ports BY <1>2 DEF PromiscInv
  <1>4. call \in [Ports -> Calls] BY DEF PromiscInv
  <1>5. [Called(p) EXCEPT !.reg = b] \in Calls /\ [Called(p) EXCEPT !.reg = b].pc = "disable"
    BY <1>3, CalledTyped
  <1> DEFINE c == [Called(p) EXCEPT !.reg = b]
  <1>6. c \in Calls /\ c.pc = "disable" BY <1>5
  <1>7. (call' = call /\ mode = "LRE") \/ call' = [call EXCEPT ![p] = c] BY <1>1
  <1> HIDE DEF c
  <1>8. call' \in [Ports -> Calls] BY <1>4, <1>6, <1>7
  <1>9. ASSUME mode' = "EMAC", NEW q \in open' \ lost' PROVE BitRight(q)'
    <2>1. call' = [call EXCEPT ![p] = c] BY <1>1, <1>7, <1>9
    <2>2. CASE q = p BY <1>4, <1>6, <2>1, <2>2 DEF BitRight, Written
    <2>3. CASE q # p
      <3>1. q \in open \ lost /\ q \in Ports BY <1>1, <1>9, <2>3 DEF PromiscInv
      <3>2. promisc' = promisc BY <1>1, <1>2, <3>1
      <3>3. call'[q] = call[q] BY <1>4, <2>1, <2>3, <3>1
      <3> QED BY <1>1, <1>9, <3>1, <3>2, <3>3 DEF PromiscInv, BitRight, Written
    <2> QED BY <2>2, <2>3
  <1>10. open' \subseteq Ports BY <1>1 DEF PromiscInv
  <1> QED BY <1>1, <1>3, <1>8, <1>9, <1>10 DEF PromiscInv

LEMMA PromiscInvBridge ==
  ASSUME PromiscInv, NEW ports, Bridge(ports) PROVE PromiscInv'
  <1>1. open' = open /\ call' = call /\ wish' = wish BY DEF Bridge, stack
  <1>2. CASE mode' = mode
    BY <1>1, <1>2 DEF Bridge, tables, PromiscInv, BitRight, Written
  <1>3. CASE mode' # mode
    <2>1. promisc' = Reopened(mode').promisc /\ lost' = IF open = {} THEN lost ELSE Ports
      BY <1>3 DEF Bridge
    <2>2. Reopened(mode').promisc \in {promisc, {}}
      <3> DEFINE off == [q \in DOMAIN vlan |->
                           [on |-> vlan[q].on /\ q \notin open, vids |-> vlan[q].vids]]
                 closed == [mc |-> mc, promisc |-> promisc, vlan |-> off, kept |-> kept,
                            told |-> told]
                 one == IF 1 \in open THEN Opened(closed, 1, mode', {}) ELSE closed
                 r == IF 2 \in open THEN Opened(one, 2, mode', open \cap {1}) ELSE one
      <3>1. r = Reopened(mode') BY DEF Reopened
      <3>2. closed.promisc = promisc OBVIOUS
      <3> HIDE DEF closed
      <3>3. one.promisc \in {promisc, {}} BY <3>2, OpenedPromisc
      <3> HIDE DEF one
      <3>4. Opened(one, 2, mode', open \cap {1}).promisc \in {promisc, {}}
        <4> DEFINE P == open \cap {1}
        <4> HIDE DEF P
        <4>1. Opened(one, 2, mode', P).promisc = IF P = {} THEN {} ELSE one.promisc
          BY OpenedPromisc
        <4>2. Opened(one, 2, mode', P).promisc \in {promisc, {}} BY <3>3, <4>1
        <4> QED BY <4>2 DEF P
      <3>5. r.promisc \in {promisc, {}}
        <4>1. CASE 2 \in open BY <3>4, <4>1
        <4>2. CASE 2 \notin open BY <3>3, <4>2
        <4> QED BY <4>1, <4>2
      <3> HIDE DEF r
      <3> QED BY <3>1, <3>5
    <2>3. promisc' \subseteq Ports BY <2>1, <2>2 DEF PromiscInv
    <2>4. open' \ lost' = {} BY <1>1, <2>1 DEF PromiscInv
    <2> QED BY <1>1, <2>3, <2>4 DEF PromiscInv
  <1> QED BY <1>2, <1>3

LEMMA PromiscInvNext == PromiscInv /\ [Next]_vars => PromiscInv'
  <1> SUFFICES ASSUME PromiscInv, [Next]_vars PROVE PromiscInv'
    OBVIOUS
  <1>1. ASSUME NEW p \in Ports, NEW w \in Wishes, emac_ndo_set_rx_mode(p, w)
        PROVE  PromiscInv'
    BY <1>1, PromiscInvBegin
  <1>2. ASSUME NEW p \in Ports, NEW w \in Wishes, WishDown(p, w) PROVE PromiscInv'
    <2>1. /\ UNCHANGED <<mode, open, promisc, call, lost>> /\ p \notin open
          /\ wish' = [wish EXCEPT ![p] = w]
      BY <1>2 DEF WishDown, tables
    <2>2. wish' \in [Ports -> Wish] BY <2>1, FilterAssumption DEF PromiscInv
    <2>3. \A q \in open : wish'[q] = wish[q] BY <2>1 DEF PromiscInv
    <2> QED BY <2>1, <2>2, <2>3 DEF PromiscInv, BitRight, Written
  <1>3. ASSUME NEW p \in Ports, Disable(p) \/ Reset(p) \/ Enable(p) \/ Allow(p)
        PROVE  PromiscInv'
    BY <1>3, PromiscInvCall
  <1>4. ASSUME NEW p \in Ports, Promiscuous(p) PROVE PromiscInv'
    BY <1>4, PromiscInvWrite
  <1>5. ASSUME NEW p \in Ports, DevOpen(p) PROVE PromiscInv'
    BY <1>5, PromiscInvOpen
  <1>6. ASSUME NEW p \in Ports, DevClose(p) PROVE PromiscInv'
    <2>1. UNCHANGED <<mode, promisc, call, wish, lost>> /\ open' \subseteq open
      BY <1>6 DEF DevClose, stack
    <2> QED BY <2>1 DEF PromiscInv, BitRight, Written
  <1>7. ASSUME NEW p \in Ports, Link(p) \/ Unlink(p) PROVE PromiscInv'
    BY <1>7, PromiscInvBridge DEF Link, Unlink
  <1>8. ASSUME NEW p \in Ports, NEW v \in Vids,
               emac_ndo_vlan_rx_add_vid(p, v) \/ emac_ndo_vlan_rx_kill_vid(p, v)
        PROVE  PromiscInv'
    BY <1>8 DEF emac_ndo_vlan_rx_add_vid, emac_ndo_vlan_rx_kill_vid, PromiscInv,
                BitRight, Written
  <1>9. ASSUME NEW m \in {"EMAC", "LRE"}, SetFeatures(m) PROVE PromiscInv'
    <2>1. UNCHANGED <<open, promisc, call, wish>> /\ open = {}
      BY <1>9 DEF SetFeatures, tables, stack
    <2> QED BY <2>1 DEF PromiscInv
  <1>10. CASE UNCHANGED vars
    BY <1>10 DEF vars, tables, stack, PromiscInv, BitRight, Written
  <1> QED BY <1>1, <1>2, <1>3, <1>4, <1>5, <1>6, <1>7, <1>8, <1>9, <1>10 DEF Next

\* As dual EMAC the promiscuous bit of an open port is what the stack wants,
\* but for the updates emac_ndo_set_rx_mode() of the other port undoes and for
\* the mode changes; whatever else happens to the two ports and their shared
\* register.
THEOREM PromiscAlways == Spec => []PromiscAsAsked
  BY PromiscInvInit, PromiscInvNext, PromiscInvImplies, PTL DEF Spec

-----------------------------------------------------------------------------
(* The multicast filter.                                                   *)

Table == [on : BOOLEAN, bins : SUBSET Nat]

\* The bins of what the stack wants, and of all that it may get.
WantedBins(p) == {Hash[b] : b \in wish[p].list}
AllowedBins(p) == {Hash[b] : b \in wish[p].list \cup BridgeAddrs}

\* How far emac_ndo_set_rx_mode() has come with the table of p.
InCallRight(p) ==
  LET t == mc[McRam(p)]
  IN  /\ call[p].pc \in {"reset", "promisc", "enable"} => ~t.on
      /\ call[p].pc \in {"promisc", "enable"} => t.bins = {}
      /\ call[p].pc = "allow" =>
           /\ t.on /\ ~EverythingWanted(p) /\ t.bins \subseteq AllowedBins(p)
           /\ call[p].todo \subseteq wish[p].list \cup BridgeAddrs
           /\ \A b \in wish[p].list : Hash[b] \in t.bins \/ b \in call[p].todo

\* The table of p when nobody is writing to it: off after the driver has
\* reopened the port, or because the stack wants everything.
IdleRight(p) ==
  LET t == mc[McRam(p)]
  IN  \/ ~t.on /\ (p \in told => EverythingWanted(p) \/ wish[p].promisc)
      \/ /\ t.on /\ ~EverythingWanted(p) /\ WantedBins(p) \subseteq t.bins
         /\ p \in told => t.bins \subseteq AllowedBins(p)

GroupTypes ==
  /\ mode \in {"EMAC", "SWITCH", "LRE"}
  /\ mc \in [Ports -> Table]
  /\ call \in [Ports -> Calls]
  /\ wish \in [Ports -> Wish]
  /\ told \subseteq Ports /\ open \subseteq Ports

\* Whose calls are alone on their table.
AloneInv ==
  /\ \A p \in Ports : Busy(p) => p \in open
  /\ mode # "LRE" => \A p \in Ports : Busy(p) => call[p].alone
  /\ mode = "LRE" => /\ \A p \in Ports : Busy(p) /\ call[p].alone =>
                          \A q \in Ports \ {p} : ~Busy(q)
                     /\ told # {} => AllIdle

TablesRight ==
  \A p \in open :
    /\ Busy(p) /\ call[p].alone => InCallRight(p)
    /\ ~Busy(p) /\ (p \in told \/ mode # "LRE") => IdleRight(p)

GroupsInv == GroupTypes /\ AloneInv /\ TablesRight

\* A step of the call of p: it leaves the other port's table alone, or that
\* port's call knows that it is not alone.
LEMMA StepOfOne ==
  ASSUME GroupsInv, NEW p \in Ports, Busy(p), UNCHANGED <<mode, open, wish>>,
         mc' \in [Ports -> Table], \A r \in Ports \ {McRam(p)} : mc'[r] = mc[r],
         call' \in [Ports -> Calls], \A q \in Ports \ {p} : call'[q] = call[q],
         \/ /\ Busy(p)' /\ call'[p].alone = call[p].alone /\ told' = told
            /\ call[p].alone => InCallRight(p)'
         \/ /\ ~Busy(p)' /\ told' = IF call[p].alone THEN told \cup {p} ELSE told
            /\ call[p].alone => IdleRight(p)'
  PROVE  GroupsInv'
  <1> USE DEF GroupsInv
  <1>1. GroupTypes' BY DEF GroupTypes
  <1>2. mode = "LRE" => told = {} BY DEF AloneInv, AllIdle
  <1>3. \A q \in Ports \ {p} : Busy(q)' <=> Busy(q) BY DEF Busy
  <1>4. AloneInv'
    <2>1. \A q \in Ports : Busy(q)' => q \in open' BY <1>3 DEF AloneInv
    <2>2. mode' # "LRE" => \A q \in Ports : Busy(q)' => call'[q].alone
      BY <1>3 DEF AloneInv
    <2>3. ASSUME mode' = "LRE", NEW q \in Ports, Busy(q)', call'[q].alone, NEW s \in Ports \ {q}
          PROVE  ~Busy(s)'
      <3>1. CASE q = p BY <1>3, <2>3, <3>1 DEF AloneInv
      <3>2. CASE q # p BY <1>3, <2>3, <3>2 DEF AloneInv
      <3> QED BY <3>1, <3>2
    <2>4. ASSUME mode' = "LRE", told' # {} PROVE AllIdle'
      <3>1. ~Busy(p)' /\ call[p].alone BY <1>2, <2>4
      <3>2. \A q \in Ports \ {p} : ~Busy(q)' BY <1>3, <2>4, <3>1 DEF AloneInv
      <3> QED BY <3>1, <3>2 DEF AllIdle
    <2> QED BY <2>1, <2>2, <2>3, <2>4 DEF AloneInv
  <1>5. ASSUME NEW q \in open', q # p
        PROVE  /\ Busy(q)' /\ call'[q].alone => InCallRight(q)'
               /\ ~Busy(q)' /\ (q \in told' \/ mode' # "LRE") => IdleRight(q)'
    <2>1. q \in Ports /\ call'[q] = call[q] /\ (q \in told' <=> q \in told)
      BY <1>5 DEF GroupTypes
    <2>2. CASE mode = "LRE"
      <3>1. ~(Busy(q) /\ call[q].alone) BY <1>5, <2>1, <2>2 DEF AloneInv
      <3> QED BY <1>2, <1>3, <2>1, <2>2, <3>1
    <2>3. CASE mode # "LRE"
      <3>1. McRam(q)' = McRam(q) /\ McRam(q) = q /\ McRam(p) = p BY <2>3 DEF McRam
      <3>2. mc'[q] = mc[q] BY <1>5, <2>1, <3>1
      <3>3. Busy(q) /\ call[q].alone => InCallRight(q)' = InCallRight(q)
        BY <2>1, <3>1, <3>2 DEF InCallRight, AllowedBins, EverythingWanted
      <3>4. IdleRight(q)' = IdleRight(q)
        BY <2>1, <3>1, <3>2 DEF IdleRight, AllowedBins, WantedBins, EverythingWanted
      <3>5. /\ Busy(q) /\ call[q].alone => InCallRight(q)
            /\ ~Busy(q) => IdleRight(q)
        BY <1>5, <2>3 DEF TablesRight
      <3> QED BY <1>3, <1>5, <2>1, <3>3, <3>4, <3>5
    <2> QED BY <2>2, <2>3
  <1>6. ASSUME p \in open'
        PROVE  /\ Busy(p)' /\ call'[p].alone => InCallRight(p)'
               /\ ~Busy(p)' /\ (p \in told' \/ mode' # "LRE") => IdleRight(p)'
    <2>1. mode # "LRE" => call[p].alone BY DEF AloneInv
    <2> QED BY <1>2, <2>1
  <1>7. TablesRight' BY <1>5, <1>6 DEF TablesRight
  <1> QED BY <1>1, <1>4, <1>7

\* The table of p has its type and so has its call.
LEMMA GroupTyped ==
  ASSUME GroupsInv, NEW p \in Ports
  PROVE  /\ McRam(p) \in Ports /\ mc[McRam(p)] \in Table /\ mc \in [Ports -> Table]
         /\ call \in [Ports -> Calls] /\ call[p] \in Calls /\ wish[p] \in Wish
         /\ p \in open => (Busy(p) /\ call[p].alone => InCallRight(p))
         /\ Busy(p) => p \in open
  <1>1. McRam(p) \in Ports BY DEF McRam, Ports
  <1>2. /\ mc \in [Ports -> Table] /\ call \in [Ports -> Calls] /\ wish \in [Ports -> Wish]
        /\ open \subseteq Ports
    BY DEF GroupsInv, GroupTypes
  <1> QED BY <1>1, <1>2 DEF GroupsInv, TablesRight, AloneInv

\* What the two ways to write to a table do.
LEMMA TableOn ==
  ASSUME NEW f \in [Ports -> Table], NEW r \in Ports, NEW on \in BOOLEAN
  PROVE  LET g == [f EXCEPT ![r].on = on]
         IN  /\ g \in [Ports -> Table] /\ g[r].on = on /\ g[r].bins = f[r].bins
             /\ \A s \in Ports \ {r} : g[s] = f[s]
  BY DEF Table

LEMMA TableBins ==
  ASSUME NEW f \in [Ports -> Table], NEW r \in Ports, NEW bins \in SUBSET Nat
  PROVE  LET g == [f EXCEPT ![r].bins = bins]
         IN  /\ g \in [Ports -> Table] /\ g[r].on = f[r].on /\ g[r].bins = bins
             /\ \A s \in Ports \ {r} : g[s] = f[s]
  BY DEF Table

LEMMA GotoAlone ==
  ASSUME call \in [Ports -> Calls], NEW p \in Ports, NEW l \in Labels \ {"idle"}, Goto(p, l)
  PROVE  Busy(p)' /\ call'[p].pc = l /\ call'[p].alone = call[p].alone
  BY DEF Goto, Calls, Busy

LEMMA ReturnAlone ==
  ASSUME call \in [Ports -> Calls], NEW p \in Ports, Return(p)
  PROVE  ~Busy(p)' /\ told' = IF call[p].alone THEN told \cup {p} ELSE told
  BY ReturnTyped DEF Return, Busy

\* emac_mc_filter_ctrl(emac, false) and emac_mc_filter_reset()
LEMMA GroupsDisable ==
  ASSUME GroupsInv, NEW p \in Ports, Disable(p) PROVE GroupsInv'
  <1> DEFINE r == McRam(p)
  <1>1. r \in Ports /\ mc \in [Ports -> Table] /\ call \in [Ports -> Calls] BY GroupTyped
  <1>2. /\ mc' = [mc EXCEPT ![r].on = FALSE] /\ Goto(p, "reset") /\ Busy(p)
        /\ UNCHANGED <<mode, open, wish, told>>
    BY DEF Disable, At, Busy, stack
  <1>3. r' = r BY <1>2 DEF McRam
  <1> HIDE DEF r
  <1>4. mc' \in [Ports -> Table] /\ ~mc'[r].on /\ \A s \in Ports \ {r} : mc'[s] = mc[s]
    BY <1>1, <1>2, TableOn
  <1>5. /\ call' \in [Ports -> Calls] /\ \A q \in Ports \ {p} : call'[q] = call[q]
        /\ Busy(p)' /\ call'[p].alone = call[p].alone /\ call'[p].pc = "reset"
    BY <1>1, <1>2, GotoTyped, GotoAlone DEF Labels
  <1>6. InCallRight(p)' BY <1>3, <1>4, <1>5 DEF InCallRight, r
  <1> QED BY <1>2, <1>4, <1>5, <1>6, StepOfOne DEF r

LEMMA GroupsReset ==
  ASSUME GroupsInv, NEW p \in Ports, Reset(p) PROVE GroupsInv'
  <1> DEFINE r == McRam(p)
             l == IF mode = "EMAC" THEN "promisc" ELSE "enable"
  <1>1. r \in Ports /\ mc \in [Ports -> Table] /\ call \in [Ports -> Calls] BY GroupTyped
  <1>2. /\ mc' = [mc EXCEPT ![r].bins = {}] /\ Goto(p, l) /\ Busy(p) /\ call[p].pc = "reset"
        /\ UNCHANGED <<mode, open, wish, told>>
    BY DEF Reset, At, Busy, stack
  <1>3. r' = r BY <1>2 DEF McRam
  <1>4. call[p].alone => ~mc[r].on BY <1>2, GroupTyped DEF InCallRight
  <1> HIDE DEF r
  <1>5. /\ mc' \in [Ports -> Table] /\ mc'[r].on = mc[r].on /\ mc'[r].bins = {}
        /\ \A s \in Ports \ {r} : mc'[s] = mc[s]
    <2> DEFINE g == [mc EXCEPT ![r].bins = {}]
    <2>1. {} \in SUBSET Nat /\ mc \in [Ports -> Table] /\ r \in Ports BY <1>1
    <2>2. /\ g \in [Ports -> Table] /\ g[r].on = mc[r].on /\ g[r].bins = {}
          /\ \A s \in Ports \ {r} : g[s] = mc[s]
      BY <2>1, TableBins
    <2>3. mc' = g BY <1>2
    <2> QED BY <2>2, <2>3
  <1>6. l \in Labels \ {"idle"} BY DEF Labels
  <1>7. /\ call' \in [Ports -> Calls] /\ \A q \in Ports \ {p} : call'[q] = call[q]
        /\ Busy(p)' /\ call'[p].alone = call[p].alone /\ call'[p].pc \in {"promisc", "enable"}
    BY <1>1, <1>2, <1>6, GotoTyped, GotoAlone
  <1>8. call[p].alone => InCallRight(p)'
    BY <1>3, <1>4, <1>5, <1>7 DEF InCallRight, r
  <1> QED BY <1>2, <1>5, <1>7, <1>8, StepOfOne DEF r

\* The register is written: the call is over if the port is to be promiscuous.
LEMMA GroupsPromiscuous ==
  ASSUME GroupsInv, NEW p \in Ports, Promiscuous(p) PROVE GroupsInv'
  <1>1. call \in [Ports -> Calls] /\ mc \in [Ports -> Table] BY GroupTyped
  <1>2. /\ UNCHANGED <<mode, open, wish, mc>> /\ Busy(p) /\ call[p].pc = "promisc"
        /\ IF wish[p].promisc THEN Return(p) ELSE Goto(p, "enable") /\ UNCHANGED told
    BY DEF Promiscuous, At, Busy, stack
  <1>3. McRam(p)' = McRam(p) BY <1>2 DEF McRam
  <1>4. call[p].alone => ~mc[McRam(p)].on /\ mc[McRam(p)].bins = {}
    BY <1>2, GroupTyped DEF InCallRight
  <1>5. CASE wish[p].promisc
    <2>1. /\ call' \in [Ports -> Calls] /\ \A q \in Ports \ {p} : call'[q] = call[q]
          /\ ~Busy(p)' /\ told' = IF call[p].alone THEN told \cup {p} ELSE told
      BY <1>1, <1>2, <1>5, ReturnTyped, ReturnAlone
    <2>2. call[p].alone => IdleRight(p)'
      BY <1>2, <1>3, <1>4, <1>5 DEF IdleRight
    <2> QED BY <1>1, <1>2, <2>1, <2>2, StepOfOne
  <1>6. CASE ~wish[p].promisc
    <2>1. /\ call' \in [Ports -> Calls] /\ \A q \in Ports \ {p} : call'[q] = call[q]
          /\ Busy(p)' /\ call'[p].alone = call[p].alone /\ call'[p].pc = "enable"
      BY <1>1, <1>2, <1>6, GotoTyped, GotoAlone DEF Labels
    <2>2. call[p].alone => InCallRight(p)'
      BY <1>2, <1>3, <1>4, <2>1 DEF InCallRight
    <2> QED BY <1>1, <1>2, <1>6, <2>1, <2>2, StepOfOne
  <1> QED BY <1>5, <1>6

\* The call goes on with the addresses t.
LEMMA TodoAlone ==
  ASSUME call \in [Ports -> Calls], NEW p \in Ports, NEW t \in SUBSET Addrs,
         NEW l \in Labels \ {"idle"}, call' = [call EXCEPT ![p].pc = l, ![p].todo = t]
  PROVE  /\ call' \in [Ports -> Calls] /\ \A q \in Ports \ {p} : call'[q] = call[q]
         /\ Busy(p)' /\ call'[p].pc = l /\ call'[p].todo = t
         /\ call'[p].alone = call[p].alone
  <1> DEFINE f == [call EXCEPT ![p].pc = l]
  <1>1. /\ f \in [Ports -> Calls] /\ f[p].pc = l /\ f[p].alone = call[p].alone
        /\ \A q \in Ports \ {p} : f[q] = call[q]
    BY DEF Calls
  <1>2. call' = [f EXCEPT ![p].todo = t] OBVIOUS
  <1> HIDE DEF f
  <1> DEFINE c == [f[p] EXCEPT !.todo = t]
  <1>3. f[p] \in Calls BY <1>1
  <1>4. c \in Calls /\ c.pc = f[p].pc /\ c.todo = t /\ c.alone = f[p].alone
    BY <1>3 DEF Calls
  <1>5. call' = [f EXCEPT ![p] = c] BY <1>2
  <1> HIDE DEF c
  <1>6. call' \in [Ports -> Calls] /\ call'[p] = c /\ \A q \in Ports \ {p} : call'[q] = f[q]
    BY <1>1, <1>4, <1>5
  <1> QED BY <1>1, <1>4, <1>6 DEF Busy

LEMMA GroupsEnable ==
  ASSUME GroupsInv, NEW p \in Ports, Enable(p) PROVE GroupsInv'
  <1> DEFINE r == McRam(p)
             t == wish[p].list \cup IF members # {} THEN BridgeAddrs ELSE {}
  <1>1. /\ r \in Ports /\ mc \in [Ports -> Table] /\ call \in [Ports -> Calls]
        /\ wish[p] \in Wish
    BY GroupTyped
  <1>2. Busy(p) /\ call[p].pc = "enable" /\ UNCHANGED <<mode, open, wish>>
    BY DEF Enable, At, Busy, stack
  <1>3. r' = r /\ EverythingWanted(p)' = EverythingWanted(p)
    BY <1>2 DEF McRam, EverythingWanted
  <1>4. call[p].alone => ~mc[r].on /\ mc[r].bins = {}
    BY <1>2, GroupTyped DEF InCallRight
  <1>5. CASE EverythingWanted(p)
    <2>1. Return(p) /\ mc' = mc BY <1>5 DEF Enable, EverythingWanted
    <2>2. /\ call' \in [Ports -> Calls] /\ \A q \in Ports \ {p} : call'[q] = call[q]
          /\ ~Busy(p)' /\ told' = IF call[p].alone THEN told \cup {p} ELSE told
      BY <1>1, <2>1, ReturnTyped, ReturnAlone
    <2>3. call[p].alone => IdleRight(p)'
      BY <1>3, <1>4, <1>5, <2>1 DEF IdleRight
    <2> QED BY <1>1, <1>2, <2>1, <2>2, <2>3, StepOfOne
  <1>6. CASE ~EverythingWanted(p)
    <2>1. mc' = [mc EXCEPT ![r].on = TRUE]
      BY <1>6 DEF Enable, EverythingWanted
    <2> HIDE DEF r
    <2>2. /\ mc' \in [Ports -> Table] /\ mc'[r].on /\ mc'[r].bins = mc[r].bins
          /\ \A s \in Ports \ {r} : mc'[s] = mc[s]
      BY <1>1, <2>1, TableOn
    <2>3. CASE wish[p].list = {}
      <3>1. Return(p) BY <1>6, <2>3 DEF Enable, EverythingWanted
      <3>2. /\ call' \in [Ports -> Calls] /\ \A q \in Ports \ {p} : call'[q] = call[q]
            /\ ~Busy(p)' /\ told' = IF call[p].alone THEN told \cup {p} ELSE told
        BY <1>1, <3>1, ReturnTyped, ReturnAlone
      <3>3. WantedBins(p)' = {} BY <1>2, <2>3 DEF WantedBins
      <3>4. ASSUME call[p].alone PROVE IdleRight(p)'
        <4>1. mc'[r].bins = {} BY <1>4, <2>2, <3>4
        <4>2. WantedBins(p)' \subseteq mc'[r].bins /\ mc'[r].bins \subseteq AllowedBins(p)'
          BY <3>3, <4>1
        <4> QED BY <1>3, <1>6, <2>2, <4>2 DEF IdleRight, r
      <3> QED BY <1>2, <2>2, <3>2, <3>4, StepOfOne DEF r
    <2>4. CASE wish[p].list # {}
      <3>1. call' = [call EXCEPT ![p].pc = "allow", ![p].todo = t] /\ told' = told
        BY <1>6, <2>4 DEF Enable, EverythingWanted
      <3>2. t \in SUBSET Addrs BY <1>1, FilterAssumption DEF Wish
      <3>3. wish[p].list \subseteq t /\ t \subseteq wish[p].list \cup BridgeAddrs OBVIOUS
      <3> HIDE DEF t
      <3>4. /\ call' \in [Ports -> Calls] /\ \A q \in Ports \ {p} : call'[q] = call[q]
            /\ Busy(p)' /\ call'[p].pc = "allow" /\ call'[p].todo = t
            /\ call'[p].alone = call[p].alone
        <4>1. "allow" \in Labels \ {"idle"} BY DEF Labels
        <4> QED BY <4>1, <1>1, <3>1, <3>2, TodoAlone
      <3>5. ASSUME call[p].alone PROVE InCallRight(p)'
        <4>1. mc'[r].bins \subseteq AllowedBins(p)' BY <1>4, <2>2, <3>5
        <4>2. \A b \in wish'[p].list : b \in call'[p].todo BY <1>2, <3>3, <3>4
        <4>3. call'[p].todo \subseteq wish'[p].list \cup BridgeAddrs BY <1>2, <3>3, <3>4
        <4> QED BY <1>3, <1>6, <2>2, <3>4, <4>1, <4>2, <4>3 DEF InCallRight, r
      <3> QED BY <1>2, <2>2, <3>1, <3>4, <3>5, StepOfOne DEF r
    <2> QED BY <2>3, <2>4
  <1> QED BY <1>5, <1>6

\* emac_mc_filter_bin_allow()
LEMMA GroupsAllow ==
  ASSUME GroupsInv, NEW p \in Ports, Allow(p) PROVE GroupsInv'
  <1> DEFINE r == McRam(p)
  <1>1. /\ r \in Ports /\ mc \in [Ports -> Table] /\ call \in [Ports -> Calls]
        /\ wish[p] \in Wish /\ call[p] \in Calls
    BY GroupTyped
  <1>2. Busy(p) /\ call[p].pc = "allow" /\ UNCHANGED <<mode, open, wish>>
    BY DEF Allow, At, Busy, stack
  <1>3. /\ r' = r /\ EverythingWanted(p)' = EverythingWanted(p)
        /\ WantedBins(p)' = WantedBins(p) /\ AllowedBins(p)' = AllowedBins(p)
    BY <1>2 DEF McRam, EverythingWanted, WantedBins, AllowedBins
  <1>4. PICK a \in call[p].todo :
          /\ mc' = [mc EXCEPT ![r].bins = @ \cup {Hash[a]}]
          /\ IF call[p].todo = {a} THEN Return(p)
             ELSE call' = [call EXCEPT ![p].todo = @ \ {a}] /\ told' = told
    BY DEF Allow
  <1>5. a \in Addrs /\ Hash[a] \in Nat BY <1>1, FilterAssumption DEF Calls
  <1>6. call[p].alone =>
          /\ mc[r].on /\ ~EverythingWanted(p) /\ mc[r].bins \subseteq AllowedBins(p)
          /\ call[p].todo \subseteq wish[p].list \cup BridgeAddrs
          /\ \A b \in wish[p].list : Hash[b] \in mc[r].bins \/ b \in call[p].todo
    BY <1>2, GroupTyped DEF InCallRight
  <1> HIDE DEF r
  <1> DEFINE bins == mc[r].bins \cup {Hash[a]}
  <1>7. mc[r].bins \in SUBSET Nat BY <1>1 DEF Table
  <1>8. bins \in SUBSET Nat BY <1>5, <1>7
  <1>9. mc' = [mc EXCEPT ![r].bins = bins] BY <1>1, <1>4
  <1>10. Hash[a] \in bins /\ mc[r].bins \subseteq bins
         /\ \A x \in bins : x \in mc[r].bins \/ x = Hash[a]
    OBVIOUS
  <1> HIDE DEF bins
  <1>11. /\ mc' \in [Ports -> Table] /\ mc'[r].on = mc[r].on /\ mc'[r].bins = bins
         /\ \A s \in Ports \ {r} : mc'[s] = mc[s]
    BY <1>1, <1>8, <1>9, TableBins
  <1>12. ASSUME call[p].alone PROVE bins \subseteq AllowedBins(p)
    <2>1. Hash[a] \in AllowedBins(p) BY <1>4, <1>6, <1>12 DEF AllowedBins
    <2> QED BY <1>6, <1>10, <1>12, <2>1
  <1>13. ASSUME call[p].alone, NEW b \in wish[p].list
         PROVE  Hash[b] \in bins \/ b \in call[p].todo \ {a}
    BY <1>6, <1>10, <1>13
  <1>14. CASE call[p].todo = {a}
    <2>1. /\ call' \in [Ports -> Calls] /\ \A q \in Ports \ {p} : call'[q] = call[q]
          /\ ~Busy(p)' /\ told' = IF call[p].alone THEN told \cup {p} ELSE told
      BY <1>1, <1>4, <1>14, ReturnTyped, ReturnAlone
    <2>2. ASSUME call[p].alone PROVE IdleRight(p)'
      <3>1. WantedBins(p) \subseteq bins BY <1>13, <1>14, <2>2 DEF WantedBins
      <3> QED BY <1>3, <1>6, <1>11, <1>12, <2>2, <3>1 DEF IdleRight, r
    <2> QED BY <1>1, <1>2, <1>11, <2>1, <2>2, StepOfOne DEF r
  <1>15. CASE call[p].todo # {a}
    <2> DEFINE t == call[p].todo \ {a}
    <2>1. t \in SUBSET Addrs BY <1>1 DEF Calls
    <2>2. call' = [call EXCEPT ![p].todo = t] /\ told' = told BY <1>1, <1>4, <1>15
    <2>3. t \subseteq call[p].todo OBVIOUS
    <2>4. ASSUME call[p].alone, NEW b \in wish[p].list PROVE Hash[b] \in bins \/ b \in t
      BY <1>13, <2>4
    <2> HIDE DEF t
    <2>5. call' = [call EXCEPT ![p].pc = "allow", ![p].todo = t] BY <1>1, <1>2, <2>2 DEF Calls
    <2>6. /\ call' \in [Ports -> Calls] /\ \A q \in Ports \ {p} : call'[q] = call[q]
          /\ Busy(p)' /\ call'[p].pc = "allow" /\ call'[p].todo = t
          /\ call'[p].alone = call[p].alone
      <3>1. "allow" \in Labels \ {"idle"} BY DEF Labels
      <3> QED BY <3>1, <1>1, <2>1, <2>5, TodoAlone
    <2>7. ASSUME call[p].alone PROVE InCallRight(p)'
      <3>1. \A b \in wish'[p].list : Hash[b] \in mc'[r].bins \/ b \in call'[p].todo
        BY <1>2, <1>11, <2>4, <2>6, <2>7
      <3>2. call'[p].todo \subseteq wish'[p].list \cup BridgeAddrs
        BY <1>2, <1>6, <2>3, <2>6, <2>7
      <3>3. mc'[r].on /\ ~EverythingWanted(p)' /\ mc'[r].bins \subseteq AllowedBins(p)'
        BY <1>3, <1>6, <1>11, <1>12, <2>7
      <3> QED BY <1>3, <2>6, <3>1, <3>2, <3>3 DEF InCallRight, r
    <2> QED BY <1>1, <1>2, <1>11, <2>2, <2>6, <2>7, StepOfOne DEF r
  <1> QED BY <1>14, <1>15

\* A port whose table, call and wish stay as they are.
LEMMA Untouched ==
  ASSUME NEW q \in Ports, mode' = mode, wish'[q] = wish[q], call'[q] = call[q],
         mc'[McRam(q)] = mc[McRam(q)], q \in told' => q \in told
  PROVE  /\ Busy(q)' <=> Busy(q)
         /\ InCallRight(q) => InCallRight(q)'
         /\ IdleRight(q) => IdleRight(q)'
  <1>1. McRam(q)' = McRam(q) BY DEF McRam
  <1>2. EverythingWanted(q)' = EverythingWanted(q) BY DEF EverythingWanted
  <1>3. WantedBins(q)' = WantedBins(q) /\ AllowedBins(q)' = AllowedBins(q)
    BY DEF WantedBins, AllowedBins
  <1> QED BY <1>1, <1>2, <1>3 DEF InCallRight, IdleRight, Busy

LEMMA GroupsUnchanged ==
  ASSUME GroupsInv, UNCHANGED <<mode, open, mc, call, wish, told>> PROVE GroupsInv'
  <1>1. ASSUME NEW q \in Ports
        PROVE  /\ Busy(q)' <=> Busy(q)
               /\ InCallRight(q) => InCallRight(q)'
               /\ IdleRight(q) => IdleRight(q)'
    BY <1>1, Untouched
  <1>2. GroupTypes' BY DEF GroupsInv, GroupTypes
  <1>3. AloneInv' BY DEF GroupsInv, AloneInv, Busy, AllIdle
  <1>4. TablesRight' BY <1>1 DEF GroupsInv, GroupTypes, TablesRight
  <1> QED BY <1>2, <1>3, <1>4 DEF GroupsInv

\* The call begins.
LEMMA GroupsBegin ==
  ASSUME PromiscInv, GroupsInv, NEW p \in Ports, NEW w \in Wishes, emac_ndo_set_rx_mode(p, w)
  PROVE  GroupsInv'
  <1>1. /\ UNCHANGED <<mode, open, mc>> /\ p \in open /\ ~Busy(p)
        /\ wish' = [wish EXCEPT ![p] = w]
        /\ IF w.promisc /\ mode = "LRE" THEN told' = told \ {p} /\ call' = call
           ELSE told' = told \ Sharing(p) /\ Begin(p)
    BY DEF emac_ndo_set_rx_mode, tables
  <1>2. GroupTypes BY DEF GroupsInv
  <1>3. wish' \in [Ports -> Wish] /\ \A q \in Ports \ {p} : wish'[q] = wish[q]
    BY <1>1, <1>2, FilterAssumption DEF GroupTypes
  <1>4. ASSUME NEW q \in Ports \ {p}, call'[q] = call[q]
        PROVE  /\ Busy(q)' <=> Busy(q)
               /\ InCallRight(q) => InCallRight(q)'
               /\ IdleRight(q) => IdleRight(q)'
    <2>1. q \in told' => q \in told BY <1>1
    <2> QED BY <1>1, <1>3, <1>4, <2>1, Untouched
  <1>5. CASE w.promisc /\ mode = "LRE"
    <2>1. told' = told \ {p} /\ call' = call BY <1>1, <1>5
    <2>2. GroupTypes' BY <1>1, <1>2, <1>3, <2>1 DEF GroupTypes
    <2>3. AloneInv' BY <1>1, <1>5, <2>1 DEF GroupsInv, AloneInv, Busy, AllIdle
    <2>4. ~Busy(p)' BY <1>1, <2>1 DEF Busy
    <2>5. ASSUME NEW q \in open', q # p
          PROVE  /\ Busy(q)' /\ call'[q].alone => InCallRight(q)'
                 /\ ~Busy(q)' /\ (q \in told' \/ mode' # "LRE") => IdleRight(q)'
      <3>1. q \in Ports \ {p} /\ q \in open BY <1>1, <1>2, <2>5 DEF GroupTypes
      <3> QED BY <1>1, <1>4, <2>1, <3>1 DEF GroupsInv, TablesRight
    <2>6. TablesRight' BY <1>1, <1>5, <2>1, <2>4, <2>5 DEF TablesRight
    <2> QED BY <2>2, <2>3, <2>6 DEF GroupsInv
  <1>6. CASE ~(w.promisc /\ mode = "LRE")
    <2> DEFINE c == Called(p)
    <2>1. told' = told \ Sharing(p) /\ Begin(p) BY <1>1, <1>6
    <2>2. /\ c \in Calls /\ c.pc = "disable"
          /\ c.alone = \A q \in Sharing(p) \ {p} : ~Busy(q)
      BY DEF Called, PromiscInv, Calls, Labels
    <2>3. /\ call'[p] = c
          /\ \A q \in Ports \ {p} :
               call'[q] = IF q \in Sharing(p) THEN [call[q] EXCEPT !.alone = FALSE]
                          ELSE call[q]
          /\ call' = [q \in Ports |-> call'[q]]
      BY <2>1 DEF Begin
    <2> HIDE DEF c
    <2>4. ASSUME NEW q \in Ports
          PROVE  /\ [call[q] EXCEPT !.alone = FALSE] \in Calls
                 /\ [call[q] EXCEPT !.alone = FALSE].pc = call[q].pc
                 /\ ~[call[q] EXCEPT !.alone = FALSE].alone
      <3>1. call[q] \in Calls BY <1>2 DEF GroupTypes
      <3> QED BY <3>1 DEF Calls
    <2>5. ASSUME NEW q \in Ports PROVE call'[q] \in Calls
      <3>1. call[q] \in Calls BY <1>2 DEF GroupTypes
      <3> QED BY <2>2, <2>3, <2>4, <3>1
    <2>6. call' \in [Ports -> Calls] BY <2>3, <2>5
    <2>7. Busy(p)' BY <2>2, <2>3 DEF Busy
    <2>8. \A q \in Ports \ {p} : Busy(q)' <=> Busy(q) BY <2>3, <2>4 DEF Busy
    <2>9. InCallRight(p)' BY <2>2, <2>3 DEF InCallRight
    <2>10. GroupTypes' BY <1>1, <1>2, <1>3, <2>1, <2>6 DEF GroupTypes
    <2>11. \A q \in Ports : Busy(q)' => q \in open'
      BY <1>1, <2>8 DEF GroupsInv, AloneInv
    <2>12. CASE mode = "LRE"
      <3>1. Sharing(p) = Ports /\ told' = {} BY <1>2, <2>1, <2>12 DEF Sharing, GroupTypes
      <3>2. \A q \in Ports \ {p} : ~call'[q].alone BY <2>3, <2>4, <3>1
      <3>3. call'[p].alone => \A q \in Ports \ {p} : ~Busy(q)' BY <2>2, <2>3, <2>8, <3>1
      <3>4. AloneInv' BY <1>1, <2>11, <2>12, <3>1, <3>2, <3>3 DEF AloneInv
      <3>5. TablesRight'
        BY <1>1, <1>2, <2>7, <2>9, <2>12, <3>1, <3>2 DEF TablesRight, GroupTypes
      <3> QED BY <2>10, <3>4, <3>5 DEF GroupsInv
    <2>13. CASE mode # "LRE"
      <3>1. Sharing(p) = {p} BY <2>13 DEF Sharing
      <3>2. \A q \in Ports \ {p} : call'[q] = call[q] BY <2>3, <3>1
      <3>3. c.alone BY <2>2, <3>1
      <3>4. AloneInv' BY <1>1, <2>3, <2>8, <2>11, <2>13, <3>2, <3>3 DEF GroupsInv, AloneInv
      <3>5. ASSUME NEW q \in open', q # p
            PROVE  /\ Busy(q)' /\ call'[q].alone => InCallRight(q)'
                   /\ ~Busy(q)' /\ (q \in told' \/ mode' # "LRE") => IdleRight(q)'
        <4>1. q \in Ports \ {p} /\ q \in open BY <1>1, <1>2, <3>5 DEF GroupTypes
        <4> QED BY <1>4, <2>13, <3>2, <4>1 DEF GroupsInv, TablesRight
      <3>6. TablesRight' BY <2>7, <2>9, <3>5 DEF TablesRight
      <3> QED BY <2>10, <3>4, <3>6 DEF GroupsInv
    <2> QED BY <2>12, <2>13
  <1> QED BY <1>5, <1>6

\* What emac_ndo_open() leaves in the tables.
LEMMA OpenedMc ==
  ASSUME NEW r, r.mc \in [Ports -> Table], NEW p \in Ports, NEW m, NEW P
  PROVE  LET n == Opened(r, p, m, P)
         IN  /\ n.mc \in [Ports -> Table]
             /\ \A q \in Ports : n.mc[q] = IF P = {} \/ (m = "EMAC" /\ q = p) THEN NoMc
                                           ELSE r.mc[q]
             /\ P = {} => n.told = {}
             /\ P # {} => n.told \subseteq r.told
  <1> DEFINE first == IF P = {} THEN HostInit ELSE r
             own == IF m = "EMAC" THEN EmacConfig(first, p) ELSE first
  <1>1. NoMc \in Table BY DEF NoMc, Table
  <1>2. /\ HostInit.mc = [q \in Ports |-> NoMc] /\ HostInit.told = {}
        /\ \A s : EmacConfig(s, p).mc = [s.mc EXCEPT ![p] = NoMc]
        /\ \A s : EmacConfig(s, p).told = s.told \ {p}
    BY DEF HostInit, EmacConfig
  <1>3. /\ first.mc \in [Ports -> Table]
        /\ \A q \in Ports : first.mc[q] = IF P = {} THEN NoMc ELSE r.mc[q]
        /\ first.told = IF P = {} THEN {} ELSE r.told
    BY <1>1, <1>2
  <1> HIDE DEF first
  <1>4. own.mc = (IF m = "EMAC" THEN [first.mc EXCEPT ![p] = NoMc] ELSE first.mc)
        /\ own.told \subseteq first.told
    BY <1>2
  <1>5. Opened(r, p, m, P).mc = own.mc /\ Opened(r, p, m, P).told = own.told
    BY DEF Opened, first
  <1> HIDE DEF own
  <1>6. /\ own.mc \in [Ports -> Table]
        /\ \A q \in Ports : own.mc[q] = IF m = "EMAC" /\ q = p THEN NoMc ELSE first.mc[q]
    BY <1>1, <1>3, <1>4
  <1> QED BY <1>3, <1>4, <1>5, <1>6

LEMMA GroupsOpen ==
  ASSUME PromiscInv, GroupsInv, NEW p \in Ports, DevOpen(p) PROVE GroupsInv'
  <1> DEFINE n == Opened(Now, p, mode, open)
             called == ~(wish[p].promisc /\ mode = "LRE")
             c == [Called(p) EXCEPT !.reg = n.promisc]
  <1>1. GroupTypes BY DEF GroupsInv
  <1>2. /\ UNCHANGED <<mode, wish>> /\ open' = open \cup {p} /\ p \notin open /\ AllIdle
        /\ mc' = n.mc
        /\ told' = n.told \ (IF called THEN Sharing(p) ELSE {p})
        /\ call' = IF called THEN [call EXCEPT ![p] = c] ELSE call
    BY DEF DevOpen, stack
  <1>3. /\ mc' \in [Ports -> Table]
        /\ \A q \in Ports : n.mc[q] = IF open = {} \/ (mode = "EMAC" /\ q = p) THEN NoMc
                                      ELSE mc[q]
        /\ open = {} => n.told = {}
        /\ open # {} => n.told \subseteq told
    <2>1. Now.mc = mc /\ Now.told = told BY DEF Now
    <2>2. mc \in [Ports -> Table] BY <1>1 DEF GroupTypes
    <2> HIDE DEF n
    <2> QED BY <1>2, <2>1, <2>2, OpenedMc DEF n
  <1>4. c \in Calls /\ c.pc = "disable"
    <2>1. n.promisc = IF open = {} THEN {} ELSE promisc BY OpenedPromisc DEF Now
    <2>2. n.promisc \in SUBSET Ports BY <2>1 DEF PromiscInv
    <2> HIDE DEF n
    <2> QED BY <2>2, CalledTyped
  <1>5. c.alone
    <2>1. Called(p) \in Calls /\ Called(p).alone
      BY <1>2 DEF Called, PromiscInv, Calls, Labels, Sharing, AllIdle
    <2> HIDE DEF n
    <2> QED BY <2>1 DEF Calls
  <1> HIDE DEF n, c
  <1>6. call' \in [Ports -> Calls] /\ \A q \in Ports \ {p} : call'[q] = call[q]
    BY <1>1, <1>2, <1>4 DEF GroupTypes
  <1>7. \A q \in Ports \ {p} : ~Busy(q)' BY <1>2, <1>6 DEF AllIdle, Busy
  <1>8. called => call'[p] = c BY <1>1, <1>2 DEF GroupTypes
  <1>9. ~called => mode = "LRE" /\ p \notin told' /\ ~Busy(p)' BY <1>2 DEF AllIdle, Busy
  <1>10. told' \subseteq told /\ (open = {} => told' = {})
    BY <1>2, <1>3
  <1>11. GroupTypes' BY <1>1, <1>2, <1>3, <1>6, <1>10 DEF GroupTypes
  <1>12. called /\ mode = "LRE" => told' = {}
    BY <1>1, <1>2, <1>10 DEF Sharing, GroupTypes
  <1>13. AloneInv'
    <2>1. \A q \in Ports : Busy(q)' => q = p /\ p \in open' BY <1>2, <1>7
    <2>2. \A q \in Ports : Busy(q)' => call'[q].alone BY <1>5, <1>8, <1>9, <2>1
    <2>3. \A q \in Ports : Busy(q)' => \A s \in Ports \ {q} : ~Busy(s)' BY <1>7, <2>1
    <2>4. mode = "LRE" /\ told' # {} => AllIdle' BY <1>7, <1>9, <1>12 DEF AllIdle
    <2> QED BY <1>2, <2>1, <2>2, <2>3, <2>4 DEF AloneInv
  <1>14. /\ Busy(p)' /\ call'[p].alone => InCallRight(p)'
         /\ ~Busy(p)' /\ (p \in told' \/ mode' # "LRE") => IdleRight(p)'
    <2>1. CASE called
      <3>1. Busy(p)' /\ call'[p].pc = "disable" BY <1>4, <1>8, <2>1 DEF Busy
      <3> QED BY <3>1 DEF InCallRight
    <2>2. CASE ~called BY <1>2, <1>9, <2>2
    <2> QED BY <2>1, <2>2
  <1>15. ASSUME NEW q \in open', q # p
         PROVE  /\ Busy(q)' /\ call'[q].alone => InCallRight(q)'
                /\ ~Busy(q)' /\ (q \in told' \/ mode' # "LRE") => IdleRight(q)'
    <2>1. q \in Ports /\ q \in open BY <1>1, <1>2, <1>15 DEF GroupTypes
    <2>2. ~Busy(q)' /\ ~Busy(q) /\ call'[q] = call[q]
      BY <1>2, <1>6, <1>7, <1>15, <2>1 DEF AllIdle
    <2>3. ASSUME q \in told' \/ mode' # "LRE" PROVE IdleRight(q)'
      <3>1. McRam(q) \in Ports BY <2>1 DEF McRam, Ports
      <3>2. mode # "LRE" => McRam(q) = q BY DEF McRam
      <3>3. mc'[McRam(q)] = mc[McRam(q)]
        BY <1>2, <1>3, <1>15, <2>1, <3>1, <3>2
      <3>4. IdleRight(q) BY <1>2, <1>10, <2>1, <2>2, <2>3 DEF GroupsInv, TablesRight
      <3> QED BY <1>2, <1>10, <2>1, <2>2, <3>3, <3>4, Untouched
    <2> QED BY <2>2, <2>3
  <1>16. TablesRight' BY <1>14, <1>15 DEF TablesRight
  <1> QED BY <1>11, <1>13, <1>16 DEF GroupsInv

\* Closing a port, another wish for a closed one, HSR and PRP.
LEMMA GroupsClose ==
  ASSUME GroupsInv, NEW p \in Ports, DevClose(p) PROVE GroupsInv'
  <1>1. UNCHANGED <<mode, mc, call, wish, told>> /\ open' = open \ {p} /\ AllIdle
    BY DEF DevClose, stack
  <1>2. \A q \in Ports : ~Busy(q)' BY <1>1 DEF AllIdle, Busy
  <1>3. GroupTypes' BY <1>1 DEF GroupsInv, GroupTypes
  <1>4. AloneInv' BY <1>2 DEF AloneInv, AllIdle
  <1>5. ASSUME NEW q \in open', q \in told' \/ mode' # "LRE" PROVE ~Busy(q)' /\ IdleRight(q)'
    <2>1. q \in Ports /\ q \in open BY <1>1, <1>5 DEF GroupsInv, GroupTypes
    <2>2. ~Busy(q) BY <1>1, <2>1 DEF AllIdle
    <2>3. IdleRight(q) BY <1>1, <1>5, <2>1, <2>2 DEF GroupsInv, TablesRight
    <2> QED BY <1>1, <1>2, <2>1, <2>3, Untouched
  <1>6. TablesRight'
    <2>1. open' \subseteq Ports BY <1>3 DEF GroupTypes
    <2> QED BY <1>2, <1>5, <2>1 DEF TablesRight
  <1> QED BY <1>3, <1>4, <1>6 DEF GroupsInv

LEMMA GroupsWishDown ==
  ASSUME GroupsInv, NEW p \in Ports, NEW w \in Wishes, WishDown(p, w) PROVE GroupsInv'
  <1>1. /\ UNCHANGED <<mode, open, mc, call, told>> /\ p \notin open
        /\ wish' = [wish EXCEPT ![p] = w]
    BY DEF WishDown, tables
  <1>2. GroupTypes BY DEF GroupsInv
  <1>3. wish' \in [Ports -> Wish] /\ \A q \in Ports \ {p} : wish'[q] = wish[q]
    BY <1>1, <1>2, FilterAssumption DEF GroupTypes
  <1>4. GroupTypes' BY <1>1, <1>2, <1>3 DEF GroupTypes
  <1>5. AloneInv' BY <1>1 DEF GroupsInv, AloneInv, Busy, AllIdle
  <1>6. ASSUME NEW q \in open'
        PROVE  /\ Busy(q)' /\ call'[q].alone => InCallRight(q)'
               /\ ~Busy(q)' /\ (q \in told' \/ mode' # "LRE") => IdleRight(q)'
    <2>1. q \in open /\ q \in Ports \ {p} BY <1>1, <1>2, <1>6 DEF GroupTypes
    <2>2. /\ Busy(q)' <=> Busy(q)
          /\ InCallRight(q) => InCallRight(q)'
          /\ IdleRight(q) => IdleRight(q)'
      BY <1>1, <1>3, <2>1, Untouched
    <2> QED BY <1>1, <2>1, <2>2 DEF GroupsInv, TablesRight
  <1>7. TablesRight' BY <1>6 DEF TablesRight
  <1> QED BY <1>4, <1>5, <1>7 DEF GroupsInv

LEMMA GroupsFeatures ==
  ASSUME GroupsInv, NEW m \in {"EMAC", "LRE"}, SetFeatures(m) PROVE GroupsInv'
  <1>1. UNCHANGED <<open, mc, call, wish, told>> /\ open = {} /\ mode' = m
    BY DEF SetFeatures, tables, stack
  <1>2. \A q \in Ports : ~Busy(q)' BY <1>1 DEF GroupsInv, AloneInv, Busy
  <1>3. GroupTypes' BY <1>1 DEF GroupsInv, GroupTypes
  <1>4. AloneInv' BY <1>2 DEF AloneInv, AllIdle
  <1> QED BY <1>1, <1>3, <1>4 DEF GroupsInv, TablesRight

\* The driver reopens the ports that are open.
LEMMA ReopenedMc ==
  ASSUME GroupTypes, NEW m \in {"EMAC", "SWITCH"}
  PROVE  LET r == Reopened(m)
         IN  /\ r.mc \in [Ports -> Table] /\ r.told \subseteq Ports
             /\ open # {} => r.told = {} /\ \A q \in Ports : r.mc[q] = NoMc
  <1> DEFINE off == [q \in DOMAIN vlan |->
                       [on |-> vlan[q].on /\ q \notin open, vids |-> vlan[q].vids]]
             closed == [mc |-> mc, promisc |-> promisc, vlan |-> off, kept |-> kept,
                        told |-> told]
             one == IF 1 \in open THEN Opened(closed, 1, m, {}) ELSE closed
             P == open \cap {1}
             r == IF 2 \in open THEN Opened(one, 2, m, P) ELSE one
  <1>1. r = Reopened(m) BY DEF Reopened
  <1>2. closed.mc = mc /\ closed.told = told OBVIOUS
  <1>3. mc \in [Ports -> Table] /\ told \subseteq Ports /\ open \subseteq Ports
    BY DEF GroupTypes
  <1>4. 1 \in Ports /\ 2 \in Ports BY DEF Ports
  <1>5. \A q \in open : q = 1 \/ q = 2 BY <1>3 DEF Ports
  <1>6. P = {} <=> 1 \notin open OBVIOUS
  <1> HIDE DEF closed, P
  <1>7. /\ one.mc \in [Ports -> Table] /\ one.told \subseteq Ports
        /\ 1 \in open => one.told = {} /\ \A q \in Ports : one.mc[q] = NoMc
    <2>1. CASE 1 \in open
      <3> DEFINE n == Opened(closed, 1, m, {})
      <3>1. closed.mc \in [Ports -> Table] BY <1>2, <1>3
      <3>2. n.mc \in [Ports -> Table] /\ n.told = {} /\ \A q \in Ports : n.mc[q] = NoMc
        BY <1>4, <3>1, OpenedMc
      <3> HIDE DEF n
      <3> QED BY <2>1, <3>2 DEF n
    <2>2. CASE 1 \notin open BY <1>2, <1>3, <2>2
    <2> QED BY <2>1, <2>2
  <1> HIDE DEF one
  <1>8. /\ r.mc \in [Ports -> Table] /\ r.told \subseteq Ports
        /\ open # {} => r.told = {} /\ \A q \in Ports : r.mc[q] = NoMc
    <2>1. CASE 2 \in open
      <3> DEFINE n == Opened(one, 2, m, P)
      <3>1. /\ n.mc \in [Ports -> Table]
            /\ \A q \in Ports : n.mc[q] = IF P = {} \/ (m = "EMAC" /\ q = 2) THEN NoMc
                                          ELSE one.mc[q]
            /\ P = {} => n.told = {}
            /\ P # {} => n.told \subseteq one.told
        BY <1>4, <1>7, OpenedMc
      <3>2. n.told = {} /\ \A q \in Ports : n.mc[q] = NoMc BY <1>6, <1>7, <3>1
      <3> HIDE DEF n
      <3> QED BY <2>1, <3>1, <3>2 DEF n
    <2>2. CASE 2 \notin open BY <1>5, <1>7, <2>2
    <2> QED BY <2>1, <2>2
  <1> HIDE DEF r
  <1> QED BY <1>1, <1>8

LEMMA GroupsBridge ==
  ASSUME GroupsInv, NEW ports, Bridge(ports) PROVE GroupsInv'
  <1>1. /\ mode # "LRE" /\ UNCHANGED <<open, call, wish>> /\ AllIdle
        /\ mode' \in {mode, "EMAC", "SWITCH"}
    BY DEF Bridge, stack
  <1>2. CASE mode' = mode
    <2>1. UNCHANGED <<mc, told>> BY <1>2 DEF Bridge, tables
    <2> QED BY <1>1, <1>2, <2>1, GroupsUnchanged
  <1>3. CASE mode' # mode
    <2> DEFINE m == mode'
               r == Reopened(m)
    <2>1. mc' = r.mc /\ told' = r.told BY <1>3 DEF Bridge
    <2>2. m \in {"EMAC", "SWITCH"} BY <1>1, <1>3
    <2>3. GroupTypes BY DEF GroupsInv
    <2> HIDE DEF m
    <2>4. /\ r.mc \in [Ports -> Table] /\ r.told \subseteq Ports
          /\ open # {} => r.told = {} /\ \A q \in Ports : r.mc[q] = NoMc
      BY <2>2, <2>3, ReopenedMc
    <2> HIDE DEF r
    <2>5. \A q \in Ports : ~Busy(q)' BY <1>1 DEF AllIdle, Busy
    <2>6. GroupTypes' BY <1>1, <2>1, <2>2, <2>3, <2>4 DEF GroupTypes, m
    <2>7. AloneInv' BY <2>5 DEF AloneInv, AllIdle
    <2>8. ASSUME NEW q \in open' PROVE ~Busy(q)' /\ IdleRight(q)'
      <3>1. q \in Ports /\ open # {} BY <1>1, <2>3, <2>8 DEF GroupTypes
      <3>2. McRam(q)' \in Ports BY <3>1 DEF McRam, Ports
      <3>3. mc'[McRam(q)'] = NoMc BY <2>1, <2>4, <3>1, <3>2
      <3>4. q \notin told' BY <2>1, <2>4, <3>1
      <3> QED BY <2>5, <3>1, <3>3, <3>4 DEF IdleRight, NoMc
    <2>9. TablesRight' BY <2>8 DEF TablesRight
    <2> QED BY <2>6, <2>7, <2>9 DEF GroupsInv
  <1> QED BY <1>2, <1>3

LEMMA GroupsInit == Init => GroupsInv
  <1> SUFFICES ASSUME Init PROVE GroupsInv
    OBVIOUS
  <1>1. open = {} /\ told = {} /\ mode = "EMAC" BY DEF Init
  <1>2. call \in [Ports -> Calls] /\ \A p \in Ports : ~Busy(p)
    BY DEF Init, Idle, Calls, Labels, Busy
  <1>3. wish \in [Ports -> Wish] BY FilterAssumption DEF Init
  <1>4. mc \in [Ports -> Table] BY DEF Init, NoMc, Table
  <1>5. GroupTypes BY <1>1, <1>2, <1>3, <1>4 DEF GroupTypes
  <1>6. AloneInv BY <1>1, <1>2 DEF AloneInv
  <1> QED BY <1>1, <1>5, <1>6 DEF GroupsInv, TablesRight

LEMMA GroupsNext == PromiscInv /\ GroupsInv /\ [Next]_vars => GroupsInv'
  <1> SUFFICES ASSUME PromiscInv, GroupsInv, [Next]_vars PROVE GroupsInv'
    OBVIOUS
  <1>1. ASSUME NEW p \in Ports, NEW w \in Wishes, emac_ndo_set_rx_mode(p, w)
        PROVE  GroupsInv'
    BY <1>1, GroupsBegin
  <1>2. ASSUME NEW p \in Ports, NEW w \in Wishes, WishDown(p, w) PROVE GroupsInv'
    BY <1>2, GroupsWishDown
  <1>3. ASSUME NEW p \in Ports,
               Disable(p) \/ Reset(p) \/ Promiscuous(p) \/ Enable(p) \/ Allow(p)
        PROVE  GroupsInv'
    BY <1>3, GroupsDisable, GroupsReset, GroupsPromiscuous, GroupsEnable, GroupsAllow
  <1>4. ASSUME NEW p \in Ports, DevOpen(p) PROVE GroupsInv'
    BY <1>4, GroupsOpen
  <1>5. ASSUME NEW p \in Ports, DevClose(p) PROVE GroupsInv'
    BY <1>5, GroupsClose
  <1>6. ASSUME NEW p \in Ports, Link(p) \/ Unlink(p) PROVE GroupsInv'
    BY <1>6, GroupsBridge DEF Link, Unlink
  <1>7. ASSUME NEW p \in Ports, NEW v \in Vids,
               emac_ndo_vlan_rx_add_vid(p, v) \/ emac_ndo_vlan_rx_kill_vid(p, v)
        PROVE  GroupsInv'
    BY <1>7, GroupsUnchanged DEF emac_ndo_vlan_rx_add_vid, emac_ndo_vlan_rx_kill_vid
  <1>8. ASSUME NEW m \in {"EMAC", "LRE"}, SetFeatures(m) PROVE GroupsInv'
    BY <1>8, GroupsFeatures
  <1>9. CASE UNCHANGED vars
    BY <1>9, GroupsUnchanged DEF vars, tables, stack
  <1> QED BY <1>1, <1>2, <1>3, <1>4, <1>5, <1>6, <1>7, <1>8, <1>9 DEF Next

LEMMA GroupsImplies == GroupsInv => GroupsAsAsked
  <1> SUFFICES ASSUME GroupsInv, NEW p \in open, NEW a \in Addrs, ~Busy(p),
                      p \in told \/ mode # "LRE"
               PROVE  /\ a \in wish[p].list \/ EverythingWanted(p) => Passes(p, a)
                      /\ p \in told /\ Passes(p, a) =>
                           \/ EverythingWanted(p) \/ p \in promisc \/ wish[p].promisc
                           \/ \E b \in Addrs : /\ Hash[b] = Hash[a]
                                               /\ b \in wish[p].list \cup BridgeAddrs
    BY DEF GroupsAsAsked
  <1> DEFINE t == mc[McRam(p)]
  <1>1. p \in Ports /\ IdleRight(p) BY DEF GroupsInv, GroupTypes, TablesRight
  <1>2. wish[p].list \cup BridgeAddrs \subseteq Addrs
    <2>1. wish[p] \in Wish BY <1>1 DEF GroupsInv, GroupTypes
    <2> QED BY <2>1, FilterAssumption DEF Wish
  <1>3. Passes(p, a) <=> \/ mode = "EMAC" /\ p \in promisc
                         \/ ~t.on
                         \/ Hash[a] \in t.bins
    BY DEF Passes
  <1>4. CASE ~t.on
    BY <1>1, <1>3, <1>4 DEF IdleRight
  <1>5. CASE t.on
    <2>1. /\ ~EverythingWanted(p) /\ WantedBins(p) \subseteq t.bins
          /\ p \in told => t.bins \subseteq AllowedBins(p)
      BY <1>1, <1>5 DEF IdleRight
    <2>2. a \in wish[p].list => Hash[a] \in t.bins BY <2>1 DEF WantedBins
    <2>3. ASSUME p \in told, Hash[a] \in t.bins
          PROVE  \E b \in Addrs : Hash[b] = Hash[a] /\ b \in wish[p].list \cup BridgeAddrs
      <3>1. Hash[a] \in AllowedBins(p) BY <2>1, <2>3
      <3>2. PICK b \in wish[p].list \cup BridgeAddrs : Hash[a] = Hash[b]
        BY <3>1 DEF AllowedBins
      <3> QED BY <1>2, <3>2
    <2> HIDE DEF t
    <2> QED BY <1>3, <1>5, <2>1, <2>2, <2>3
  <1> QED BY <1>4, <1>5

\* Whatever mode an open port has been in before, and whatever the other port
\* does to the table they may share, it hears the multicast addresses the
\* stack wants, and once it has been told so no others but those of the same
\* bin; for every hash, every list and every order of the two ports' calls.
THEOREM GroupsAlways == Spec => []GroupsAsAsked
  <1>1. Init => PromiscInv /\ GroupsInv BY PromiscInvInit, GroupsInit
  <1>2. PromiscInv /\ GroupsInv /\ [Next]_vars => (PromiscInv /\ GroupsInv)'
    BY PromiscInvNext, GroupsNext
  <1> QED BY <1>1, <1>2, GroupsImplies, PTL DEF Spec
=============================================================================

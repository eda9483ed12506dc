------------------------------ MODULE Gateway ------------------------------
(***************************************************************************)
(* Smart gateways: nodes that offer a way into the Internet announce it in *)
(* the netmask of an HNA (gateway.c).  The node chooses the nearest one    *)
(* for IPv4 and for IPv6 (gateway_default_handler.c), and leads its        *)
(* traffic to it through a tunnel that both may share                      *)
(* (linux/kernel_tunnel.c).  The kernel may refuse a tunnel, and tunnel    *)
(* interfaces go down and come up again.                                   *)
(***************************************************************************)
EXTENDS Integers, FiniteSets, FiniteSetsExt

CONSTANTS Gateways,        \* originators, numbers, in the order of their addresses
          GwConfigs,       \* of mode, "v4", "v6" or "niit" (IPv6 that carries IPv4 as well),
                           \* smart_gw_allow_nat, and the families the node has a gateway for
          GwCosts,         \* path costs, below GwBroken
          OtherNodes,      \* nodes with a tc_entry that are no gateways
          GwStableCount    \* GW_DEFAULT_STABLE_COUNT

VARIABLES gw_mode, smart_gw_allow_nat, has_gateway,     \* the configuration
          gateway_tree, gw_flags, cleanup_timer,        \* gateway entries
          path_cost,                                    \* of the gateways that have a tc_entry
          current_gw, gw_tunnel,                        \* of each family
          gw_def_finished, gw_def_timer, gw_def_nodecount, gw_def_stablecount,
          tunnel_tree, tunnel_usage,
          tunnel_up, tunnel_route,                      \* the kernel's
          gw_state                                      \* "run", "exit" or "crash"

gatewayVars == <<gw_mode, smart_gw_allow_nat, has_gateway, gateway_tree, gw_flags, cleanup_timer,
                 path_cost, current_gw, gw_tunnel, gw_def_finished, gw_def_timer, gw_def_nodecount,
                 gw_def_stablecount, tunnel_tree, tunnel_usage, tunnel_up, tunnel_route, gw_state>>

Families   == {"v4", "v6"}
GwNull     == 0
GwBroken   == 3                                         \* ROUTE_COST_BROKEN
NoTcEntry  == 4

(* The families that gateways are looked for.                              *)
GwFamilies == CASE gw_mode = "v4" -> {"v4"} [] gw_mode = "v6" -> {"v6"} [] gw_mode = "niit" -> Families
(* What a smart HNA may announce.                                          *)
GwFlagSets == SUBSET GwFamilies \cup IF "v4" \in GwFamilies THEN {{"v4", "nat"}} ELSE {}

(* What the handlers change, as one value.  The counters are not read      *)
(* until the next start of the timer, which sets them.                     *)
GwState == [entries |-> gateway_tree, flags |-> gw_flags, cleanup |-> cleanup_timer,
            cost |-> path_cost, current |-> current_gw, tunnel |-> gw_tunnel,
            finished |-> gw_def_finished, timer |-> gw_def_timer, nodes |-> gw_def_nodecount,
            stable |-> gw_def_stablecount, tree |-> tunnel_tree, usage |-> tunnel_usage,
            up |-> tunnel_up, route |-> tunnel_route, state |-> gw_state]

GwBecome(result) ==
  /\ \E W \in {result} :
       /\ gateway_tree' = W.entries /\ gw_flags' = W.flags /\ cleanup_timer' = W.cleanup
       /\ path_cost' = W.cost /\ current_gw' = W.current /\ gw_tunnel' = W.tunnel
       /\ gw_def_finished' = W.finished /\ gw_def_timer' = W.timer
       /\ gw_def_nodecount' = IF W.timer THEN W.nodes ELSE 0
       /\ gw_def_stablecount' = IF W.timer THEN W.stable ELSE 0
       /\ tunnel_tree' = W.tree /\ tunnel_usage' = W.usage
       /\ tunnel_up' = W.up /\ tunnel_route' = W.route /\ gw_state' = W.state
  /\ UNCHANGED <<gw_mode, smart_gw_allow_nat, has_gateway>>

TcCount(W) == OtherNodes + Cardinality({g \in Gateways : W.cost[g] # NoTcEntry})

------------------------------------------------------------------------------
(* Tunnels.  The kernel refuses new ones to the targets in refused; those  *)
(* it makes are up, and one that goes takes its routes with it.            *)

olsr_os_add_ipip_tunnel(W, t, refused) ==
  IF t \in W.tree THEN [W EXCEPT !.usage[t] = @ + 1]
  ELSE IF t \in refused THEN W
  ELSE [W EXCEPT !.tree = @ \cup {t}, !.usage[t] = 1, !.up = @ \cup {t}]

olsr_os_del_ipip_tunnel(W, t) ==
  IF W.usage[t] > 1 THEN [W EXCEPT !.usage[t] = @ - 1]
  ELSE [W EXCEPT !.usage[t] = 0, !.tree = @ \ {t}, !.up = @ \ {t},
                 !.route = [f \in Families |-> IF @[f] = t THEN GwNull ELSE @[f]]]

(* A route replaces the one to another tunnel; through an interface that   *)
(* is down there is none.                                                  *)
olsr_os_inetgw_tunnel_route(W, f, t) ==
  IF t \in W.up THEN [W EXCEPT !.route[f] = t] ELSE W
RemoveTunnelRoute(W, f, t) ==
  IF W.route[f] = t THEN [W EXCEPT !.route[f] = GwNull] ELSE W

------------------------------------------------------------------------------
(* The choice of a gateway.                                                *)

NatAllowed(W, g) == "nat" \notin W.flags[g] \/ smart_gw_allow_nat

(* One family of olsr_set_inet_gateway: a gateway that does not offer it   *)
(* leaves no target to make a tunnel to.                                   *)
SetFamily(W, g, f, refused) ==
  LET old   == W.current[f]
      valid == g \in W.entries /\ f \in W.flags[g] /\ (f = "v4" => NatAllowed(W, g))
      W1    == olsr_os_add_ipip_tunnel(W, g, refused)
      W2    == IF g \in W1.tree
               THEN olsr_os_inetgw_tunnel_route([W1 EXCEPT !.current[f] = g, !.tunnel[f] = g], f, g)
               ELSE [W1 EXCEPT !.current[f] = GwNull, !.tunnel[f] = GwNull]
  IN  IF ~valid THEN IF old = GwNull THEN W ELSE [W EXCEPT !.state = "crash"]
      ELSE IF old = g THEN W
      ELSE IF old # GwNull THEN olsr_os_del_ipip_tunnel(W2, W.tunnel[f]) ELSE W2

olsr_set_inet_gateway(W, g, fams, refused) ==
  LET W1 == IF "v4" \in fams \cap GwFamilies THEN SetFamily(W, g, "v4", refused) ELSE W
  IN  IF "v6" \in fams \cap GwFamilies THEN SetFamily(W1, g, "v6", refused) ELSE W1

(* Mutant: every gateway behind a NAT may be chosen.                       *)
CandidateAnyNat(W, f, g) == ~W.finished[f] /\ f \in W.flags[g] /\ W.cost[g] < GwBroken

Candidate(W, f, g) ==
  /\ ~W.finished[f] /\ f \in W.flags[g] /\ W.cost[g] < GwBroken
  /\ f = "v4" => (("nat" \in W.flags[g]) <=> smart_gw_allow_nat)

(* The nearest one, and of several the first in the tree.                  *)
Nearest(W, f) ==
  LET cands == {g \in W.entries : Candidate(W, f, g)}
      best  == {g \in cands : \A h \in cands : W.cost[g] <= W.cost[h]}
  IN  IF cands = {} THEN GwNull ELSE Min(best)

gw_default_choose_gateway(W, refused) ==
  LET v4   == Nearest(W, "v4")
      v6   == Nearest(W, "v6")
      dual == v4 = v6
      W1 == [W EXCEPT !.finished = [f \in Families |-> @[f] \/ (IF f = "v4" THEN v4 ELSE v6) # GwNull]]
      W2 == IF v4 = GwNull THEN W1
            ELSE olsr_set_inet_gateway(W1, v4, IF dual THEN Families ELSE {"v4"}, refused)
      W3 == IF v6 = GwNull \/ dual THEN W2 ELSE olsr_set_inet_gateway(W2, v6, {"v6"}, refused)
  IN  IF \A f \in Families : W3.finished[f] THEN [W3 EXCEPT !.timer = FALSE] ELSE W3

(* Mutant: the gateways of both families are looked up again.              *)
LookupBoth(W, fams, refused) ==
  gw_default_choose_gateway([W EXCEPT !.finished = [f \in Families |-> f \notin GwFamilies]], refused)

olsr_gw_default_lookup_gateway(W, fams, refused) ==
  LET W1 == [W EXCEPT !.finished = [f \in Families |-> IF f \in fams THEN f \notin GwFamilies ELSE @[f]]]
  IN  IF \E f \in Families : ~W1.finished[f] THEN gw_default_choose_gateway(W1, refused) ELSE W1

gw_default_startup_handler(W) ==
  [W EXCEPT !.nodes = TcCount(W), !.stable = 0, !.timer = TRUE,
            !.finished = [f \in Families |-> f \notin GwFamilies \/ f \in has_gateway]]

gw_default_choosegw_handler(W, fams, refused) ==
  LET W1 == olsr_gw_default_lookup_gateway(W, fams, refused)
  IN  IF \E f \in Families : ~W1.finished[f] THEN gw_default_startup_handler(W1) ELSE W1

gw_default_update_handler(W, g, refused) ==
  LET fams == {f \in Families : /\ W.current[f] = g
                                /\ f \notin W.flags[g] \/ (f = "v4" /\ ~NatAllowed(W, g))}
  IN  IF fams = {} THEN W ELSE olsr_gw_default_lookup_gateway(W, fams, refused)

gw_default_delete_handler(W, g, refused) ==
  LET fams == {f \in Families : W.current[f] = g}
  IN  IF fams = {} THEN W ELSE olsr_gw_default_lookup_gateway(W, fams, refused)

------------------------------------------------------------------------------
(* Gateway entries.  Without a lookup there is no tunnel to refuse.        *)

IsCurrent(g) == \E f \in Families : current_gw[f] = g

olsr_delete_gateway_entry(W, g, fams, force, refused) ==
  LET lost  == IF "v4" \in fams THEN fams \cup {"nat"} ELSE fams
      W1    == [W EXCEPT !.flags[g] = @ \ lost]
      W2    == gw_default_delete_handler([W EXCEPT !.flags[g] = {}], g, refused)
      close(V, f) == IF V.current[f] # g THEN V
                     ELSE olsr_os_del_ipip_tunnel(RemoveTunnelRoute(
                            [V EXCEPT !.current[f] = GwNull, !.tunnel[f] = GwNull], f, g), g)
      W3    == close(close(W2, "v4"), "v6")
  IN  IF g \notin W.entries \/ (g \in W.cleanup /\ W.flags[g] \cap Families = {}) THEN W
      ELSE IF force \/ W1.flags[g] \cap Families = {} THEN [W3 EXCEPT !.cleanup = @ \cup {g}]
      ELSE IF fams \cap W.flags[g] # {} THEN gw_default_update_handler(W1, g, refused)
      ELSE W1

olsr_delete_tc_entry(W, g, refused) ==
  [olsr_delete_gateway_entry(W, g, {}, TRUE, refused) EXCEPT !.cost[g] = NoTcEntry]

(* A smart HNA that is newer than the last one; an older one is ignored.   *)
(* The route of the HNA creates a tc_entry.                                *)
olsr_update_gateway_entry(g, flags, refused) ==
  LET W  == [GwState EXCEPT !.entries = @ \cup {g}, !.flags[g] = flags, !.cleanup = @ \ {g}]
      W1 == gw_default_update_handler(W, g, refused)
  IN  /\ gw_state = "run" /\ (IsCurrent(g) \/ refused = {})
      /\ GwBecome([W1 EXCEPT !.cost[g] = IF @ = NoTcEntry THEN GwBroken ELSE @])

(* The network of the HNA times out.                                       *)
olsr_delete_hna_net_entry(g, f, refused) ==
  /\ gw_state = "run" /\ f \in GwFamilies /\ (IsCurrent(g) \/ refused = {})
  /\ GwBecome(olsr_delete_gateway_entry(GwState, g, {f}, FALSE, refused))

TcEntryGone(g, refused) ==
  /\ gw_state = "run" /\ path_cost[g] # NoTcEntry /\ (IsCurrent(g) \/ refused = {})
  /\ GwBecome(olsr_delete_tc_entry(GwState, g, refused))

cleanup_gateway_handler(g) ==
  /\ gw_state = "run" /\ g \in cleanup_timer
  /\ GwBecome(IF gw_flags[g] \cap Families # {} THEN [GwState EXCEPT !.cleanup = @ \ {g}]
              ELSE [GwState EXCEPT !.entries = @ \ {g}, !.cleanup = @ \ {g}, !.flags[g] = {}])

(* New path costs, and the look at the current gateways that follows.      *)
olsr_trigger_gatewayloss_check(cost, refused) ==
  LET W    == [GwState EXCEPT !.cost = cost]
      lost == {f \in Families : W.current[f] # GwNull /\ cost[W.current[f]] >= GwBroken}
  IN  /\ gw_state = "run" /\ (lost # {} \/ refused = {})
      /\ \A g \in Gateways : cost[g] = NoTcEntry <=> path_cost[g] = NoTcEntry
      /\ GwBecome(IF lost = {} THEN W ELSE gw_default_choosegw_handler(W, lost, refused))

(* An increase of the nodes by a tenth does not count.                     *)
gw_default_timer(refused) ==
  LET n  == TcCount(GwState)
      W1 == IF n * 10 <= gw_def_nodecount * 11 THEN [GwState EXCEPT !.nodes = n] ELSE GwState
      W2 == IF n <= W1.nodes THEN [W1 EXCEPT !.stable = Min({@ + 1, GwStableCount})]
            ELSE [W1 EXCEPT !.nodes = n, !.stable = 0]
  IN  /\ gw_state = "run" /\ gw_def_timer /\ (W2.stable >= GwStableCount \/ refused = {})
      /\ GwBecome(IF W2.stable >= GwStableCount THEN gw_default_choose_gateway(W2, refused) ELSE W2)

------------------------------------------------------------------------------
(* The kernel's interfaces, and what the node does when one is up again.   *)

TunnelDown(t) ==
  /\ gw_state = "run" /\ t \in tunnel_up
  /\ GwBecome([GwState EXCEPT !.up = @ \ {t},
                 !.route = [f \in Families |-> IF @[f] = t THEN GwNull ELSE @[f]]])

smartgw_tunnel_monitor(t) ==
  LET W0          == [GwState EXCEPT !.up = @ \cup {t}]
      again(W, f) == IF W.current[f] # GwNull /\ W.tunnel[f] = t
                     THEN olsr_os_inetgw_tunnel_route(W, f, t) ELSE W
  IN  /\ gw_state = "run" /\ t \in tunnel_tree \ tunnel_up
      /\ GwBecome(again(again(W0, "v4"), "v6"))

(* At the end all entries are deleted, and then what tunnels are left.     *)
olsr_cleanup_gateways(W) ==
  LET close(V, f) == IF V.current[f] # GwNull THEN olsr_os_del_ipip_tunnel(V, V.tunnel[f]) ELSE V
      last(t, V)  == olsr_os_del_ipip_tunnel([V EXCEPT !.usage[t] = 1], t)
      W1 == close(close(W, "v4"), "v6")
  IN  FoldSet(last, W1, W1.tree)

olsr_shutdown(refused) ==
  LET gone(g, W) == IF W.cost[g] = NoTcEntry THEN W ELSE olsr_delete_tc_entry(W, g, refused)
  IN  /\ gw_state = "run"
      /\ GwBecome([olsr_cleanup_gateways(FoldSet(gone, GwState, Gateways)) EXCEPT !.state = "exit"])

------------------------------------------------------------------------------
(* olsr_init_gateways, and the start of the first lookup from main().      *)
GatewayInit ==
  /\ \E c \in GwConfigs : gw_mode = c[1] /\ smart_gw_allow_nat = c[2] /\ has_gateway = c[3]
  /\ gateway_tree = {} /\ gw_flags = [g \in Gateways |-> {}] /\ cleanup_timer = {}
  /\ path_cost = [g \in Gateways |-> NoTcEntry]
  /\ current_gw = [f \in Families |-> GwNull] /\ gw_tunnel = [f \in Families |-> GwNull]
  /\ gw_def_finished = [f \in Families |-> f \notin GwFamilies \/ f \in has_gateway]
  /\ gw_def_timer = TRUE /\ gw_def_nodecount = OtherNodes /\ gw_def_stablecount = 0
  /\ tunnel_tree = {} /\ tunnel_usage = [g \in Gateways |-> 0]
  /\ tunnel_up = {} /\ tunnel_route = [f \in Families |-> GwNull]
  /\ gw_state = "run"

(* The kernel refuses all new tunnels of a handler, or none.               *)
GatewayNext ==
  \/ \E refused \in {{}, gateway_tree} :
       \/ \E g \in Gateways, flags \in GwFlagSets : olsr_update_gateway_entry(g, flags, refused)
       \/ \E g \in Gateways, f \in Families : olsr_delete_hna_net_entry(g, f, refused)
       \/ \E g \in Gateways : TcEntryGone(g, refused)
       \/ \E cost \in [Gateways -> GwCosts \cup {GwBroken, NoTcEntry}] : olsr_trigger_gatewayloss_check(cost, refused)
       \/ gw_default_timer(refused)
       \/ olsr_shutdown(refused)
  \/ \E g \in Gateways : cleanup_gateway_handler(g) \/ TunnelDown(g) \/ smartgw_tunnel_monitor(g)

GatewaySpec == GatewayInit /\ [][GatewayNext]_gatewayVars

------------------------------------------------------------------------------
(* A current gateway has an entry that is not freed and a tunnel, which    *)
(* counts exactly the families that use it; the route of the family leads  *)
(* there unless the interface is down.  Tunnels that nobody uses are gone, *)
(* as all are at the end, and the choice never hands a gateway that does   *)
(* not offer the family to olsr_set_inet_gateway, which would then have no *)
(* target for the tunnel (gateway.c:271).                                  *)
GatewaySound ==
  /\ gw_state # "crash"
  /\ gw_state = "exit" => tunnel_tree = {}
  /\ gw_state = "run" =>
       /\ \A f \in Families : current_gw[f] # GwNull =>
            /\ current_gw[f] \in gateway_tree /\ gw_tunnel[f] = current_gw[f]
            /\ current_gw[f] \in tunnel_up => tunnel_route[f] = current_gw[f]
       /\ \A g \in Gateways :
            /\ tunnel_usage[g] = Cardinality({f \in Families : current_gw[f] = g})
            /\ g \in tunnel_tree <=> tunnel_usage[g] > 0

(* A gateway that is in use, reachable, and still offers the family is not *)
(* given up, unless the lookup of one for the family is under way.         *)
GatewayStays ==
  \A f \in Families :
    LET g == current_gw[f]
    IN  g # GwNull /\ current_gw'[f] # g /\ gw_def_finished[f] /\ gw_state' = "run"
          => f \notin gw_flags'[g] \/ (f = "v4" /\ "nat" \in gw_flags'[g] /\ ~smart_gw_allow_nat)
             \/ path_cost'[g] >= GwBroken

(* Every step leaves the choice of gateways consistent with tunnels and    *)
(* routes, and none gives up a gateway that serves.                        *)
GatewayChosen == [][GatewaySound' /\ GatewayStays]_gatewayVars
==============================================================================

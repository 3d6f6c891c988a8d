------------------------- MODULE MCInterfaceConfig -------------------------
(* Constants for model checking InterfaceConfig. *)
EXTENDS InterfaceConfig

CONSTANTS a1, a2, d1, d2

AddressJob == [fn: {"assignAddress"}, mtu: {TRUE}, mac: {"none", "good"}, mask: {FALSE},
               addr: {NoAddr, a1}, remove_addr: {<<>>, <<a1>>, <<a2, a1>>},
               add_addr: {<<>>, <<a1, a2>>}, unread: {FALSE}]
              \cup [fn: {"assignAddress"}, mtu: {FALSE}, mac: {"none", "bad", "good"}, mask: BOOLEAN,
                    addr: {a1}, remove_addr: {<<a1>>}, add_addr: {<<>>}, unread: {FALSE}]

\* Requests of which a part is passed over.
PartJob == [fn: {"assignAddress"}, mtu: {FALSE}, mac: {"none"}, mask: {FALSE}, addr: {a2, NoAddr},
            remove_addr: {<<NoAddr, a1>>, <<>>}, add_addr: {<<a1, NoAddr>>, <<>>}, unread: BOOLEAN]

Entry(d, v, m, f) == [dest |-> d, via |-> v, metric |-> m, flags |-> f]
RouteJob == [fn: {"assignRoute"}, delIsArray: BOOLEAN,
             add_route6: {<<>>, <<Entry(d1, "if", TRUE, TRUE), Entry(d2, "gw", TRUE, TRUE)>>,
                          <<Entry(d1, "if", FALSE, TRUE)>>, <<Entry(d1, "if", TRUE, FALSE)>>,
                          <<Entry(d1, "maskedgw", TRUE, TRUE)>>},
             del_route6: {<<>>, <<Entry(d2, "if", TRUE, FALSE)>>,
                          <<Entry(d2, "if", TRUE, TRUE), Entry("none", "if", TRUE, TRUE)>>},
             msg_route6: {<<>>, <<Entry(d1, "if", TRUE, TRUE)>>}]
FlagJob == [fn: {"initIfFlags", "setIfFlags", "unsetIfFlags"}, flags: SUBSET Flags \ {{}}]

AllJobs == AddressJob \cup PartJob \cup RouteJob \cup FlagJob
=============================================================================

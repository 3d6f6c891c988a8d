---------------------------- MODULE MCIpCommands ----------------------------
(* Constants for model checking IpCommands. *)
EXTENDS IpCommands

\* The orderly functions with arguments the kernel may accept and arguments the
\* code rejects, and one call of each other kind.
SomeCalls ==
    [fn: {"getLinks", "list", "listRoutes", "flush"}, arg: {"good"}]
       \cup [fn: {"route", "neighbor", "link", "address"}, arg: {"good", "badaddr"}]
       \cup [fn: {"route"}, arg: {"bad", "unsupported", "noaddr"}]
       \cup [fn: {"neighbor"}, arg: {"notstring", "noaddr"}]
       \cup [fn: {"address"}, arg: {"unsupported", "late", "notstring"}]
       \cup [fn: {"addIPv6Neighbor"}, arg: {"good", "badaddr"}]
       \cup [fn: {"show", "addrlabel"}, arg: {"good"}]
=============================================================================

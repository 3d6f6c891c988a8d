----------------------------- MODULE NfCommand ------------------------------
(***************************************************************************)
(* The netfilter commands of node-netkit: nf/nfcommand.js, nf/             *)
(* nlnetfilter.js and the sending half of nl/nfnetlink.js.                 *)
(*                                                                         *)
(* A command is an operation on a table, chain or rule of a family.  It    *)
(* becomes one message, wrapped in a batch unless it asks for a dump, on a *)
(* socket of its own.  The text and the attributes of a command are the    *)
(* subject of NfRule.  The kernel (external) holds tables, chains and      *)
(* rules, each family its own, and applies a batch as a whole or not at    *)
(* all.                                                                    *)
(***************************************************************************)
EXTENDS Naturals, Sequences, FiniteSets

CONSTANTS
    Calls,     \* commands that may be under way together
    Tables,    \* table names; a table has one chain and one rule
    Families,  \* families the caller uses
    Commands,  \* <<operation, type>> pairs the caller uses
    SendFails, \* the socket may not be created or written to
    NoReply    \* no answer yet

\* What the grammar accepts.
Operations == {"add", "del", "list", "get", "flush"}
Types == {"table", "chain", "rule"}

\* The family of a command without one is "ip".
KnownFamilies == {"ip", "ip6"}

ASSUME FamiliesOK == Families \subseteq KnownFamilies
ASSUME CommandsOK == Commands \subseteq Operations \X Types
ASSUME SwitchOK == SendFails \in BOOLEAN

VARIABLES
    kern,   \* objects that exist: <<type, family, table>>, the family by number
    op,     \* operation of a call
    ty,     \* its type
    fam,    \* its family
    tab,    \* its table
    phase,  \* "idle", "sent", "answered", "done" or "thrown"
    msgs,   \* messages of its request
    reply,  \* what the kernel answered: [err, objs]
    sock,   \* "none", "open" or "closed"
    cbs     \* callbacks: a sequence of "err" and "ok"

vars == <<kern, op, ty, fam, tab, phase, msgs, reply, sock, cbs>>
call == <<op, ty, fam, tab>>

\* The numbers of the families in linux/netfilter.h.
NfProto == [ip |-> 2, ip6 |-> 10]

\* Objects that must exist for an object to exist, and the objects that need it.
Parents(t) == CASE t = "table" -> {} [] t = "chain" -> {"table"} [] t = "rule" -> {"table", "chain"}
Children(t) == {u \in Types : t \in Parents(u)}

Objects == Types \X {NfProto[f] : f \in Families} \X Tables

Init ==
    /\ kern \in {k \in SUBSET Objects :
                  \A x \in k : \A p \in Parents(x[1]) : <<p, x[2], x[3]>> \in k}
    /\ op = [c \in Calls |-> "get"] /\ ty = [c \in Calls |-> "rule"]
    /\ fam = [c \in Calls |-> CHOOSE f \in Families : TRUE]
    /\ tab = [c \in Calls |-> CHOOSE t \in Tables : TRUE]
    /\ phase = [c \in Calls |-> "idle"]
    /\ msgs = [c \in Calls |-> <<>>]
    /\ reply = [c \in Calls |-> NoReply]
    /\ sock = [c \in Calls |-> "none"]
    /\ cbs = [c \in Calls |-> <<>>]

\* "flush" of a table deletes the table.
SetCmdFlushes(o, t) ==
    CASE o = "add" -> <<"NEW", t>>
      [] o \in {"get", "list"} -> <<"GET", t>>
      [] o \in {"del", "flush"} -> <<"DEL", t>>

\* set_cmd.  "del" runs on into "flush", where a table stands for its rules.
SetCmd(o, t) ==
    CASE o = "add" -> <<"NEW", t>>
      [] o \in {"get", "list"} -> <<"GET", t>>
      [] o \in {"del", "flush"} -> <<"DEL", IF t = "table" THEN "rule" ELSE t>>

\* set_type: "match" asks for a dump; a list of chains gets no flags at all.
SetType(o, t) ==
    CASE o \in {"get", "list"} /\ t \in {"table", "rule"} -> {"match"}
      [] o = "list" /\ t = "chain" -> {"undefined"}
      [] OTHER -> {"ack"}

\* set_family.
SetFamily(f) == CASE f = "ip" -> 2 [] f = "ip6" -> 10

\* sendNetfilterCommand: batch begin, command, batch end.  addCommandMessage puts
\* the family into the header of the command.
Request(o, t, f) ==
    LET cmd == <<SetCmd(o, t) \o <<SetFamily(f)>>>>
    IN  IF "match" \in SetType(o, t) THEN cmd ELSE <<<<"BEGIN">>>> \o cmd \o <<<<"END">>>>

\* addCommandMessage refuses to send without flags: the socket is closed and
\* the caller told.
Command(c, o, t, f, n) ==
    /\ phase[c] = "idle"
    /\ op' = [op EXCEPT ![c] = o] /\ ty' = [ty EXCEPT ![c] = t] 
    /\ fam' = [fam EXCEPT ![c] = f] /\ tab' = [tab EXCEPT ![c] = n]
    /\ \/ /\ SetType(o, t) # {"undefined"}
          /\ msgs' = [msgs EXCEPT ![c] = Request(o, t, f)]
          /\ sock' = [sock EXCEPT ![c] = "open"]
          /\ phase' = [phase EXCEPT ![c] = "sent"]
          /\ UNCHANGED cbs
       \/ /\ SetType(o, t) = {"undefined"}
          /\ sock' = [sock EXCEPT ![c] = "closed"]
          /\ phase' = [phase EXCEPT ![c] = "done"]
          /\ cbs' = [cbs EXCEPT ![c] = Append(@, "err")]
          /\ UNCHANGED msgs
    /\ UNCHANGED <<kern, reply>>

-----------------------------------------------------------------------------
(* The kernel. *)

IsBatch(m) == Len(m) = 3 /\ m[1] = <<"BEGIN">> /\ m[3] = <<"END">>

\* The verdict on a command <<verb, type, family>> for table n, and what is left.
Accepts(cmd, n) ==
    LET Has(t) == <<t, cmd[3], n>> \in kern
    IN  CASE cmd[1] = "NEW" -> \A p \in Parents(cmd[2]) : Has(p)
          [] cmd[1] = "DEL" -> /\ \A p \in Parents(cmd[2]) \cup ({cmd[2]} \ {"rule"}) : Has(p)
                               /\ \A u \in Children(cmd[2]) : ~Has(u)
          [] OTHER -> FALSE

\* A DELRULE that names only a table needs no chain.
AcceptsFor(cmd, t, n) ==
    IF cmd[1] = "DEL" /\ cmd[2] = "rule" /\ t = "table" THEN <<"table", cmd[3], n>> \in kern
    ELSE Accepts(cmd, n)

Applied(cmd, n) ==
    LET obj == <<cmd[2], cmd[3], n>> IN IF cmd[1] = "NEW" THEN kern \cup {obj} ELSE kern \ {obj}

Answer(c, e, objs) ==
    /\ reply' = [reply EXCEPT ![c] = [err |-> e, objs |-> objs]]
    /\ phase' = [phase EXCEPT ![c] = "answered"]
    /\ UNCHANGED <<call, msgs, sock, cbs>>

ServeBatch(c) ==
    /\ phase[c] = "sent" /\ IsBatch(msgs[c])
    /\ LET cmd == msgs[c][2]
       IN  \/ /\ AcceptsFor(cmd, ty[c], tab[c])
              /\ kern' = Applied(cmd, tab[c])
              /\ Answer(c, FALSE, {})
           \/ /\ ~AcceptsFor(cmd, ty[c], tab[c])
              /\ UNCHANGED kern
              /\ Answer(c, TRUE, {})

ServeDump(c) ==
    /\ phase[c] = "sent" /\ Len(msgs[c]) = 1
    /\ UNCHANGED kern
    /\ Answer(c, FALSE, {x \in kern : x[1] = msgs[c][1][2] /\ x[2] = msgs[c][1][3]})

SendError(c) ==
    /\ phase[c] = "sent" /\ SendFails
    /\ UNCHANGED kern
    /\ Answer(c, TRUE, {})

-----------------------------------------------------------------------------
\* parseNfattributes gives parseAttrs the attribute names of rules only: any
\* other message with attributes is a TypeError.
ResponseThrows(r) == \E x \in r.objs : x[1] # "rule"

\* The callback of the request leaves the socket open when it failed.
RepliedLeaking(c) ==
    /\ phase[c] = "answered"
    /\ sock' = [sock EXCEPT ![c] = IF reply[c].err THEN @ ELSE "closed"]
    /\ phase' = [phase EXCEPT ![c] = IF ~reply[c].err /\ ResponseThrows(reply[c]) THEN "thrown" ELSE "done"]
    /\ cbs' = [cbs EXCEPT ![c] =
                 IF reply[c].err THEN Append(@, "err")
                 ELSE IF ResponseThrows(reply[c]) THEN @ ELSE Append(@, "ok")]
    /\ UNCHANGED <<kern, call, msgs, reply>>

\* The callback of the request only acts on success.
RepliedOnSuccess(c) ==
    /\ phase[c] = "answered" /\ ~reply[c].err
    /\ sock' = [sock EXCEPT ![c] = "closed"]
    /\ phase' = [phase EXCEPT ![c] = "done"]
    /\ cbs' = [cbs EXCEPT ![c] = Append(@, "ok")]
    /\ UNCHANGED <<kern, call, msgs, reply>>

\* The callback of the request: the socket is closed, then the caller is told
\* of the error or given the parsed response.
Replied(c) ==
    /\ phase[c] = "answered"
    /\ sock' = [sock EXCEPT ![c] = "closed"]
    /\ phase' = [phase EXCEPT ![c] = IF ~reply[c].err /\ ResponseThrows(reply[c]) THEN "thrown" ELSE "done"]
    /\ cbs' = [cbs EXCEPT ![c] =
                 IF reply[c].err THEN Append(@, "err")
                 ELSE IF ResponseThrows(reply[c]) THEN @ ELSE Append(@, "ok")]
    /\ UNCHANGED <<kern, call, msgs, reply>>

Progress(c) == ServeBatch(c) \/ ServeDump(c) \/ SendError(c) \/ Replied(c)

Next ==
    \E c \in Calls :
      \/ \E p \in Commands, f \in Families, n \in Tables : Command(c, p[1], p[2], f, n)
      \/ Progress(c)

\* Requests complete and the event loop runs their callbacks.
Spec == Init /\ [][Next]_vars /\ \A c \in Calls : WF_vars(Progress(c))

-----------------------------------------------------------------------------
ListsTables(c) == op[c] \in {"get", "list"} /\ ty[c] = "table"

\* A command that is over has closed its socket and called back exactly once,
\* and with success only if the kernel accepted it; only a list of tables can end
\* in an exception (netfilterSend, generateNetfilterResponse).
OverIsClean ==
    \A c \in Calls :
      phase[c] \in {"done", "thrown"} =>
        /\ sock[c] = "closed"
        /\ phase[c] = "done" => Len(cbs[c]) = 1
        /\ phase[c] = "thrown" => ListsTables(c)
        /\ cbs[c] = <<"ok">> => ~reply[c].err

\* The object of this type that a call names.
Named(c, t) == <<t, NfProto[fam[c]], tab[c]>>

\* What the kernel should hold after a command: an "add" leaves the named object
\* there, a "del" takes it away, a "flush" takes the rules away and leaves the chain
\* and the table, and a "get" or "list" changes nothing.
Meant(c) ==
    CASE op[c] = "add" -> kern \cup {Named(c, ty[c])}
      [] op[c] = "del" -> kern \ {Named(c, ty[c])}
      [] op[c] = "flush" -> kern \ {Named(c, "rule")}
      [] OTHER -> kern

\* The two commands that do something else.  "del table" runs on into "flush" and
\* deletes the rules of the table; "flush chain" is sent as NFT_MSG_DELCHAIN and
\* deletes the chain (set_cmd).
Misnamed(c) == <<op[c], ty[c]>> \in {<<"del", "table">>, <<"flush", "chain">>}

\* A command that the kernel accepts, other than "del table" and "flush chain",
\* changes the kernel's tables, chains and rules exactly as its name says, however
\* it is sent (a batch or a dump) and whatever commands run with it; those two
\* touch nothing outside the named table of the named family (set_cmd, set_family,
\* sendNetfilterCommand).
EffectAsNamed ==
    [][\A c \in Calls :
         phase[c] = "sent" /\ phase'[c] = "answered" /\ ~reply'[c].err =>
           /\ ~Misnamed(c) => kern' = Meant(c)
           /\ Misnamed(c) => \A x \in Objects : x # Named(c, x[1]) => (x \in kern <=> x \in kern')]_vars

\* Every command calls back, but for a list of tables that throws (command,
\* netfilterSend).
NfAnswered == \A c \in Calls : phase[c] # "idle" ~> (cbs[c] # <<>> \/ phase[c] = "thrown")
=============================================================================

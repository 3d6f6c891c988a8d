-------------------------- MODULE NfCommandProofs ---------------------------
(***************************************************************************)
(* Proofs about NfCommand, for any number of commands under way, any       *)
(* tables and families, and any pairs of operation and type.               *)
(***************************************************************************)
EXTENDS NfCommand, SequenceTheorems, TLAPS

\* The types the proofs need.  The arguments of a call mean nothing before it.
NfTypes ==
    /\ DOMAIN op = Calls /\ DOMAIN ty = Calls /\ DOMAIN fam = Calls /\ DOMAIN tab = Calls
    /\ phase \in [Calls -> {"idle", "sent", "answered", "done", "thrown"}]
    /\ DOMAIN msgs = Calls /\ DOMAIN reply = Calls
    /\ DOMAIN sock = Calls /\ DOMAIN cbs = Calls
    /\ \A c \in Calls : phase[c] # "idle" =>
         op[c] \in Operations /\ ty[c] \in Types /\ fam[c] \in Families

\* What is under way is the request of the command that was given, and only the
\* dump of tables holds what generateNetfilterResponse cannot read.
Sent(c) ==
    /\ phase[c] \in {"idle", "sent", "answered"} => cbs[c] = <<>>
    /\ phase[c] = "sent" => msgs[c] = Request(op[c], ty[c], fam[c])
    /\ phase[c] = "answered" =>
         /\ reply[c].err \in BOOLEAN
         /\ ~reply[c].err /\ ResponseThrows(reply[c]) => ListsTables(c)

\* One call's part of OverIsClean.
OverClean(c) ==
    phase[c] \in {"done", "thrown"} =>
        /\ sock[c] = "closed"
        /\ phase[c] = "done" => Len(cbs[c]) = 1
        /\ phase[c] = "thrown" => ListsTables(c)
        /\ cbs[c] = <<"ok">> => ~reply[c].err

IInv == NfTypes /\ \A c \in Calls : Sent(c) /\ OverClean(c)

-----------------------------------------------------------------------------
(* The shape of a request *)

\* Short sequences put together, as sendNetfilterCommand does with its messages.
LEMMA PairAndOne ==
    ASSUME NEW a, NEW b, NEW c PROVE <<a, b>> \o <<c>> = <<a, b, c>>
<1> DEFINE S == {a, b, c}
<1>1. <<a, b>> \in Seq(S) /\ <<c>> \in Seq(S) /\ <<a, b, c>> \in Seq(S)
  OBVIOUS
<1>2. Len(<<a, b>>) = 2 /\ Len(<<c>>) = 1 /\ Len(<<a, b, c>>) = 3
  OBVIOUS
<1>3. /\ <<a, b>> \o <<c>> \in Seq(S) /\ Len(<<a, b>> \o <<c>>) = 3
      /\ \A i \in 1..3 : (<<a, b>> \o <<c>>)[i] = IF i <= 2 THEN <<a, b>>[i] ELSE <<c>>[i - 2]
  <2> HIDE DEF S
  <2> QED BY <1>1, <1>2, ConcatProperties
<1>4. \A i \in 1..3 : (<<a, b>> \o <<c>>)[i] = <<a, b, c>>[i]
  BY <1>3
<1> HIDE DEF S
<1> QED BY <1>1, <1>2, <1>3, <1>4, SeqEqual

\* Two one-element sequences in a row.
LEMMA OneAndOne ==
    ASSUME NEW a, NEW b PROVE <<a>> \o <<b>> = <<a, b>>
<1> DEFINE S == {a, b}
<1>1. <<a>> \in Seq(S) /\ <<b>> \in Seq(S) /\ <<a, b>> \in Seq(S)
  OBVIOUS
<1>2. Len(<<a>>) = 1 /\ Len(<<b>>) = 1 /\ Len(<<a, b>>) = 2
  OBVIOUS
<1>3. /\ <<a>> \o <<b>> \in Seq(S) /\ Len(<<a>> \o <<b>>) = 2
      /\ \A i \in 1..2 : (<<a>> \o <<b>>)[i] = IF i <= 1 THEN <<a>>[i] ELSE <<b>>[i - 1]
  <2> HIDE DEF S
  <2> QED BY <1>1, <1>2, ConcatProperties
<1>4. \A i \in 1..2 : (<<a>> \o <<b>>)[i] = <<a, b>>[i]
  BY <1>3
<1> HIDE DEF S
<1> QED BY <1>1, <1>2, <1>3, <1>4, SeqEqual

\* The verb and the object a command has in a message.
Verb(o) == IF o = "add" THEN "NEW" ELSE IF o \in {"get", "list"} THEN "GET" ELSE "DEL"
Target(o, t) == IF o \in {"del", "flush"} /\ t = "table" THEN "rule" ELSE t

\* A request is one message that asks for a dump, or a batch of three around the
\* message; it names the family of the command (sendNetfilterCommand, set_cmd,
\* set_type, set_family).
LEMMA RequestForm ==
    ASSUME NEW o \in Operations, NEW t \in Types, NEW f \in KnownFamilies
    PROVE  LET cmd == <<Verb(o), Target(o, t), NfProto[f]>>
               dumps == o \in {"get", "list"} /\ t \in {"table", "rule"}
           IN  Request(o, t, f) = IF dumps THEN <<cmd>> ELSE << <<"BEGIN">>, cmd, <<"END">> >>
<1> DEFINE cmd == <<Verb(o), Target(o, t), NfProto[f]>>
           dumps == o \in {"get", "list"} /\ t \in {"table", "rule"}
<1>1. SetCmd(o, t) = <<Verb(o), Target(o, t)>>
  BY DEF SetCmd, Operations, Types, Verb, Target
<1>2. SetFamily(f) = NfProto[f]
  BY DEF SetFamily, NfProto, KnownFamilies
<1>3. SetCmd(o, t) \o <<SetFamily(f)>> = cmd
  BY <1>1, <1>2, PairAndOne
<1>4. "match" \in SetType(o, t) <=> dumps
  BY DEF SetType, Operations, Types
<1>5. <<<<"BEGIN">>>> \o <<cmd>> \o <<<<"END">>>> = << <<"BEGIN">>, cmd, <<"END">> >>
  <2> HIDE DEF cmd
  <2>1. <<<<"BEGIN">>>> \o <<cmd>> = << <<"BEGIN">>, cmd >>
    BY OneAndOne
  <2> QED
    BY <2>1, PairAndOne
<1> HIDE DEF cmd, dumps
<1>6. Request(o, t, f) = IF dumps THEN <<cmd>> ELSE << <<"BEGIN">>, cmd, <<"END">> >>
  BY <1>3, <1>4, <1>5 DEF Request
<1> QED
  BY <1>6 DEF cmd, dumps

-----------------------------------------------------------------------------
(* The invariant *)

\* It holds before the first call.
LEMMA InitIInv ==
    ASSUME Init PROVE IInv
<1>1. \A c \in Calls : phase[c] = "idle" /\ cbs[c] = <<>>
  BY DEF Init
<1>2. NfTypes
  BY <1>1 DEF Init, NfTypes
<1> QED
  BY <1>1, <1>2 DEF IInv, Sent, OverClean

\* A step of one command leaves the others alone.
Untouched(d) ==
    /\ op'[d] = op[d] /\ ty'[d] = ty[d] /\ fam'[d] = fam[d] /\ tab'[d] = tab[d]
    /\ phase'[d] = phase[d] /\ msgs'[d] = msgs[d] /\ reply'[d] = reply[d]
    /\ sock'[d] = sock[d] /\ cbs'[d] = cbs[d]

\* A step of another command keeps what is said of d.
LEMMA OthersKeep ==
    ASSUME IInv, NEW d \in Calls, Untouched(d)
    PROVE  Sent(d)' /\ OverClean(d)'
<1>1. ListsTables(d)' <=> ListsTables(d)
  BY DEF ListsTables, Untouched
<1>2. ResponseThrows(reply[d])' <=> ResponseThrows(reply[d])
  BY DEF ResponseThrows, Untouched
<1>3. Request(op[d], ty[d], fam[d])' = Request(op[d], ty[d], fam[d])
  BY DEF Untouched, Request, SetCmd, SetType, SetFamily
<1> QED
  BY <1>1, <1>2, <1>3 DEF IInv, Sent, OverClean, Untouched

\* A command is given: netfilterSend, up to the request or the refusal to send.
LEMMA CommandStep ==
    ASSUME IInv, NEW c \in Calls, NEW p \in Commands, NEW f \in Families, NEW n \in Tables,
           Command(c, p[1], p[2], f, n)
    PROVE  IInv'
<1>1. p[1] \in Operations /\ p[2] \in Types
  BY CommandsOK
<1>2. /\ op'[c] = p[1] /\ ty'[c] = p[2] /\ fam'[c] = f /\ reply' = reply
      /\ \/ phase'[c] = "sent" /\ msgs'[c] = Request(p[1], p[2], f) /\ cbs'[c] = cbs[c]
         \/ phase'[c] = "done" /\ sock'[c] = "closed" /\ cbs'[c] = Append(cbs[c], "err")
      /\ cbs[c] = <<>>
  BY DEF Command, IInv, NfTypes, Sent
<1>3. NfTypes'
  BY <1>1 DEF Command, IInv, NfTypes
<1>4. ASSUME NEW d \in Calls, d # c PROVE Untouched(d)
  BY <1>4 DEF Command, IInv, NfTypes, Untouched
<1>5. Sent(c)'
  <2>1. Request(op[c], ty[c], fam[c])' = Request(p[1], p[2], f)
    BY <1>2 DEF Request, SetCmd, SetType, SetFamily
  <2> QED BY <1>2, <2>1 DEF Sent
<1>6. OverClean(c)'
  <2>1. Append(<<>>, "err") = <<"err">> /\ Len(<<"err">>) = 1 /\ <<"err">> # <<"ok">>
    OBVIOUS
  <2> QED BY <1>2, <2>1 DEF OverClean
<1> QED
  BY <1>3, <1>4, <1>5, <1>6, OthersKeep DEF IInv

\* The kernel answers with e and objs: any answer whose objects other than rules
\* are those of a list of tables.
LEMMA AnswerStep ==
    ASSUME IInv, NEW c \in Calls, phase[c] = "sent", NEW e \in BOOLEAN, NEW objs,
           Answer(c, e, objs),
           ~e /\ (\E x \in objs : x[1] # "rule") => ListsTables(c)
    PROVE  IInv'
<1>1. /\ phase'[c] = "answered" /\ reply'[c] = [err |-> e, objs |-> objs] /\ cbs'[c] = <<>>
      /\ op' = op /\ ty' = ty /\ fam' = fam /\ tab' = tab
  BY DEF Answer, IInv, NfTypes, Sent, call
<1>2. NfTypes'
  BY <1>1 DEF Answer, IInv, NfTypes, call
<1>3. ASSUME NEW d \in Calls, d # c PROVE Untouched(d)
  BY <1>3 DEF Answer, IInv, NfTypes, Untouched, call
<1>4. Sent(c)' /\ OverClean(c)'
  BY <1>1 DEF Sent, OverClean, ResponseThrows, ListsTables
<1> QED
  BY <1>2, <1>3, <1>4, OthersKeep DEF IInv

\* What a dump can hold: the objects of one type, rules unless it lists tables.
LEMMA DumpForm ==
    ASSUME IInv, NEW c \in Calls, phase[c] = "sent", Len(msgs[c]) = 1
    PROVE  /\ op[c] \in {"get", "list"} /\ ty[c] \in {"table", "rule"}
           /\ msgs[c][1][2] = ty[c]
<1>1. op[c] \in Operations /\ ty[c] \in Types /\ fam[c] \in KnownFamilies
  BY FamiliesOK DEF IInv, NfTypes
<1> DEFINE cmd == <<Verb(op[c]), Target(op[c], ty[c]), NfProto[fam[c]]>>
<1>2. msgs[c] = IF op[c] \in {"get", "list"} /\ ty[c] \in {"table", "rule"} THEN <<cmd>>
                ELSE << <<"BEGIN">>, cmd, <<"END">> >>
  BY <1>1, RequestForm DEF IInv, Sent
<1>3. op[c] \in {"get", "list"} /\ ty[c] \in {"table", "rule"} /\ msgs[c] = <<cmd>>
  <2> HIDE DEF cmd
  <2> QED BY <1>2
<1> QED
  BY <1>3 DEF Target

\* The three ways a request completes.
LEMMA ServeStep ==
    ASSUME IInv, NEW c \in Calls, ServeBatch(c) \/ ServeDump(c) \/ SendError(c)
    PROVE  IInv'
<1>1. CASE ServeBatch(c)
  BY <1>1, AnswerStep DEF ServeBatch
<1>2. CASE ServeDump(c)
  <2> DEFINE objs == {x \in kern : x[1] = msgs[c][1][2] /\ x[2] = msgs[c][1][3]}
  <2>1. phase[c] = "sent" /\ Len(msgs[c]) = 1 /\ Answer(c, FALSE, objs)
    BY <1>2 DEF ServeDump
  <2>2. (\E x \in objs : x[1] # "rule") => ListsTables(c)
    BY <2>1, DumpForm DEF ListsTables
  <2> HIDE DEF objs
  <2> QED BY <2>1, <2>2, AnswerStep
<1>3. CASE SendError(c)
  BY <1>3, AnswerStep DEF SendError
<1> QED
  BY <1>1, <1>2, <1>3

\* The callback of the request.
LEMMA RepliedStep ==
    ASSUME IInv, NEW c \in Calls, Replied(c)
    PROVE  IInv'
<1> DEFINE throws == ~reply[c].err /\ ResponseThrows(reply[c])
<1>1. /\ op' = op /\ ty' = ty /\ fam' = fam /\ tab' = tab /\ reply' = reply
      /\ sock'[c] = "closed"
      /\ phase'[c] = IF throws THEN "thrown" ELSE "done"
      /\ cbs'[c] = IF reply[c].err THEN Append(<<>>, "err")
                   ELSE IF ResponseThrows(reply[c]) THEN <<>> ELSE Append(<<>>, "ok")
      /\ reply[c].err \in BOOLEAN
      /\ throws => ListsTables(c)
  BY DEF Replied, IInv, NfTypes, Sent, call
<1>2. Append(<<>>, "err") = <<"err">> /\ Append(<<>>, "ok") = <<"ok">>
  OBVIOUS
<1>3. NfTypes'
  BY <1>1 DEF Replied, IInv, NfTypes, call
<1>4. ASSUME NEW d \in Calls, d # c PROVE Untouched(d)
  BY <1>4 DEF Replied, IInv, NfTypes, Untouched, call
<1>5. ListsTables(c)' <=> ListsTables(c)
  BY <1>1 DEF ListsTables
<1>6. Sent(c)' /\ OverClean(c)'
  BY <1>1, <1>2, <1>5 DEF Sent, OverClean
<1> QED
  BY <1>3, <1>4, <1>6, OthersKeep DEF IInv

\* Every step keeps IInv.
LEMMA NextIInv ==
    ASSUME IInv, [Next]_vars PROVE IInv'
<1>1. ASSUME NEW c \in Calls, NEW p \in Commands, NEW f \in Families, NEW n \in Tables,
             Command(c, p[1], p[2], f, n)
      PROVE  IInv'
  BY <1>1, CommandStep
<1>2. ASSUME NEW c \in Calls, Progress(c) PROVE IInv'
  BY <1>2, ServeStep, RepliedStep DEF Progress
<1>3. CASE UNCHANGED vars
  <2>1. \A d \in Calls : Untouched(d)
    BY <1>3 DEF vars, Untouched
  <2>2. NfTypes'
    BY <1>3 DEF IInv, NfTypes, vars
  <2> QED
    BY <2>1, <2>2, OthersKeep DEF IInv
<1> QED
  BY <1>1, <1>2, <1>3 DEF Next

\* A command that is over has closed its socket and called back exactly once, and
\* with success only if the kernel accepted it; only a list of tables ends in an
\* exception (netfilterSend, generateNetfilterResponse), whatever commands are under
\* way with it.
THEOREM OverIsCleanAlways == Spec => []OverIsClean
<1>1. Init => IInv
  BY InitIInv
<1>2. IInv /\ [Next]_vars => IInv'
  BY NextIInv
<1>3. IInv => OverIsClean
  BY DEF IInv, OverIsClean, OverClean
<1> QED
  BY <1>1, <1>2, <1>3, PTL DEF Spec

-----------------------------------------------------------------------------
(* The effect of a command *)

\* What a batch that the kernel accepts does.
LEMMA BatchEffect ==
    ASSUME IInv, NEW c \in Calls, ServeBatch(c), ~reply'[c].err
    PROVE  /\ ~Misnamed(c) => kern' = Meant(c)
           /\ Misnamed(c) => \A x \in Objects : x # Named(c, x[1]) => (x \in kern <=> x \in kern')
<1> DEFINE cmd == <<Verb(op[c]), Target(op[c], ty[c]), NfProto[fam[c]]>>
           obj == Named(c, Target(op[c], ty[c]))
<1>1. op[c] \in Operations /\ ty[c] \in Types /\ fam[c] \in KnownFamilies
  BY FamiliesOK DEF IInv, NfTypes, ServeBatch
<1>2. msgs[c] = IF op[c] \in {"get", "list"} /\ ty[c] \in {"table", "rule"} THEN <<cmd>>
                ELSE << <<"BEGIN">>, cmd, <<"END">> >>
  BY <1>1, RequestForm DEF IInv, Sent, ServeBatch
<1>3. msgs[c][2] = cmd
  <2>1. Len(msgs[c]) = 3
    BY DEF ServeBatch, IsBatch
  <2> HIDE DEF cmd
  <2> QED BY <1>2, <2>1
<1>4. AcceptsFor(cmd, ty[c], tab[c]) /\ kern' = Applied(cmd, tab[c])
  <2>1. CASE Answer(c, TRUE, {})
    BY <2>1 DEF Answer, IInv, NfTypes
  <2> QED
    BY <1>3, <2>1 DEF ServeBatch
<1>5. /\ cmd[1] = Verb(op[c]) /\ cmd[2] = Target(op[c], ty[c]) /\ cmd[3] = NfProto[fam[c]]
      /\ obj = <<cmd[2], cmd[3], tab[c]>>
  BY DEF Named
<1>6. kern' = IF op[c] = "add" THEN kern \cup {obj} ELSE kern \ {obj}
  BY <1>1, <1>4, <1>5 DEF Applied, Verb, Operations
<1> HIDE DEF cmd
<1>7. CASE op[c] = "add"
  BY <1>6, <1>7 DEF Target, Meant, Misnamed
<1>8. CASE op[c] = "del"
  <2>1. ~Misnamed(c) => obj = Named(c, ty[c])
    BY <1>8 DEF Misnamed, Target
  <2>2. ~Misnamed(c) => kern' = Meant(c)
    BY <1>6, <1>8, <2>1 DEF Meant
  <2>3. \A x \in Objects : x # Named(c, x[1]) => (x \in kern <=> x \in kern')
    BY <1>6, <1>8 DEF Named
  <2> QED BY <2>2, <2>3
<1>9. CASE op[c] = "flush"
  <2>1. ~Misnamed(c) => obj = Named(c, "rule")
    BY <1>1, <1>9 DEF Misnamed, Target, Types
  <2>2. ~Misnamed(c) => kern' = Meant(c)
    BY <1>6, <1>9, <2>1 DEF Meant
  <2>3. \A x \in Objects : x # Named(c, x[1]) => (x \in kern <=> x \in kern')
    BY <1>6, <1>9 DEF Named
  <2> QED BY <2>2, <2>3
<1>10. CASE op[c] \in {"get", "list"}
  <2>1. cmd[1] = "GET"
    BY <1>5, <1>10 DEF Verb
  <2> QED BY <1>4, <2>1 DEF AcceptsFor, Accepts
<1> QED
  BY <1>1, <1>7, <1>8, <1>9, <1>10 DEF Operations

\* A command that the kernel accepts, other than "del table" and "flush chain",
\* changes what the kernel holds exactly as its name says, and those two touch
\* nothing outside the named table of the named family (set_cmd, set_family,
\* sendNetfilterCommand), for any number of commands under way together.
THEOREM EffectAsNamedAlways == Spec => EffectAsNamed
<1> DEFINE Effect(c) ==
      phase[c] = "sent" /\ phase'[c] = "answered" /\ ~reply'[c].err =>
           /\ ~Misnamed(c) => kern' = Meant(c)
           /\ Misnamed(c) => \A x \in Objects : x # Named(c, x[1]) => (x \in kern <=> x \in kern')
<1>1. ASSUME IInv, [Next]_vars, NEW c \in Calls PROVE Effect(c)
  <2>1. ASSUME NEW d \in Calls, NEW p \in Commands, NEW f \in Families, NEW n \in Tables,
               Command(d, p[1], p[2], f, n)
        PROVE  Effect(c)
    BY <1>1, <2>1 DEF Command, IInv, NfTypes
  <2>2. ASSUME NEW d \in Calls, Progress(d) PROVE Effect(c)
    <3>1. CASE d # c
      BY <1>1, <2>2, <3>1 DEF Progress, ServeBatch, ServeDump, SendError, Replied, Answer, IInv, NfTypes
    <3>2. CASE d = c /\ ServeBatch(c)
      BY <1>1, <3>2, BatchEffect
    <3>3. CASE d = c /\ ServeDump(c)
      <4>1. kern' = kern /\ op[c] \in {"get", "list"}
        BY <1>1, <3>3, DumpForm DEF ServeDump
      <4> QED BY <4>1 DEF Meant, Misnamed
    <3>4. CASE d = c /\ SendError(c)
      BY <1>1, <3>4 DEF SendError, Answer, IInv, NfTypes
    <3>5. CASE d = c /\ Replied(c)
      BY <1>1, <3>5 DEF Replied
    <3> QED BY <2>2, <3>1, <3>2, <3>3, <3>4, <3>5 DEF Progress
  <2>3. CASE UNCHANGED vars
    BY <1>1, <2>3 DEF vars
  <2> QED
    BY <1>1, <2>1, <2>2, <2>3 DEF Next
<1>2. IInv /\ [Next]_vars => [\A c \in Calls : Effect(c)]_vars
  BY <1>1
<1>3. Init => IInv
  BY InitIInv
<1>4. IInv /\ [Next]_vars => IInv'
  BY NextIInv
<1> QED
  BY <1>2, <1>3, <1>4, PTL DEF Spec, EffectAsNamed
=============================================================================

------------------------- MODULE TunInterfaceProofs -------------------------
(***************************************************************************)
(* Proofs about TunInterface, for any number of jobs, workers, descriptors *)
(* and packets, any buffer length and any faults.                          *)
(*                                                                         *)
(* Pool says where a job is: once in libuv's queue while it is queued,     *)
(* once among the finished jobs while it is posted, and a read that has    *)
(* not finished has got nothing.  On it rest two further invariants:       *)
(* Bytes (what do_write has handed to the device) and Order (the packets   *)
(* of the device, of the reads and of the stream), and on Order, Origin    *)
(* (where the packets of the first device are).                            *)
(***************************************************************************)
EXTENDS TunInterface, SequenceTheorems, FiniteSetTheorems, WellFoundedInduction, TLAPS

-----------------------------------------------------------------------------
(* Facts about sequences and sets *)

\* No element occurs twice.
Inj(s) == \A i, k \in DOMAIN s : s[i] = s[k] => i = k

\* A new element at the end.
LEMMA AppendFresh ==
    ASSUME NEW S, NEW s \in Seq(S), NEW e \in S
    PROVE  /\ Append(s, e) \in Seq(S)
           /\ \A i \in DOMAIN Append(s, e) :
                 Append(s, e)[i] = e \/ (i \in DOMAIN s /\ Append(s, e)[i] = s[i])
           /\ Inj(s) /\ (\A i \in DOMAIN s : s[i] # e) => Inj(Append(s, e))
  <1> DEFINE t == Append(s, e)
  <1>1. t \in Seq(S) /\ Len(t) = Len(s) + 1 /\ t[Len(s) + 1] = e
        /\ \A i \in 1..Len(s) : t[i] = s[i]
    BY AppendProperties
  <1>2. Len(s) \in Nat /\ DOMAIN s = 1..Len(s) /\ DOMAIN t = 1..Len(t)
    BY <1>1, LenProperties
  <1> HIDE DEF t
  <1>3. \A i \in DOMAIN t : (i = Len(s) + 1 /\ t[i] = e) \/ (i \in DOMAIN s /\ t[i] = s[i])
    BY <1>1, <1>2
  <1>4. Inj(s) /\ (\A i \in DOMAIN s : s[i] # e) => Inj(t)
    BY <1>3 DEF Inj
  <1> QED  BY <1>1, <1>3, <1>4 DEF t

\* The first element taken away.
LEMMA TailFresh ==
    ASSUME NEW S, NEW s \in Seq(S), s # <<>>
    PROVE  /\ Tail(s) \in Seq(S) /\ Head(s) \in S
           /\ 1 \in DOMAIN s /\ Head(s) = s[1]
           /\ \A i \in DOMAIN Tail(s) : i + 1 \in DOMAIN s /\ Tail(s)[i] = s[i + 1]
           /\ Inj(s) => Inj(Tail(s)) /\ \A i \in DOMAIN Tail(s) : Tail(s)[i] # Head(s)
  <1> DEFINE t == Tail(s)
  <1>1. Head(s) \in S /\ t \in Seq(S) /\ Len(t) = Len(s) - 1
        /\ \A i \in 1..Len(t) : t[i] = s[i + 1]
    BY HeadTailProperties
  <1>2. Len(s) \in Nat /\ DOMAIN s = 1..Len(s) /\ Len(t) \in Nat /\ DOMAIN t = 1..Len(t)
    BY <1>1, LenProperties
  <1>3. Head(s) = s[1]  OBVIOUS
  <1> HIDE DEF t
  <1>4. 1 \in DOMAIN s /\ \A i \in DOMAIN t : i \in Nat /\ i + 1 # 1 /\ i + 1 \in DOMAIN s /\ t[i] = s[i + 1]
    BY <1>1, <1>2
  <1>5. Inj(s) => Inj(t) /\ \A i \in DOMAIN t : t[i] # Head(s)
    <2> SUFFICES ASSUME Inj(s) PROVE Inj(t) /\ \A i \in DOMAIN t : t[i] # Head(s)  OBVIOUS
    <2>1. \A i \in DOMAIN t : t[i] # Head(s)  BY <1>3, <1>4 DEF Inj
    <2>2. ASSUME NEW i \in DOMAIN t, NEW k \in DOMAIN t, t[i] = t[k] PROVE i = k
      <3>1. i + 1 = k + 1  BY <1>4, <2>2 DEF Inj
      <3> QED  BY <1>4, <3>1
    <2> QED  BY <2>1, <2>2 DEF Inj
  <1> QED  BY <1>1, <1>3, <1>4, <1>5 DEF t

\* The lowest free descriptor is free.
LEMMA MinInSet == ASSUME NEW S \in SUBSET Nat, S # {} PROVE Min(S) \in S
  <1>1. PICK x \in S : \A y \in S : ~(<<y, x>> \in OpToRel(<, Nat))
    BY NatLessThanWellFounded, WFMin
  <1>2. \A y \in S : x <= y
    <2> TAKE y \in S
    <2>1. ~(y < x)  BY <1>1 DEF OpToRel
    <2> QED  BY <2>1
  <1> QED  BY <1>1, <1>2 DEF Min

-----------------------------------------------------------------------------
(* Where the jobs are *)

Pool ==
    /\ queue \in Seq(Jobs) /\ doneq \in Seq(Jobs)
    /\ DOMAIN jpc = Jobs /\ DOMAIN got = Reads
    /\ Inj(queue) /\ \A i \in DOMAIN queue : jpc[queue[i]] = "queued"
    /\ Inj(doneq) /\ \A i \in DOMAIN doneq : jpc[doneq[i]] = "posted"
    /\ \A j \in Reads : jpc[j] \notin {"posted", "done"} => got[j] = Nothing

\* Every step moves at most one job, by one of these.
Works(j) ==      \* inside do_read or do_write
    /\ jpc[j] \in {"running", "checked"}
    /\ \E to \in {"checked", "reading"} : jpc' = [jpc EXCEPT ![j] = to]
    /\ UNCHANGED <<queue, doneq, got>>
Ends(j) ==       \* do_read or do_write returns
    /\ jpc[j] \in {"running", "checked", "reading"}
    /\ Finish(j)
    /\ UNCHANGED queue
    /\ \/ UNCHANGED got
       \/ j \in Reads /\ \E p : got' = [got EXCEPT ![j] = p]
Posts(j) ==      \* its completion runs
    /\ doneq # <<>> /\ Head(doneq) = j
    /\ doneq' = Tail(doneq)
    /\ jpc' = [jpc EXCEPT ![j] = "done"]
    /\ UNCHANGED <<queue, got>>

\* What a step does to the pool.
LEMMA PoolSteps ==
    ASSUME [Next]_tunVars
    PROVE  \/ \E j \in Jobs : (Enqueue(j) /\ UNCHANGED got) \/ Works(j) \/ Ends(j) \/ Posts(j)
           \/ WorkerStarts
           \/ UNCHANGED <<queue, doneq, jpc, got>>
  <1>1. CASE Create \/ Open \/ Close \/ PacketArrives \/ OtherOpens \/ UNCHANGED tunVars
    BY <1>1 DEF Create, Open, Close, PacketArrives, OtherOpens, tunVars, poolVars, jobVars
  <1>2. ASSUME NEW j \in Reads, GetData(j) \/ StreamRead(j) \/ ReadWorker(j) \/ PostRead(j)
        PROVE (Enqueue(j) /\ UNCHANGED got) \/ Works(j) \/ Ends(j) \/ Posts(j)
    <2>1. CASE GetData(j) \/ StreamRead(j)
      BY <2>1 DEF GetData, StreamRead, Enqueue, jobVars
    <2>2. CASE DoReadUnopened(j)  BY <2>2 DEF DoReadUnopened, Ends
    <2>3. CASE DoReadChecks(j)  BY <2>3 DEF DoReadChecks, Works, poolVars, jobVars
    <2>4. CASE DoRead(j)  BY <2>4 DEF DoRead, Works, poolVars, jobVars
    <2>5. CASE DoReadStale(j)  BY <2>5 DEF DoReadStale, Ends
    <2>6. CASE ReadReturns(j)  BY <2>6 DEF ReadReturns, Ends
    <2>7. CASE PostRead(j)  BY <2>7 DEF PostRead, Posts, jobVars
    <2> QED  BY <1>2, <2>1, <2>2, <2>3, <2>4, <2>5, <2>6, <2>7 DEF ReadWorker
  <1>3. ASSUME NEW j \in Writes, SendData(j) \/ WriteWorker(j) \/ PostWrite(j)
        PROVE (Enqueue(j) /\ UNCHANGED got) \/ Works(j) \/ Ends(j) \/ Posts(j)
                 \/ UNCHANGED <<queue, doneq, jpc, got>>
    <2>1. CASE SendData(j)  BY <2>1 DEF SendData, Enqueue, jobVars
    <2>2. CASE DoWriteChecks(j)  BY <2>2 DEF DoWriteChecks, Works, poolVars, jobVars
    <2>3. CASE DoWriteFails(j)  BY <2>3 DEF DoWriteFails, Ends
    <2>4. CASE DoWriteEnds(j)  BY <2>4 DEF DoWriteEnds, Ends, jobVars
    <2>5. ASSUME NEW n \in 1..BufLen, DoWrite(j, n) PROVE UNCHANGED <<queue, doneq, jpc, got>>
      BY <2>5 DEF DoWrite, poolVars
    <2>6. CASE PostWrite(j)  BY <2>6 DEF PostWrite, Posts, jobVars
    <2> QED  BY <1>3, <2>1, <2>2, <2>3, <2>4, <2>5, <2>6 DEF WriteWorker
  <1>4. Reads \subseteq Jobs /\ Writes \subseteq Jobs  BY DEF Jobs
  <1> QED  BY <1>1, <1>2, <1>3, <1>4 DEF Next, TunLoop

\* No job has been queued at first.
LEMMA InitPool == Init => Pool
  BY DEF Init, Pool, Inj

\* A job goes from the queue to a worker to the finished jobs to its callback.
LEMMA NextPool == Pool /\ [Next]_tunVars => Pool'
  <1> SUFFICES ASSUME Pool, [Next]_tunVars PROVE Pool'  OBVIOUS
  <1> USE DEF Pool
  <1>0. Reads \subseteq Jobs  BY DEF Jobs
  <1>1. CASE UNCHANGED <<queue, doneq, jpc, got>>  BY <1>1
  <1>2. ASSUME NEW j \in Jobs, Enqueue(j), UNCHANGED got PROVE Pool'
    <2>1. jpc[j] = "idle" /\ jpc' = [jpc EXCEPT ![j] = "queued"] /\ queue' = Append(queue, j)
          /\ doneq' = doneq
      BY <1>2 DEF Enqueue
    <2>2. \A i \in DOMAIN queue : queue[i] # j  BY <2>1
    <2>3. queue' \in Seq(Jobs) /\ Inj(queue')
          /\ \A i \in DOMAIN queue' : queue'[i] = j \/ (i \in DOMAIN queue /\ queue'[i] = queue[i])
      BY <2>1, <2>2, AppendFresh
    <2>4. \A i \in DOMAIN queue' : jpc'[queue'[i]] = "queued"  BY <2>1, <2>2, <2>3
    <2>5. \A i \in DOMAIN doneq' : jpc'[doneq'[i]] = "posted"  BY <2>1
    <2>6. \A i \in Reads : jpc'[i] \notin {"posted", "done"} => got'[i] = Nothing
      BY <1>0, <1>2, <2>1
    <2> QED  BY <1>2, <2>1, <2>3, <2>4, <2>5, <2>6
  <1>3. CASE WorkerStarts
    <2> DEFINE j == Head(queue)
    <2>1. queue # <<>> /\ jpc' = [jpc EXCEPT ![j] = "running"] /\ queue' = Tail(queue)
          /\ UNCHANGED <<doneq, got>>
      BY <1>3 DEF WorkerStarts, jobVars
    <2>2. j \in Jobs /\ jpc[j] = "queued"  BY <2>1, TailFresh
    <2>3. /\ queue' \in Seq(Jobs) /\ Inj(queue')
          /\ \A i \in DOMAIN queue' : queue'[i] # j
          /\ \A i \in DOMAIN queue' : i + 1 \in DOMAIN queue /\ queue'[i] = queue[i + 1]
      BY <2>1, TailFresh
    <2> HIDE DEF j
    <2>4. \A i \in DOMAIN queue' : jpc'[queue'[i]] = "queued"  BY <2>1, <2>3
    <2>5. \A i \in DOMAIN doneq' : jpc'[doneq'[i]] = "posted"  BY <2>1, <2>2
    <2>6. \A i \in Reads : jpc'[i] \notin {"posted", "done"} => got'[i] = Nothing
      BY <1>0, <2>1, <2>2
    <2> QED  BY <2>1, <2>3, <2>4, <2>5, <2>6
  <1>4. ASSUME NEW j \in Jobs, Works(j) PROVE Pool'
    <2>1. PICK to \in {"checked", "reading"} : jpc' = [jpc EXCEPT ![j] = to]
      BY <1>4 DEF Works
    <2>2. jpc[j] \in {"running", "checked"} /\ UNCHANGED <<queue, doneq, got>>  BY <1>4 DEF Works
    <2>3. \A i \in DOMAIN queue : queue[i] # j  BY <2>2
    <2>4. \A i \in DOMAIN doneq : doneq[i] # j  BY <2>2
    <2>5. \A i \in Reads : jpc'[i] \notin {"posted", "done"} => got'[i] = Nothing
      BY <1>0, <2>1, <2>2
    <2> QED  BY <2>1, <2>2, <2>3, <2>4, <2>5
  <1>5. ASSUME NEW j \in Jobs, Ends(j) PROVE Pool'
    <2>1. jpc[j] \in {"running", "checked", "reading"} /\ jpc' = [jpc EXCEPT ![j] = "posted"]
          /\ doneq' = Append(doneq, j) /\ queue' = queue
      BY <1>5 DEF Ends, Finish
    <2>2. \A i \in DOMAIN doneq : doneq[i] # j  BY <2>1
    <2>3. doneq' \in Seq(Jobs) /\ Inj(doneq')
          /\ \A i \in DOMAIN doneq' : doneq'[i] = j \/ (i \in DOMAIN doneq /\ doneq'[i] = doneq[i])
      BY <2>1, <2>2, AppendFresh
    <2>4. \A i \in DOMAIN doneq' : jpc'[doneq'[i]] = "posted"  BY <2>1, <2>2, <2>3
    <2>5. \A i \in DOMAIN queue' : jpc'[queue'[i]] = "queued"  BY <2>1
    <2>6. DOMAIN got' = Reads /\ \A i \in Reads : i # j => got'[i] = got[i]
      BY <1>5 DEF Ends
    <2>7. \A i \in Reads : jpc'[i] \notin {"posted", "done"} => got'[i] = Nothing
      BY <1>0, <2>1, <2>6
    <2> QED  BY <2>1, <2>3, <2>4, <2>5, <2>6, <2>7
  <1>6. ASSUME NEW j \in Jobs, Posts(j) PROVE Pool'
    <2>1. doneq # <<>> /\ Head(doneq) = j /\ doneq' = Tail(doneq)
          /\ jpc' = [jpc EXCEPT ![j] = "done"] /\ UNCHANGED <<queue, got>>
      BY <1>6 DEF Posts
    <2>2. jpc[j] = "posted"  BY <2>1, TailFresh
    <2>3. /\ doneq' \in Seq(Jobs) /\ Inj(doneq')
          /\ \A i \in DOMAIN doneq' : doneq'[i] # j
          /\ \A i \in DOMAIN doneq' : i + 1 \in DOMAIN doneq /\ doneq'[i] = doneq[i + 1]
      BY <2>1, TailFresh
    <2>4. \A i \in DOMAIN doneq' : jpc'[doneq'[i]] = "posted"  BY <2>1, <2>3
    <2>5. \A i \in DOMAIN queue' : jpc'[queue'[i]] = "queued"  BY <2>1, <2>2
    <2>6. \A i \in Reads : jpc'[i] \notin {"posted", "done"} => got'[i] = Nothing
      BY <1>0, <2>1, <2>2
    <2> QED  BY <2>1, <2>3, <2>4, <2>5, <2>6
  <1> QED  BY <1>1, <1>2, <1>3, <1>4, <1>5, <1>6, PoolSteps


\* A job whose callback has run stays as it is.
LEMMA DoneStays ==
    ASSUME Pool, [Next]_tunVars, NEW j \in Jobs, jpc[j] = "done" PROVE jpc'[j] = "done"
  <1>1. CASE UNCHANGED jpc  BY <1>1
  <1>2. ASSUME NEW i \in Jobs, Enqueue(i) \/ Works(i) \/ Ends(i) \/ Posts(i) PROVE jpc'[j] = "done"
    BY <1>2 DEF Enqueue, Works, Ends, Finish, Posts, Pool
  <1>3. CASE WorkerStarts
    <2>1. jpc[Head(queue)] = "queued" /\ jpc' = [jpc EXCEPT ![Head(queue)] = "running"]
      BY <1>3, TailFresh DEF WorkerStarts, Pool
    <2> QED  BY <2>1 DEF Pool
  <1> QED  BY <1>1, <1>2, <1>3, PoolSteps

-----------------------------------------------------------------------------
(* What do_write hands to the device *)

Bytes(j) ==
    /\ out[j] \in Seq(Nat) /\ written[j] <= BufLen
    /\ ~stray => Len(out[j]) = written[j]
    /\ ~stray /\ partial[j] <= 1 => \A i \in 1..written[j] : out[j][i] = i
    /\ partial[j] = 0 => (written[j] = 0 /\ boff[j] = 0) \/ written[j] = BufLen
    /\ partial[j] = 1 /\ written[j] < BufLen => boff[j] = written[j]
    /\ told[j].made => jpc[j] = "done" /\ told[j].len = ReportedLength(j)

WriteInv ==
    /\ Pool
    /\ DOMAIN told = Jobs /\ DOMAIN jerr = Jobs /\ DOMAIN out = Writes
    /\ written \in [Writes -> Nat] /\ boff \in [Writes -> Nat] /\ partial \in [Writes -> Nat]
    /\ \A j \in Writes : Bytes(j)

\* Nothing has been written at first.
LEMMA InitWrite == Init => WriteInv
  <1> SUFFICES ASSUME Init PROVE WriteInv  OBVIOUS
  <1>1. Writes \subseteq Jobs  BY DEF Jobs
  <1>2. ASSUME NEW j \in Writes PROVE Bytes(j)
    <2>1. out[j] = <<>> /\ written[j] = 0 /\ boff[j] = 0 /\ partial[j] = 0 /\ told[j] = Untold
      BY <1>1 DEF Init
    <2>2. ~told[j].made  BY <2>1 DEF Untold
    <2> QED  BY <2>1, <2>2, TunBoundsNat DEF Bytes
  <1>3. DOMAIN told = Jobs /\ DOMAIN jerr = Jobs /\ DOMAIN out = Writes
        /\ written \in [Writes -> Nat] /\ boff \in [Writes -> Nat] /\ partial \in [Writes -> Nat]
    BY DEF Init
  <1> QED  BY <1>2, <1>3, InitPool DEF WriteInv

\* A step other than write() leaves the buffers alone, and touches what is known of a
\* write job only until its callback has run, or to run it.
LEMMA NotWriting ==
    ASSUME WriteInv, Pool', UNCHANGED <<written, boff, partial, out>>, stray => stray',
           DOMAIN told' = Jobs, DOMAIN jerr' = Jobs,
           \A j \in Writes :
              \/ /\ told'[j] = told[j]
                 /\ jpc[j] = "done" => jpc'[j] = "done" /\ jerr'[j] = jerr[j]
              \/ /\ jpc'[j] = "done" /\ jerr'[j] = jerr[j]
                 /\ told'[j].len = ReportedLength(j)
    PROVE  WriteInv'
  <1>1. ASSUME NEW j \in Writes PROVE Bytes(j)'
    <2>1. Bytes(j)  BY DEF WriteInv
    <2>2. jerr'[j] = jerr[j] => ReportedLength(j)' = ReportedLength(j)  BY DEF ReportedLength
    <2>3. told'[j].made => jpc'[j] = "done" /\ told'[j].len = ReportedLength(j)'
      BY <2>1, <2>2 DEF Bytes
    <2> QED  BY <2>1, <2>3 DEF Bytes
  <1> QED  BY <1>1 DEF WriteInv

\* One write() of the loop of do_write.
LEMMA WriteTakes ==
    ASSUME WriteInv, Pool', NEW j \in Writes, NEW n \in 1..BufLen, DoWrite(j, n) PROVE WriteInv'
  <1>0. Writes \subseteq Jobs /\ BufLen \in Nat  BY TunBoundsNat DEF Jobs
  <1>1. /\ jpc[j] = "checked" /\ written[j] < BufLen /\ n \in 1..(BufLen - written[j])
        /\ partial' = [partial EXCEPT ![j] = IF n < BufLen - written[j] THEN @ + 1 ELSE @]
        /\ written' = [written EXCEPT ![j] = @ + n]
        /\ boff' = [boff EXCEPT ![j] = boff[j] + written[j] + n]
        /\ UNCHANGED <<jpc, jerr, told>>
    BY DEF DoWrite, Advance, jsVars
  <1>2. \/ out' = [out EXCEPT ![j] = @ \o [i \in 1..n |-> boff[j] + i]] /\ UNCHANGED stray
        \/ stray' /\ UNCHANGED out
    BY DEF DoWrite
  <1>3. Bytes(j) /\ written[j] \in Nat /\ boff[j] \in Nat /\ partial[j] \in Nat /\ n \in Nat
    BY DEF WriteInv
  <1>4. /\ written' \in [Writes -> Nat] /\ boff' \in [Writes -> Nat] /\ partial' \in [Writes -> Nat]
        /\ DOMAIN out' = Writes
    BY <1>1, <1>2, <1>3 DEF WriteInv
  <1>5. ASSUME NEW k \in Writes, k # j PROVE Bytes(k)'
    <2>1. Bytes(k)  BY DEF WriteInv
    <2>2. written'[k] = written[k] /\ boff'[k] = boff[k] /\ partial'[k] = partial[k]
          /\ out'[k] = out[k] /\ (stray => stray')
      BY <1>1, <1>2, <1>5 DEF WriteInv
    <2>3. ReportedLength(k)' = ReportedLength(k)  BY <1>1, <2>2 DEF ReportedLength
    <2> QED  BY <1>1, <2>1, <2>2, <2>3 DEF Bytes
  <1>6. Bytes(j)'
    <2>1. ~told'[j].made  BY <1>1, <1>3 DEF Bytes
    <2>2. /\ written'[j] = written[j] + n /\ boff'[j] = boff[j] + written[j] + n
          /\ partial'[j] = IF n < BufLen - written[j] THEN partial[j] + 1 ELSE partial[j]
      BY <1>1 DEF WriteInv
    <2>3. written'[j] <= BufLen  BY <1>0, <1>1, <1>3, <2>2
    <2>4. partial'[j] = 0 => written'[j] = BufLen  BY <1>0, <1>1, <1>3, <2>2
    <2>5. partial'[j] = 1 /\ written'[j] < BufLen => boff'[j] = written'[j]
      <3> SUFFICES ASSUME partial'[j] = 1, written'[j] < BufLen PROVE boff'[j] = written'[j]  OBVIOUS
      <3>1. partial[j] = 0  BY <1>0, <1>1, <1>3, <2>2
      <3>2. boff[j] = 0 /\ written[j] = 0  BY <1>1, <1>3, <3>1 DEF Bytes
      <3> QED  BY <1>3, <2>2, <3>2
    <2>6. CASE stray' /\ UNCHANGED out
      <3>1. out'[j] \in Seq(Nat)  BY <1>3, <2>6 DEF Bytes
      <3> QED  BY <2>1, <2>3, <2>4, <2>5, <2>6, <3>1 DEF Bytes
    <2>7. CASE out' = [out EXCEPT ![j] = @ \o [i \in 1..n |-> boff[j] + i]] /\ UNCHANGED stray
      <3> DEFINE chunk == [i \in 1..n |-> boff[j] + i]
      <3>1. chunk \in Seq(Nat) /\ Len(chunk) = n /\ \A i \in 1..n : chunk[i] = boff[j] + i
        <4>1. \A i \in 1..n : boff[j] + i \in Nat  BY <1>3
        <4>2. chunk \in [1..n -> Nat]  BY <4>1
        <4>3. chunk \in Seq(Nat)  BY <1>3, <4>2, SeqDef
        <4> QED  BY <1>3, <4>2, <4>3, LenProperties
      <3>2. out'[j] = out[j] \o chunk  BY <2>7 DEF WriteInv
      <3> HIDE DEF chunk
      <3>3. out[j] \in Seq(Nat)  BY <1>3 DEF Bytes
      <3>4. out'[j] \in Seq(Nat) /\ Len(out'[j]) = Len(out[j]) + n
            /\ \A i \in 1..(Len(out[j]) + n) :
                  out'[j][i] = IF i <= Len(out[j]) THEN out[j][i] ELSE chunk[i - Len(out[j])]
        <4>1. \A s, t \in Seq(Nat) :
                 /\ s \o t \in Seq(Nat) /\ Len(s \o t) = Len(s) + Len(t)
                 /\ \A i \in 1..(Len(s) + Len(t)) :
                       (s \o t)[i] = IF i <= Len(s) THEN s[i] ELSE t[i - Len(s)]
          BY ConcatProperties
        <4>2. LET s == out[j] \o chunk IN
                 /\ s \in Seq(Nat) /\ Len(s) = Len(out[j]) + Len(chunk)
                 /\ \A i \in 1..(Len(out[j]) + Len(chunk)) :
                       s[i] = IF i <= Len(out[j]) THEN out[j][i] ELSE chunk[i - Len(out[j])]
          BY <3>1, <3>3, <4>1
        <4>3. Len(chunk) = n  BY <3>1
        <4> QED  BY ONLY <3>2, <4>2, <4>3
      <3>5. ~stray' => Len(out'[j]) = written'[j]  BY <1>3, <2>2, <2>7, <3>4 DEF Bytes
      <3>6. ASSUME ~stray', partial'[j] <= 1, NEW i \in 1..written'[j] PROVE out'[j][i] = i
        <4>1. Len(out[j]) = written[j]  BY <1>3, <2>7, <3>6 DEF Bytes
        <4>2. i \in Nat /\ i <= written[j] + n /\ 1 <= i  BY <1>3, <2>2, <3>6
        <4>3. partial[j] <= 1  BY <1>0, <1>1, <1>3, <2>2, <3>6
        <4>4. CASE i <= written[j]
          <5>1. out[j][i] = i  BY <1>3, <2>7, <3>6, <4>2, <4>3, <4>4 DEF Bytes
          <5>2. i \in 1..(Len(out[j]) + n) /\ i <= Len(out[j])
            BY <1>3, <4>1, <4>2, <4>4
          <5>3. out'[j][i] = out[j][i]  BY ONLY <3>4, <5>2
          <5> QED  BY <5>1, <5>3
        <4>5. CASE ~(i <= written[j])
          <5>1. boff[j] = written[j]
            <6>1. partial[j] = 0 \/ partial[j] = 1  BY <1>3, <4>3
            <6> QED  BY <1>1, <1>3, <6>1 DEF Bytes
          <5>2. out'[j][i] = chunk[i - written[j]]  BY <1>3, <3>4, <4>1, <4>2, <4>5
          <5>3. i - written[j] \in 1..n  BY <1>3, <4>2, <4>5
          <5>4. chunk[i - written[j]] = boff[j] + (i - written[j])  BY <3>1, <5>3
          <5> QED  BY <1>3, <4>2, <5>1, <5>2, <5>4
        <4> QED  BY <4>4, <4>5
      <3> QED  BY <2>1, <2>3, <2>4, <2>5, <3>4, <3>5, <3>6 DEF Bytes
    <2> QED  BY <1>2, <2>6, <2>7
  <1>7. \A k \in Writes : Bytes(k)'  BY <1>5, <1>6
  <1> QED  BY <1>1, <1>4, <1>7 DEF WriteInv

\* Every step keeps what is known of the writes.
LEMMA NextWrite == WriteInv /\ [Next]_tunVars => WriteInv'
  <1> SUFFICES ASSUME WriteInv, [Next]_tunVars PROVE WriteInv'  OBVIOUS
  <1>0. Writes \subseteq Jobs /\ Reads \subseteq Jobs /\ Reads \cap Writes = {}
    BY JobsDisjoint DEF Jobs
  <1>1. Pool /\ Pool' /\ DOMAIN told = Jobs /\ DOMAIN jerr = Jobs  BY NextPool DEF WriteInv
  <1>2. \A j \in Writes : jpc[j] = "done" => jpc'[j] = "done"  BY <1>0, <1>1, DoneStays
  <1>3. ASSUME UNCHANGED <<written, boff, partial, out, told, jerr>>, stray => stray' PROVE WriteInv'
    BY <1>1, <1>2, <1>3, NotWriting
  <1>4. CASE Create \/ Open \/ Close \/ PacketArrives \/ OtherOpens \/ WorkerStarts \/ UNCHANGED tunVars
    <2>1. CASE Create
      <3>1. UNCHANGED <<jobVars, told>>  BY <2>1 DEF Create, jsVars
      <3>2. stray => stray'  BY <2>1 DEF Create, CreateOpenFails, CreateIoctlFails, CreateSucceeds
      <3> QED  BY <1>3, <3>1, <3>2 DEF jobVars
    <2>2. CASE Close
      <3>1. UNCHANGED <<jobVars, told>>  BY <2>2 DEF Close, jsVars
      <3>2. stray => stray'  BY <2>2 DEF Close
      <3> QED  BY <1>3, <3>1, <3>2 DEF jobVars
    <2>3. CASE Open \/ PacketArrives \/ OtherOpens \/ WorkerStarts \/ UNCHANGED tunVars
      <3>1. UNCHANGED <<jobVars, stray, told>>
        BY <2>3 DEF Open, PacketArrives, OtherOpens, WorkerStarts, tunVars, jsVars
      <3> QED  BY <1>3, <3>1 DEF jobVars
    <2> QED  BY <1>4, <2>1, <2>2, <2>3
  <1>5. ASSUME NEW j \in Reads, GetData(j) \/ StreamRead(j) \/ ReadWorker(j) PROVE WriteInv'
    <2>1. CASE GetData(j) \/ StreamRead(j) \/ DoReadUnopened(j) \/ DoReadChecks(j) \/ DoRead(j)
               \/ ReadReturns(j)
      BY <1>3, <2>1 DEF GetData, StreamRead, Enqueue, DoReadUnopened, DoReadChecks, DoRead,
         ReadReturns, jobVars, jsVars
    <2>2. CASE DoReadStale(j)
      <3>1. UNCHANGED <<written, boff, partial, out, told>> /\ (stray => stray')
            /\ jerr' = [jerr EXCEPT ![j] = ~(files[ifFd] \in {"other", "std"})]
        BY <2>2 DEF DoReadStale, jsVars
      <3>2. \A i \in Writes : jerr'[i] = jerr[i]  BY <1>0, <1>1, <3>1
      <3>3. DOMAIN jerr' = Jobs  BY <1>1, <3>1
      <3> QED  BY <1>1, <1>2, <3>1, <3>2, <3>3, NotWriting
    <2> QED  BY <1>5, <2>1, <2>2 DEF ReadWorker
  <1>6. ASSUME NEW j \in Writes, SendData(j) \/ WriteWorker(j) PROVE WriteInv'
    <2>1. CASE SendData(j) \/ DoWriteChecks(j) \/ DoWriteEnds(j)
      BY <1>3, <2>1 DEF SendData, Enqueue, DoWriteChecks, DoWriteEnds, jobVars, jsVars
    <2>2. CASE DoWriteFails(j)
      <3>1. UNCHANGED <<written, boff, partial, out, told, stray>> /\ jpc[j] = "checked"
            /\ jerr' = [jerr EXCEPT ![j] = TRUE]
        BY <2>2 DEF DoWriteFails, jsVars
      <3>2. \A i \in Writes : jpc[i] = "done" => jerr'[i] = jerr[i]  BY <1>0, <1>1, <3>1
      <3>3. DOMAIN jerr' = Jobs  BY <1>1, <3>1
      <3> QED  BY <1>1, <1>2, <3>1, <3>2, <3>3, NotWriting
    <2>3. ASSUME NEW n \in 1..BufLen, DoWrite(j, n) PROVE WriteInv'  BY <1>1, <2>3, WriteTakes
    <2> QED  BY <1>6, <2>1, <2>2, <2>3 DEF WriteWorker
  <1>7. ASSUME NEW j \in Reads, PostRead(j) PROVE WriteInv'
    <2> DEFINE r == [len |-> IF got[j] = Nothing THEN 0 ELSE 1, data |-> got[j], err |-> jerr[j],
                     made |-> TRUE]
    <2>1. UNCHANGED <<written, boff, partial, out, jerr, stray>> /\ told' = [told EXCEPT ![j] = r]
      BY <1>7 DEF PostRead, jobVars
    <2>2. \A i \in Writes : told'[i] = told[i]  BY <1>0, <1>1, <2>1
    <2>3. DOMAIN told' = Jobs  BY <1>1, <2>1
    <2> QED  BY <1>1, <1>2, <2>1, <2>2, <2>3, NotWriting
  <1>8. ASSUME NEW j \in Writes, PostWrite(j) PROVE WriteInv'
    <2> DEFINE r == [len |-> ReportedLength(j), data |-> Nothing, err |-> jerr[j],
                     made |-> ~Unheard(j)]
    <2>1. UNCHANGED <<written, boff, partial, out, jerr, stray>> /\ told' = [told EXCEPT ![j] = r]
          /\ jpc' = [jpc EXCEPT ![j] = "done"]
      BY <1>8 DEF PostWrite, jobVars
    <2>2. \A i \in Writes : i # j => told'[i] = told[i]  BY <1>0, <1>1, <2>1
    <2>3. DOMAIN told' = Jobs /\ told'[j] = r  BY <1>0, <1>1, <2>1
    <2>4. told'[j].len = ReportedLength(j) /\ jpc'[j] = "done"  BY <1>0, <1>1, <2>1, <2>3 DEF Pool
    <2> QED  BY <1>1, <1>2, <2>1, <2>2, <2>3, <2>4, NotWriting
  <1> QED  BY <1>4, <1>5, <1>6, <1>7, <1>8 DEF Next, TunLoop

\* While a job has had at most one partial write(), the bytes do_write hands to the
\* device are those of the buffer, each once and in order.
THEOREM OutIsBufferAlways == TunSpec => []OutIsBuffer
  <1>1. WriteInv => OutIsBuffer
    <2> SUFFICES ASSUME WriteInv, NEW j \in Writes, ~stray, partial[j] <= 1
                 PROVE  out[j] = [i \in 1..Len(out[j]) |-> i]
      BY DEF OutIsBuffer
    <2>1. Bytes(j)  BY DEF WriteInv
    <2>2. out[j] \in Seq(Nat) /\ \A i \in 1..Len(out[j]) : out[j][i] = i  BY <2>1 DEF Bytes
    <2>3. out[j] \in [1..Len(out[j]) -> Nat]  BY <2>2, LenProperties
    <2> QED  BY <2>2, <2>3
  <1> QED  BY <1>1, InitWrite, NextWrite, PTL DEF TunSpec

\* post_write reports the number of bytes handed to the device, for a write that failed
\* after some of them too.
THEOREM ReportedIsWrittenAlways == TunSpec => []ReportedIsWritten
  <1>1. WriteInv => ReportedIsWritten
    <2> SUFFICES ASSUME WriteInv, NEW j \in Writes, told[j].made, ~stray, written[j] > 0 \/ jerr[j]
                 PROVE  told[j].len = Len(out[j])
      BY DEF ReportedIsWritten
    <2>1. Bytes(j) /\ written[j] \in Nat  BY DEF WriteInv
    <2>2. ReportedLength(j) = written[j]  BY <2>1 DEF ReportedLength
    <2> QED  BY <2>1, <2>2 DEF Bytes
  <1> QED  BY <1>1, InitWrite, NextWrite, PTL DEF TunSpec

-----------------------------------------------------------------------------
(* The order of the packets *)

\* What waits in the device came after all that has been taken from it.
DevOrder ==
    /\ \A i \in DOMAIN dev : dev[i] \in 1..arrived
    /\ \A i, k \in DOMAIN dev : i < k => dev[i] < dev[k]
    /\ \A j \in Reads, k \in DOMAIN dev : got[j] # Garbage => got[j] < dev[k]
    /\ \A i \in DOMAIN pushed, k \in DOMAIN dev : pushed[i] # Garbage => pushed[i] < dev[k]

\* No two reads have the same packet.
GotOnce ==
    \A j, k \in Reads : got[j] = got[k] /\ got[j] \notin {Nothing, Garbage} => j = k

\* The stream gets them in their order.
PushOrder ==
    /\ \A i \in DOMAIN pushed : pushed[i] \in 1..arrived \/ pushed[i] = Garbage
    /\ \A i, k \in DOMAIN pushed :
          i < k /\ pushed[i] # Garbage /\ pushed[k] # Garbage => pushed[i] < pushed[k]
    /\ reading # NoJob /\ got[reading] \notin {Nothing, Garbage} =>
          \A i \in DOMAIN pushed : pushed[i] # Garbage => pushed[i] < got[reading]

OrderTypes ==
    /\ arrived \in Nat /\ arrived <= MaxPackets
    /\ dev \in Seq(Nat) /\ pushed \in Seq(Nat)
    /\ reading \in Reads \cup {NoJob}
    /\ \A j \in Reads : got[j] \in 0..arrived \/ got[j] = Garbage

OrderInv == Pool /\ OrderTypes /\ DevOrder /\ GotOnce /\ PushOrder

\* What no read() put in a buffer is not taken for a packet.
LEMMA GarbageIsNone == OrderTypes => Garbage \in Nat /\ Garbage > arrived /\ Nothing = 0
  BY TunBoundsNat DEF OrderTypes, Garbage, Nothing

\* No packet has arrived at first.
LEMMA InitOrder == Init => OrderInv
  <1> SUFFICES ASSUME Init PROVE OrderInv  OBVIOUS
  <1>1. dev = <<>> /\ pushed = <<>> /\ arrived = 0 /\ reading = NoJob
        /\ \A j \in Reads : got[j] = Nothing
    BY DEF Init
  <1>2. OrderTypes  BY <1>1, TunBoundsNat DEF OrderTypes, Nothing
  <1>3. DevOrder  BY <1>1 DEF DevOrder
  <1>4. GotOnce  BY <1>1 DEF GotOnce
  <1>5. PushOrder  BY <1>1 DEF PushOrder
  <1> QED  BY <1>2, <1>3, <1>4, <1>5, InitPool DEF OrderInv

\* The device may lose its packets.
LEMMA DeviceLoses ==
    ASSUME OrderInv, Pool', UNCHANGED <<arrived, got, pushed>>, dev' = dev \/ dev' = <<>>,
           \/ UNCHANGED reading
           \/ reading = NoJob /\ reading' \in Reads /\ got[reading'] = Nothing
    PROVE  OrderInv'
  <1>1. OrderTypes'
    <2>1. dev \in Seq(Nat) /\ <<>> \in Seq(Nat)  BY EmptySeq DEF OrderInv, OrderTypes
    <2>2. dev' \in Seq(Nat)  BY <2>1
    <2> QED  BY <2>2 DEF OrderInv, OrderTypes
  <1>2. DevOrder'
    <2>1. CASE dev' = dev  BY <2>1 DEF OrderInv, DevOrder
    <2>2. CASE dev' = <<>>  BY <2>2 DEF DevOrder
    <2> QED  BY <2>1, <2>2
  <1>3. GotOnce'  BY DEF OrderInv, GotOnce
  <1>4. PushOrder'  BY DEF OrderInv, PushOrder
  <1> QED  BY <1>1, <1>2, <1>3, <1>4 DEF OrderInv

\* A read that takes no packet.
LEMMA ReadTakesNone ==
    ASSUME OrderInv, Pool', UNCHANGED <<arrived, dev, pushed, reading>>, NEW j \in Reads,
           NEW p \in {Nothing, Garbage}, got' = [got EXCEPT ![j] = p]
    PROVE  OrderInv'
  <1>0. Garbage \in Nat /\ Garbage > arrived /\ Nothing = 0  BY GarbageIsNone DEF OrderInv
  <1>1. got'[j] = p /\ \A i \in Reads : i # j => got'[i] = got[i]  BY DEF OrderInv, Pool
  <1>2. OrderTypes'  BY <1>0, <1>1 DEF OrderInv, OrderTypes
  <1>3. DevOrder'
    <2>1. \A i \in Reads, k \in DOMAIN dev : got'[i] # Garbage => got'[i] < dev[k]
      <3> SUFFICES ASSUME NEW i \in Reads, NEW k \in DOMAIN dev, got'[i] # Garbage
                   PROVE  got'[i] < dev[k]
        OBVIOUS
      <3>1. CASE i = j  BY <1>0, <1>1, <3>1 DEF OrderInv, DevOrder, OrderTypes
      <3>2. CASE i # j  BY <1>1, <3>2 DEF OrderInv, DevOrder
      <3> QED  BY <3>1, <3>2
    <2> QED  BY <2>1 DEF OrderInv, DevOrder
  <1>4. GotOnce'
    <2> SUFFICES ASSUME NEW i \in Reads, NEW k \in Reads, got'[i] = got'[k],
                        got'[i] \notin {Nothing, Garbage}
                 PROVE  i = k
      BY DEF GotOnce
    <2>1. i # j /\ k # j  BY <1>1
    <2>2. got'[i] = got[i] /\ got'[k] = got[k]  BY <1>1, <2>1
    <2> QED  BY <2>2 DEF OrderInv, GotOnce
  <1>5. PushOrder'
    <2>1. reading # NoJob => reading \in Reads  BY DEF OrderInv, OrderTypes
    <2> QED  BY <1>1, <2>1 DEF OrderInv, PushOrder
  <1> QED  BY <1>2, <1>3, <1>4, <1>5 DEF OrderInv

\* read() returns the oldest packet, the device keeps the rest or goes away.
LEMMA ReadTakesOldest ==
    ASSUME OrderInv, Pool', UNCHANGED <<arrived, pushed, reading>>, NEW j \in Reads,
           dev # <<>>, got' = [got EXCEPT ![j] = Head(dev)], dev' = Tail(dev) \/ dev' = <<>>
    PROVE  OrderInv'
  <1> DEFINE p == Head(dev)
  <1>0. Garbage \in Nat /\ Garbage > arrived /\ Nothing = 0 /\ arrived \in Nat
    BY GarbageIsNone DEF OrderInv, OrderTypes
  <1>1. got'[j] = p /\ \A i \in Reads : i # j => got'[i] = got[i]  BY DEF OrderInv, Pool
  <1>2. 1 \in DOMAIN dev /\ p = dev[1] /\ dev \in Seq(Nat) /\ Tail(dev) \in Seq(Nat)
        /\ \A i \in DOMAIN Tail(dev) : i + 1 \in DOMAIN dev /\ Tail(dev)[i] = dev[i + 1]
    BY TailFresh DEF OrderInv, OrderTypes
  <1>3. DOMAIN Tail(dev) = 1..Len(Tail(dev)) /\ Len(Tail(dev)) \in Nat  BY <1>2, LenProperties
  <1>4. dev' \in Seq(Nat) /\ \A i \in DOMAIN dev' : i \in Nat /\ i >= 1 /\ i + 1 \in DOMAIN dev
                                                    /\ dev'[i] = dev[i + 1]
    <2>1. CASE dev' = <<>>  BY <2>1
    <2>2. CASE dev' = Tail(dev)  BY <1>2, <1>3, <2>2
    <2> QED  BY <2>1, <2>2
  <1>5. p \in 1..arrived /\ p # Garbage /\ p # Nothing  BY <1>0, <1>2 DEF OrderInv, DevOrder
  <1>6. \A i \in Reads : got[i] # Garbage => got[i] < p  BY <1>2 DEF OrderInv, DevOrder
  <1>7. \A i \in DOMAIN pushed : pushed[i] # Garbage => pushed[i] < p  BY <1>2 DEF OrderInv, DevOrder
  <1>8. \A i \in DOMAIN dev' : p < dev'[i] /\ dev'[i] \in 1..arrived
    BY <1>2, <1>4 DEF OrderInv, DevOrder
  <1> HIDE DEF p
  <1>9. OrderTypes'  BY <1>1, <1>4, <1>5 DEF OrderInv, OrderTypes
  <1>10. DevOrder'
    <2>1. ASSUME NEW i \in DOMAIN dev', NEW k \in DOMAIN dev', i < k PROVE dev'[i] < dev'[k]
      <3>1. i + 1 < k + 1  BY <1>4, <2>1
      <3> QED  BY <1>4, <3>1 DEF OrderInv, DevOrder
    <2>2. ASSUME NEW i \in Reads, NEW k \in DOMAIN dev', got'[i] # Garbage PROVE got'[i] < dev'[k]
      <3>1. CASE i = j  BY <1>1, <1>8, <3>1
      <3>2. CASE i # j  BY <1>1, <1>4, <2>2, <3>2 DEF OrderInv, DevOrder
      <3> QED  BY <3>1, <3>2
    <2>3. ASSUME NEW i \in DOMAIN pushed, NEW k \in DOMAIN dev', pushed[i] # Garbage
          PROVE  pushed[i] < dev'[k]
      BY <1>4, <2>3 DEF OrderInv, DevOrder
    <2> QED  BY <1>8, <2>1, <2>2, <2>3 DEF DevOrder
  <1>11. GotOnce'
    <2> SUFFICES ASSUME NEW i \in Reads, NEW k \in Reads, got'[i] = got'[k],
                        got'[i] \notin {Nothing, Garbage}
                 PROVE  i = k
      BY DEF GotOnce
    <2>1. \A h \in Reads : h # j => got'[h] # p
      <3> TAKE h \in Reads
      <3>1. got[h] # p
        <4>1. got[h] \in Nat  BY <1>0 DEF OrderInv, OrderTypes
        <4> QED  BY <1>0, <1>5, <1>6, <4>1
      <3> QED  BY <1>1, <3>1
    <2> QED  BY <1>1, <2>1 DEF OrderInv, GotOnce
  <1>12. PushOrder'
    <2>1. reading # NoJob => reading \in Reads  BY DEF OrderInv, OrderTypes
    <2> QED  BY <1>1, <1>7, <2>1 DEF OrderInv, PushOrder
  <1> QED  BY <1>9, <1>10, <1>11, <1>12 DEF OrderInv

\* A new packet is the last.
LEMMA PacketIsLast == ASSUME OrderInv, Pool', PacketArrives PROVE OrderInv'
  <1>0. Garbage \in Nat /\ Garbage > arrived /\ Nothing = 0 /\ arrived \in Nat
    BY GarbageIsNone DEF OrderInv, OrderTypes
  <1> DEFINE p == arrived + 1
  <1>1. arrived < MaxPackets /\ arrived' = p /\ dev' = Append(dev, p)
        /\ UNCHANGED <<got, pushed, reading>>
    BY DEF PacketArrives, jobVars, jsVars
  <1>2. dev \in Seq(Nat) /\ p \in Nat  BY <1>0 DEF OrderInv, OrderTypes
  <1>3. dev' \in Seq(Nat) /\ \A i \in DOMAIN dev' : dev'[i] = p \/ (i \in DOMAIN dev /\ dev'[i] = dev[i])
    BY <1>1, <1>2, AppendFresh
  <1>4. /\ DOMAIN dev' = 1..(Len(dev) + 1) /\ DOMAIN dev = 1..Len(dev) /\ Len(dev) \in Nat
        /\ dev'[Len(dev) + 1] = p /\ \A i \in 1..Len(dev) : dev'[i] = dev[i]
    BY <1>1, <1>2, AppendProperties, LenProperties
  <1>5. OrderTypes'
    BY <1>0, <1>1, <1>3, TunBoundsNat DEF OrderInv, OrderTypes
  <1>6. DevOrder'
    <2>1. \A i \in DOMAIN dev' : dev'[i] \in 1..arrived'
      BY <1>0, <1>1, <1>3 DEF OrderInv, DevOrder
    <2>2. ASSUME NEW i \in DOMAIN dev', NEW k \in DOMAIN dev', i < k PROVE dev'[i] < dev'[k]
      <3>1. i \in DOMAIN dev /\ dev'[i] = dev[i] /\ dev[i] \in 1..arrived
        BY <1>4, <2>2 DEF OrderInv, DevOrder
      <3>2. CASE k = Len(dev) + 1  BY <1>0, <1>4, <3>1, <3>2
      <3>3. CASE k # Len(dev) + 1
        <4>1. k \in DOMAIN dev /\ dev'[k] = dev[k]  BY <1>4, <3>3
        <4> QED  BY <2>2, <3>1, <4>1 DEF OrderInv, DevOrder
      <3> QED  BY <3>2, <3>3
    <2>3. ASSUME NEW i \in Reads, NEW k \in DOMAIN dev', got'[i] # Garbage PROVE got'[i] < dev'[k]
      <3>1. got[i] \in 0..arrived  BY <1>1, <2>3 DEF OrderInv, OrderTypes
      <3>2. got[i] < p  BY <1>0, <3>1
      <3> QED  BY <1>1, <1>3, <2>3, <3>2 DEF OrderInv, DevOrder
    <2>4. ASSUME NEW i \in DOMAIN pushed', NEW k \in DOMAIN dev', pushed'[i] # Garbage
          PROVE  pushed'[i] < dev'[k]
      <3>1. pushed[i] \in 1..arrived  BY <1>1, <2>4 DEF OrderInv, PushOrder
      <3>2. pushed[i] < p  BY <1>0, <3>1
      <3> QED  BY <1>1, <1>3, <2>4, <3>2 DEF OrderInv, DevOrder
    <2> QED  BY <2>1, <2>2, <2>3, <2>4 DEF DevOrder
  <1>7. GotOnce'  BY <1>1 DEF OrderInv, GotOnce
  <1>8. PushOrder'  BY <1>0, <1>1 DEF OrderInv, PushOrder
  <1> QED  BY <1>5, <1>6, <1>7, <1>8 DEF OrderInv

\* The callback of a read pushes what its job got.
LEMMA PushKeepsOrder == ASSUME OrderInv, Pool', NEW j \in Reads, PostRead(j) PROVE OrderInv'
  <1>0. Garbage \in Nat /\ Garbage > arrived /\ Nothing = 0 /\ arrived \in Nat
    BY GarbageIsNone DEF OrderInv, OrderTypes
  <1>1. UNCHANGED <<arrived, dev, got>>  BY DEF PostRead, devVars, jobVars
  <1>2. CASE UNCHANGED <<pushed, reading>>  BY <1>1, <1>2, DeviceLoses
  <1>3. CASE reading = j /\ Pushed(j) # <<>> /\ pushed' = pushed \o Pushed(j) /\ reading' = NoJob
    <2>1. got[j] # Nothing /\ Pushed(j) = <<got[j]>>  BY <1>3 DEF Pushed
    <2>2. got[j] \in Nat /\ (got[j] # Garbage => got[j] \in 1..arrived)
      BY <1>0, <2>1 DEF OrderInv, OrderTypes
    <2>3. pushed \in Seq(Nat)  BY DEF OrderInv, OrderTypes
    <2>4. pushed' = Append(pushed, got[j])
      <3>1. \A s \in Seq(Nat), e \in Nat : s \o <<e>> = Append(s, e)  OBVIOUS
      <3> QED  BY <1>3, <2>1, <2>2, <2>3, <3>1
    <2>5. pushed' \in Seq(Nat)
          /\ \A i \in DOMAIN pushed' : pushed'[i] = got[j] \/ (i \in DOMAIN pushed /\ pushed'[i] = pushed[i])
      BY <2>2, <2>3, <2>4, AppendFresh
    <2>6. /\ DOMAIN pushed' = 1..(Len(pushed) + 1) /\ DOMAIN pushed = 1..Len(pushed)
          /\ Len(pushed) \in Nat
          /\ pushed'[Len(pushed) + 1] = got[j] /\ \A i \in 1..Len(pushed) : pushed'[i] = pushed[i]
      BY <2>2, <2>3, <2>4, AppendProperties, LenProperties
    <2>7. OrderTypes'  BY <1>1, <1>3, <2>5 DEF OrderInv, OrderTypes
    <2>8. DevOrder'
      <3>1. ASSUME NEW i \in DOMAIN pushed', NEW k \in DOMAIN dev, pushed'[i] # Garbage
            PROVE  pushed'[i] < dev[k]
        BY <2>5, <3>1 DEF OrderInv, DevOrder
      <3> QED  BY <1>1, <3>1 DEF OrderInv, DevOrder
    <2>9. GotOnce'  BY <1>1 DEF OrderInv, GotOnce
    <2>10. PushOrder'
      <3>1. \A i \in DOMAIN pushed' : pushed'[i] \in 1..arrived' \/ pushed'[i] = Garbage
        BY <1>1, <2>2, <2>5 DEF OrderInv, PushOrder
      <3>2. j # NoJob  BY JobsDisjoint DEF Jobs
      <3>3. \A i \in DOMAIN pushed : pushed[i] # Garbage /\ got[j] # Garbage => pushed[i] < got[j]
        BY <1>3, <2>1, <3>2 DEF OrderInv, PushOrder
      <3>4. ASSUME NEW i \in DOMAIN pushed', NEW k \in DOMAIN pushed', i < k,
                   pushed'[i] # Garbage, pushed'[k] # Garbage
            PROVE  pushed'[i] < pushed'[k]
        <4>1. i \in DOMAIN pushed /\ pushed'[i] = pushed[i]  BY <2>6, <3>4
        <4>2. CASE k = Len(pushed) + 1  BY <2>6, <3>3, <3>4, <4>1, <4>2
        <4>3. CASE k # Len(pushed) + 1
          <5>1. k \in DOMAIN pushed /\ pushed'[k] = pushed[k]  BY <2>6, <4>3
          <5> QED  BY <3>4, <4>1, <5>1 DEF OrderInv, PushOrder
        <4> QED  BY <4>2, <4>3
      <3> QED  BY <1>3, <3>1, <3>4 DEF PushOrder
    <2> QED  BY <2>7, <2>8, <2>9, <2>10 DEF OrderInv
  <1> QED  BY <1>2, <1>3 DEF PostRead

\* Every step keeps the order.
LEMMA NextOrder == OrderInv /\ [Next]_tunVars => OrderInv'
  <1> SUFFICES ASSUME OrderInv, [Next]_tunVars PROVE OrderInv'  OBVIOUS
  <1>1. Pool /\ Pool'  BY NextPool DEF OrderInv
  <1>2. ASSUME UNCHANGED <<arrived, got, pushed, reading>>, dev' = dev \/ dev' = <<>> PROVE OrderInv'
    BY <1>1, <1>2, DeviceLoses
  <1>3. \A fs, sl, ps : DeviceAfter(fs, sl, ps) = ps \/ DeviceAfter(fs, sl, ps) = <<>>
    BY DEF DeviceAfter
  <1>4. CASE Create
    <2>1. UNCHANGED <<arrived, got, pushed, reading>>  BY <1>4 DEF Create, jobVars, jsVars
    <2>2. dev' = dev \/ dev' = <<>>
      BY <1>3, <1>4 DEF Create, CreateOpenFails, CreateIoctlFails, CreateSucceeds
    <2> QED  BY <1>2, <2>1, <2>2
  <1>5. CASE Close
    <2>1. UNCHANGED <<arrived, got, pushed, reading>>  BY <1>5 DEF Close, jobVars, jsVars
    <2>2. dev' = dev \/ dev' = <<>>  BY <1>3, <1>5 DEF Close
    <2> QED  BY <1>2, <2>1, <2>2
  <1>6. CASE Open \/ OtherOpens \/ WorkerStarts \/ UNCHANGED tunVars
    <2>1. UNCHANGED <<arrived, dev, got, pushed, reading>>
      BY <1>6 DEF Open, OtherOpens, WorkerStarts, tunVars, devVars, jobVars, jsVars
    <2> QED  BY <1>2, <2>1
  <1>7. CASE PacketArrives  BY <1>1, <1>7, PacketIsLast
  <1>8. ASSUME NEW j \in Reads, GetData(j) \/ StreamRead(j) \/ ReadWorker(j) PROVE OrderInv'
    <2>1. CASE GetData(j) \/ DoReadChecks(j) \/ DoRead(j)
      <3>1. UNCHANGED <<arrived, dev, got, pushed, reading>>
        BY <2>1 DEF GetData, Enqueue, DoReadChecks, DoRead, devVars, jobVars, jsVars
      <3> QED  BY <1>2, <3>1
    <2>2. CASE StreamRead(j)
      <3>1. UNCHANGED <<arrived, dev, got, pushed>> /\ reading = NoJob /\ reading' = j /\ jpc[j] = "idle"
        BY <2>2 DEF StreamRead, Enqueue, devVars, jobVars
      <3>2. got[j] = Nothing  BY <1>1, <3>1 DEF Pool
      <3> QED  BY <1>1, <3>1, <3>2, DeviceLoses
    <2>3. CASE DoReadUnopened(j)
      <3>1. UNCHANGED <<arrived, dev, pushed, reading>> /\ got' = [got EXCEPT ![j] = Garbage]
        BY <2>3 DEF DoReadUnopened, devVars, jsVars
      <3> QED  BY <1>1, <3>1, ReadTakesNone
    <2>4. CASE DoReadStale(j)
      <3>1. UNCHANGED <<arrived, dev, pushed, reading>>
            /\ \E p \in {Nothing, Garbage} : got' = [got EXCEPT ![j] = p]
        BY <2>4 DEF DoReadStale, devVars, jsVars
      <3> QED  BY <1>1, <3>1, ReadTakesNone
    <2>5. CASE ReadReturns(j)
      <3>1. UNCHANGED <<arrived, pushed, reading>> /\ dev # <<>> /\ got' = [got EXCEPT ![j] = Head(dev)]
            /\ (dev' = Tail(dev) \/ dev' = <<>>)
        BY <1>3, <2>5 DEF ReadReturns, jsVars
      <3> QED  BY <1>1, <3>1, ReadTakesOldest
    <2> QED  BY <1>8, <2>1, <2>2, <2>3, <2>4, <2>5 DEF ReadWorker
  <1>9. ASSUME NEW j \in Writes, SendData(j) \/ WriteWorker(j) \/ PostWrite(j) PROVE OrderInv'
    <2>1. UNCHANGED <<arrived, dev, got, pushed, reading>>
      BY <1>9 DEF SendData, Enqueue, WriteWorker, DoWriteChecks, DoWriteFails, DoWriteEnds, DoWrite,
         PostWrite, devVars, jobVars, jsVars
    <2> QED  BY <1>2, <2>1
  <1>10. ASSUME NEW j \in Reads, PostRead(j) PROVE OrderInv'  BY <1>1, <1>10, PushKeepsOrder
  <1> QED  BY <1>4, <1>5, <1>6, <1>7, <1>8, <1>9, <1>10 DEF Next, TunLoop

\* The stream gets the packets of the device in the order of their arrival, whatever
\* reads JavaScript makes beside it and however often the device is closed and created.
THEOREM StreamInOrderAlways == TunSpec => []StreamInOrder
  <1>1. OrderInv => StreamInOrder
    <2> SUFFICES ASSUME OrderInv PROVE StreamInOrder  OBVIOUS
    <2> DEFINE held == IF reading # NoJob /\ got[reading] # Nothing THEN <<got[reading]>> ELSE <<>>
               front == pushed \o held
               all == front \o dev
    <2>0. Garbage \in Nat /\ Garbage > arrived /\ arrived \in Nat /\ dev \in Seq(Nat) /\ pushed \in Seq(Nat)
      BY GarbageIsNone DEF OrderInv, OrderTypes
    <2>1. reading # NoJob => reading \in Reads /\ got[reading] \in Nat
      BY <2>0 DEF OrderInv, OrderTypes
    <2>2. held \in Seq(Nat) /\ DOMAIN held = 1..Len(held) /\ Len(held) \in {0, 1}
          /\ \A i \in DOMAIN held : i = 1 /\ reading # NoJob /\ got[reading] # Nothing /\ held[i] = got[reading]
      <3>1. CASE reading # NoJob /\ got[reading] # Nothing  BY <2>1, <3>1
      <3>2. CASE ~(reading # NoJob /\ got[reading] # Nothing)  BY <3>2
      <3> QED  BY <3>1, <3>2
    <2> HIDE DEF held
    <2>3. \A s, t \in Seq(Nat) :
             /\ s \o t \in Seq(Nat) /\ Len(s \o t) = Len(s) + Len(t)
             /\ \A i \in 1..(Len(s) + Len(t)) :
                   (s \o t)[i] = IF i <= Len(s) THEN s[i] ELSE t[i - Len(s)]
      BY ConcatProperties
    <2>4. \A s \in Seq(Nat) : DOMAIN s = 1..Len(s) /\ Len(s) \in Nat  BY LenProperties
    <2>5. /\ front \in Seq(Nat) /\ Len(front) = Len(pushed) + Len(held)
          /\ \A i \in 1..(Len(pushed) + Len(held)) :
                front[i] = IF i <= Len(pushed) THEN pushed[i] ELSE held[i - Len(pushed)]
      BY <2>0, <2>2, <2>3
    <2> HIDE DEF front
    <2>6. /\ all \in Seq(Nat) /\ Len(all) = Len(front) + Len(dev)
          /\ \A i \in 1..(Len(front) + Len(dev)) :
                all[i] = IF i <= Len(front) THEN front[i] ELSE dev[i - Len(front)]
      BY <2>0, <2>3, <2>5
    <2> HIDE DEF all
    <2>10. /\ Len(pushed) \in Nat /\ Len(held) \in Nat /\ Len(dev) \in Nat /\ Len(front) \in Nat
           /\ DOMAIN pushed = 1..Len(pushed) /\ DOMAIN held = 1..Len(held) /\ DOMAIN dev = 1..Len(dev)
           /\ DOMAIN front = 1..(Len(pushed) + Len(held)) /\ DOMAIN all = 1..(Len(front) + Len(dev))
      BY <2>0, <2>2, <2>4, <2>5, <2>6
    <2>11. \A i \in DOMAIN front :
              IF i <= Len(pushed)
              THEN i \in DOMAIN pushed /\ front[i] = pushed[i]
              ELSE i - Len(pushed) \in DOMAIN held /\ front[i] = held[i - Len(pushed)]
      BY <2>5, <2>10
    <2>12. \A i \in DOMAIN all :
              IF i <= Len(front)
              THEN i \in DOMAIN front /\ all[i] = front[i]
              ELSE i - Len(front) \in DOMAIN dev /\ all[i] = dev[i - Len(front)]
      BY <2>5, <2>6, <2>10
    <2>7. ASSUME NEW i \in DOMAIN front, NEW k \in DOMAIN front, i < k, front[i] # Garbage,
                 front[k] # Garbage
          PROVE  front[i] < front[k]
      <3>1. i \in DOMAIN pushed /\ front[i] = pushed[i]  BY <2>2, <2>7, <2>10, <2>11
      <3>2. CASE k <= Len(pushed)
        <4>1. k \in DOMAIN pushed /\ front[k] = pushed[k]  BY <2>11, <3>2
        <4> QED  BY <2>7, <3>1, <4>1 DEF OrderInv, PushOrder
      <3>3. CASE ~(k <= Len(pushed))
        <4>1. k - Len(pushed) \in DOMAIN held /\ front[k] = held[k - Len(pushed)]
          BY <2>11, <3>3
        <4>2. reading # NoJob /\ got[reading] \notin {Nothing, Garbage} /\ front[k] = got[reading]
          BY <2>2, <2>7, <4>1
        <4> QED  BY <2>7, <3>1, <4>2 DEF OrderInv, PushOrder
      <3> QED  BY <3>2, <3>3
    <2>8. ASSUME NEW i \in DOMAIN front, NEW k \in DOMAIN dev, front[i] # Garbage PROVE front[i] < dev[k]
      <3>1. CASE i <= Len(pushed)
        <4>1. i \in DOMAIN pushed /\ front[i] = pushed[i]  BY <2>11, <3>1
        <4> QED  BY <2>8, <4>1 DEF OrderInv, DevOrder
      <3>2. CASE ~(i <= Len(pushed))
        <4>1. i - Len(pushed) \in DOMAIN held /\ front[i] = held[i - Len(pushed)]
          BY <2>11, <3>2
        <4>2. reading \in Reads /\ front[i] = got[reading]  BY <2>1, <2>2, <4>1
        <4> QED  BY <2>8, <4>2 DEF OrderInv, DevOrder
      <3> QED  BY <3>1, <3>2
    <2>9. ASSUME NEW i \in DOMAIN all, NEW k \in DOMAIN all, i < k, all[i] # Garbage, all[k] # Garbage
          PROVE  all[i] < all[k]
      <3>1. CASE k <= Len(front)
        <4>1. i \in DOMAIN front /\ k \in DOMAIN front /\ all[i] = front[i] /\ all[k] = front[k]
          BY <2>9, <2>10, <2>12, <3>1
        <4> QED  BY <2>7, <2>9, <4>1
      <3>2. CASE i <= Len(front) /\ ~(k <= Len(front))
        <4>1. i \in DOMAIN front /\ all[i] = front[i] /\ k - Len(front) \in DOMAIN dev
              /\ all[k] = dev[k - Len(front)]
          BY <2>9, <2>10, <2>12, <3>2
        <4> QED  BY <2>8, <2>9, <4>1
      <3>3. CASE ~(i <= Len(front))
        <4>1. /\ i - Len(front) \in DOMAIN dev /\ all[i] = dev[i - Len(front)]
              /\ k - Len(front) \in DOMAIN dev /\ all[k] = dev[k - Len(front)]
              /\ i - Len(front) < k - Len(front)
          BY <2>9, <2>10, <2>12, <3>3
        <4> QED  BY <4>1 DEF OrderInv, DevOrder
      <3> QED  BY <2>9, <2>10, <3>1, <3>2, <3>3
    <2> QED  BY <2>9 DEF StreamInOrder, all, front, held
  <1> QED  BY <1>1, InitOrder, NextOrder, PTL DEF TunSpec

-----------------------------------------------------------------------------
(* Where the packets of the first device are *)

\* A packet waits in the device or a read has it.
Kept(p) == (\E j \in Reads : got[j] = p) \/ (\E i \in DOMAIN dev : dev[i] = p)

HasTun == \E f \in Descriptors : files[f] = "tun"

Origin ==
    /\ DOMAIN files = Descriptors /\ ifFd \in Descriptors /\ creates \in Nat
    /\ creates = 0 => ~DeviceExists /\ arrived = 0
    /\ creates = 1 /\ DeviceExists => \A p \in 1..arrived : Kept(p)

OnceInv == OrderInv /\ Origin

\* There is no device at first.
LEMMA InitOnce == Init => OnceInv
  <1> SUFFICES ASSUME Init PROVE Origin  BY InitOrder DEF OnceInv
  <1>1. \A f \in Descriptors : files[f] # "tun"  BY DEF Init
  <1>2. Sleeping = {}  BY DEF Init, Sleeping, Jobs
  <1>3. ~DeviceExists  BY <1>1, <1>2 DEF DeviceExists
  <1>4. 0 \in Descriptors  BY TunBoundsNat DEF Descriptors
  <1> QED  BY <1>3, <1>4 DEF Origin, Init

\* A device comes from create() alone: another step that loses no packet of a device
\* that is still there keeps track of them.
LEMMA NoNewDevice ==
    ASSUME OnceInv, OrderInv', UNCHANGED <<creates, arrived, ifFd>>, DOMAIN files' = Descriptors,
           \A f \in Descriptors : files'[f] = "tun" => files[f] = "tun",
           \A j \in Reads : jpc'[j] = "reading" => jpc[j] = "reading" \/ HasTun,
           DeviceExists' => \A p \in 1..arrived : Kept(p) => Kept(p)'
    PROVE  OnceInv'
  <1>1. DeviceExists' => DeviceExists
    <2>1. ASSUME HasTun' PROVE DeviceExists  BY <2>1 DEF HasTun, DeviceExists, Descriptors
    <2>2. ASSUME NEW j \in Reads, jpc'[j] = "reading" PROVE DeviceExists
      BY <2>2 DEF HasTun, DeviceExists, Sleeping
    <2> QED  BY <2>1, <2>2 DEF DeviceExists, Sleeping, HasTun, Descriptors
  <1> QED  BY <1>1 DEF OnceInv, Origin

\* create() does not lose packets of the first device: there were none before it.
LEMMA CreateOrigin == ASSUME OnceInv, OrderInv', Create PROVE OnceInv'
  <1>1. creates \in Nat /\ creates' = creates + 1 /\ arrived' = arrived /\ 0 \in Descriptors
        /\ DOMAIN files = Descriptors
    BY TunBoundsNat DEF OnceInv, Origin, Create, Descriptors
  <1>2. FreeFds # {} => Min(FreeFds) \in Descriptors
    <2>1. FreeFds \in SUBSET Nat /\ FreeFds \subseteq Descriptors  BY DEF FreeFds, Descriptors
    <2> QED  BY <2>1, MinInSet
  <1>3. DOMAIN files' = Descriptors /\ ifFd' \in Descriptors
    BY <1>1, <1>2 DEF Create, CreateOpenFails, CreateIoctlFails, CreateSucceeds
  <1>4. creates' # 0 /\ (creates' = 1 => arrived' = 0)  BY <1>1 DEF OnceInv, Origin
  <1> QED  BY <1>1, <1>3, <1>4 DEF OnceInv, Origin

\* Every step knows where the packets are.
LEMMA NextOnce == OnceInv /\ [Next]_tunVars => OnceInv'
  <1> SUFFICES ASSUME OnceInv, [Next]_tunVars PROVE OnceInv'  OBVIOUS
  <1>1. OrderInv' /\ Pool /\ Reads \subseteq Jobs /\ DOMAIN jpc = Jobs /\ DOMAIN got = Reads
    BY NextOrder DEF OnceInv, OrderInv, Pool, Jobs
  <1>2. DOMAIN files = Descriptors /\ ifFd \in Descriptors  BY DEF OnceInv, Origin
  <1>3. ASSUME UNCHANGED <<creates, arrived, ifFd, files, dev, got>>,
               \A j \in Reads : jpc'[j] = "reading" => jpc[j] = "reading" \/ HasTun
        PROVE  OnceInv'
    <2>1. \A p : Kept(p) => Kept(p)'  BY <1>3 DEF Kept
    <2> QED  BY <1>1, <1>2, <1>3, <2>1, NoNewDevice
  <1>4. CASE Create  BY <1>1, <1>4, CreateOrigin
  <1>5. CASE Close
    <2>1. UNCHANGED <<creates, arrived, ifFd, jpc, got>>  BY <1>5 DEF Close, jobVars
    <2>2. CASE files' = [files EXCEPT ![ifFd] = "free"] /\ dev' = DeviceAfter(files', Sleeping, dev)
      <3>1. DOMAIN files' = Descriptors /\ \A f \in Descriptors : files'[f] = "tun" => files[f] = "tun"
        BY <1>2, <2>2
      <3>2. DeviceExists' => dev' = dev
        <4>1. Sleeping' = Sleeping  BY <2>1 DEF Sleeping
        <4> QED  BY <2>2, <4>1 DEF DeviceExists, DeviceAfter, Descriptors
      <3>3. DeviceExists' => \A p \in 1..arrived : Kept(p) => Kept(p)'  BY <2>1, <3>2 DEF Kept
      <3> QED  BY <1>1, <2>1, <3>1, <3>3, NoNewDevice
    <2>3. CASE UNCHANGED <<files, dev>>  BY <1>3, <2>1, <2>3
    <2> QED  BY <1>5, <2>2, <2>3 DEF Close
  <1>6. CASE Open \/ UNCHANGED tunVars
    <2>1. UNCHANGED <<creates, arrived, ifFd, files, dev, got, jpc>>
      BY <1>6 DEF Open, tunVars, devVars, ifVars, jobVars
    <2> QED  BY <1>3, <2>1
  <1>7. CASE OtherOpens
    <2>1. UNCHANGED <<creates, arrived, ifFd, dev, got, jpc>>
          /\ files' = [files EXCEPT ![Min(FreeFds)] = "other"]
      BY <1>7 DEF OtherOpens, ifVars, jobVars
    <2>2. DOMAIN files' = Descriptors /\ \A f \in Descriptors : files'[f] = "tun" => files[f] = "tun"
      BY <1>2, <2>1
    <2>3. \A p : Kept(p) => Kept(p)'  BY <2>1 DEF Kept
    <2> QED  BY <1>1, <2>1, <2>2, <2>3, NoNewDevice
  <1>8. CASE PacketArrives
    <2>1. UNCHANGED <<creates, ifFd, files, got, jpc>> /\ DeviceExists /\ arrived' = arrived + 1
          /\ dev' = Append(dev, arrived + 1)
      BY <1>8 DEF PacketArrives, ifVars, jobVars
    <2>2. dev \in Seq(Nat) /\ arrived \in Nat  BY DEF OnceInv, OrderInv, OrderTypes
    <2>3. /\ DOMAIN dev' = 1..(Len(dev) + 1) /\ DOMAIN dev = 1..Len(dev) /\ Len(dev) \in Nat
          /\ dev'[Len(dev) + 1] = arrived + 1 /\ \A i \in 1..Len(dev) : dev'[i] = dev[i]
      <3>1. arrived + 1 \in Nat  BY <2>2
      <3> QED  BY <2>1, <2>2, <3>1, AppendProperties, LenProperties
    <2>4. Kept(arrived)'
      <3>1. Len(dev) + 1 \in DOMAIN dev'  BY <2>3
      <3> QED  BY <2>1, <2>2, <2>3, <3>1 DEF Kept
    <2>5. \A p : Kept(p) => Kept(p)'
      <3>1. DOMAIN dev \subseteq DOMAIN dev'  BY <2>3
      <3> QED  BY <2>1, <2>3, <3>1 DEF Kept
    <2>6. creates = 1 => \A p \in 1..arrived' : Kept(p)'
      <3>1. creates = 1 => \A p \in 1..arrived : Kept(p)  BY <2>1 DEF OnceInv, Origin
      <3>2. \A p \in 1..arrived' : p \in 1..arrived \/ p = arrived'  BY <2>1, <2>2
      <3> QED  BY <2>4, <2>5, <3>1, <3>2
    <2>7. creates # 0  BY <2>1 DEF OnceInv, Origin
    <2> QED  BY <1>1, <1>2, <2>1, <2>6, <2>7 DEF OnceInv, Origin
  <1>9. CASE WorkerStarts
    <2>1. UNCHANGED <<creates, arrived, ifFd, files, dev, got>>
          /\ jpc' = [jpc EXCEPT ![Head(queue)] = "running"]
      BY <1>9 DEF WorkerStarts, devVars, ifVars, jobVars
    <2>2. \A j \in Reads : jpc'[j] = "reading" => jpc[j] = "reading"  BY <1>1, <2>1
    <2> QED  BY <1>3, <2>1, <2>2
  <1>10. ASSUME NEW j \in Jobs, NEW to \in {"queued", "checked", "posted", "done"},
                jpc' = [jpc EXCEPT ![j] = to]
         PROVE  \A i \in Reads : jpc'[i] = "reading" => jpc[i] = "reading"
    BY <1>1, <1>10
  <1>11. ASSUME NEW j \in Reads, GetData(j) \/ StreamRead(j) \/ ReadWorker(j) \/ PostRead(j)
         PROVE  OnceInv'
    <2>0. j \in Jobs  BY <1>1
    <2>1. CASE GetData(j) \/ StreamRead(j) \/ DoReadChecks(j) \/ PostRead(j)
      <3>1. UNCHANGED <<creates, arrived, ifFd, files, dev, got>>
        BY <2>1 DEF GetData, StreamRead, Enqueue, DoReadChecks, PostRead, devVars, ifVars, jobVars
      <3>2. \E to \in {"queued", "checked", "posted", "done"} : jpc' = [jpc EXCEPT ![j] = to]
        BY <2>1 DEF GetData, StreamRead, Enqueue, DoReadChecks, PostRead
      <3> QED  BY <1>3, <1>10, <2>0, <3>1, <3>2
    <2>2. CASE DoRead(j)
      <3>1. UNCHANGED <<creates, arrived, ifFd, files, dev, got>> /\ HasTun
        BY <1>2, <2>2 DEF DoRead, HasTun, devVars, ifVars, jobVars
      <3> QED  BY <1>3, <3>1
    <2>3. CASE DoReadUnopened(j) \/ DoReadStale(j)
      <3>1. UNCHANGED <<creates, arrived, ifFd, files, dev>> /\ jpc[j] \notin {"posted", "done"}
            /\ jpc' = [jpc EXCEPT ![j] = "posted"] /\ \E p : got' = [got EXCEPT ![j] = p]
        BY <2>3 DEF DoReadUnopened, DoReadStale, Finish, devVars, ifVars
      <3>2. got[j] = Nothing /\ \A i \in Reads : i # j => got'[i] = got[i]  BY <1>1, <3>1 DEF Pool
      <3>3. \A p \in 1..arrived : Kept(p) => Kept(p)'
        <4>1. \A p \in 1..arrived : p # Nothing  BY DEF Nothing
        <4> QED  BY <3>1, <3>2, <4>1 DEF Kept
      <3>4. \A i \in Reads : jpc'[i] = "reading" => jpc[i] = "reading"  BY <1>10, <2>0, <3>1
      <3>5. DeviceExists' => \A p \in 1..arrived : Kept(p) => Kept(p)'  BY <3>3
      <3>6. UNCHANGED <<creates, arrived, ifFd, files>>  BY <3>1
      <3>7. DOMAIN files' = Descriptors /\ \A f \in Descriptors : files'[f] = "tun" => files[f] = "tun"
        BY <1>2, <3>1
      <3> QED  BY <1>1, <3>4, <3>5, <3>6, <3>7, NoNewDevice
    <2>4. CASE ReadReturns(j)
      <3>1. UNCHANGED <<creates, arrived, ifFd, files>> /\ jpc[j] = "reading" /\ dev # <<>>
            /\ jpc' = [jpc EXCEPT ![j] = "posted"] /\ got' = [got EXCEPT ![j] = Head(dev)]
            /\ dev' = DeviceAfter(files, Sleeping \ {j}, Tail(dev))
        BY <2>4 DEF ReadReturns, Finish, ifVars
      <3>2. got[j] = Nothing /\ got'[j] = Head(dev) /\ \A i \in Reads : i # j => got'[i] = got[i]
        BY <1>1, <3>1 DEF Pool
      <3>3. Sleeping' = Sleeping \ {j}  BY <1>1, <3>1 DEF Sleeping
      <3>4. DeviceExists' => dev' = Tail(dev)
        BY <3>1, <3>3 DEF DeviceExists, DeviceAfter, Descriptors
      <3>5. dev \in Seq(Nat)  BY DEF OnceInv, OrderInv, OrderTypes
      <3>6. \A i \in DOMAIN dev : dev[i] = Head(dev) \/ \E k \in DOMAIN Tail(dev) : Tail(dev)[k] = dev[i]
        <4>1. Head(dev) = dev[1]  BY <3>1, <3>5
        <4>2. Tail(dev) \in Seq(Nat) /\ Len(Tail(dev)) = Len(dev) - 1
              /\ \A i \in 1..Len(Tail(dev)) : Tail(dev)[i] = dev[i + 1]
          BY <3>1, <3>5, HeadTailProperties
        <4>3. DOMAIN dev = 1..Len(dev) /\ Len(dev) \in Nat /\ DOMAIN Tail(dev) = 1..Len(Tail(dev))
          BY <3>5, <4>2, LenProperties
        <4>4. ASSUME NEW i \in DOMAIN dev, i # 1 PROVE i - 1 \in DOMAIN Tail(dev) /\ Tail(dev)[i - 1] = dev[i]
          BY <4>2, <4>3, <4>4
        <4> QED  BY <4>1, <4>4
      <3>7. DeviceExists' => \A p \in 1..arrived : Kept(p) => Kept(p)'
        <4> SUFFICES ASSUME DeviceExists', NEW p \in 1..arrived, Kept(p) PROVE Kept(p)'  OBVIOUS
        <4>1. p # Nothing  BY DEF Nothing
        <4>2. ASSUME NEW i \in Reads, got[i] = p PROVE Kept(p)'  BY <3>2, <4>1, <4>2 DEF Kept
        <4>3. ASSUME NEW i \in DOMAIN dev, dev[i] = p PROVE Kept(p)'
          BY <3>2, <3>4, <3>6, <4>3 DEF Kept
        <4> QED  BY <4>2, <4>3 DEF Kept
      <3>8. \A i \in Reads : jpc'[i] = "reading" => jpc[i] = "reading"  BY <1>10, <2>0, <3>1
      <3> QED  BY <1>1, <1>2, <3>1, <3>7, <3>8, NoNewDevice
    <2> QED  BY <1>11, <2>1, <2>2, <2>3, <2>4 DEF ReadWorker
  <1>12. ASSUME NEW j \in Writes, SendData(j) \/ WriteWorker(j) \/ PostWrite(j) PROVE OnceInv'
    <2>1. UNCHANGED <<creates, arrived, ifFd, files, dev, got>>
      BY <1>12 DEF SendData, Enqueue, WriteWorker, DoWriteChecks, DoWriteFails, DoWriteEnds, DoWrite,
         PostWrite, devVars, ifVars, jobVars
    <2>2. UNCHANGED jpc \/ \E to \in {"queued", "checked", "posted", "done"} : jpc' = [jpc EXCEPT ![j] = to]
      BY <1>12 DEF SendData, Enqueue, WriteWorker, DoWriteChecks, DoWriteFails, DoWriteEnds, DoWrite,
         PostWrite, Finish
    <2>3. j \in Jobs  BY DEF Jobs
    <2> QED  BY <1>3, <1>10, <2>1, <2>2, <2>3
  <1> QED  BY <1>4, <1>5, <1>6, <1>7, <1>8, <1>9, <1>11, <1>12 DEF Next, TunLoop

\* No packet reaches two reads, although several workers sleep in read() on one
\* descriptor, and none of the first device is lost while the device exists.
THEOREM PacketOnceAlways == TunSpec => []PacketOnce
  <1>1. OnceInv => PacketOnce
    <2> SUFFICES ASSUME OnceInv, NEW p \in 1..arrived
                 PROVE  LET n == Cardinality({j \in Reads : got[j] = p})
                                   + Cardinality({i \in DOMAIN dev : dev[i] = p})
                        IN  n <= 1 /\ (creates = 1 /\ DeviceExists => n = 1)
      BY DEF PacketOnce
    <2> DEFINE A == {j \in Reads : got[j] = p}
               B == {i \in DOMAIN dev : dev[i] = p}
    <2>0. Garbage \in Nat /\ Garbage > arrived /\ arrived \in Nat /\ dev \in Seq(Nat) /\ Nothing = 0
      BY GarbageIsNone DEF OnceInv, OrderInv, OrderTypes
    <2>1. p # Garbage /\ p # Nothing /\ p \in Nat  BY <2>0
    <2>2. A = {} \/ \E j : A = {j}
      <3>1. \A j, k \in A : j = k  BY <2>1 DEF OnceInv, OrderInv, GotOnce
      <3> HIDE DEF A
      <3> QED  BY <3>1
    <2>3. B = {} \/ \E i : B = {i}
      <3>1. DOMAIN dev = 1..Len(dev)  BY <2>0, LenProperties
      <3>2. ASSUME NEW i \in B, NEW k \in B PROVE i = k
        <4>1. i \in Nat /\ k \in Nat /\ dev[i] = p /\ dev[k] = p  BY <3>1, <3>2
        <4>2. ~(i < k) /\ ~(k < i)  BY <2>1, <3>2, <4>1 DEF OnceInv, OrderInv, DevOrder
        <4> QED  BY <4>1, <4>2
      <3> HIDE DEF B
      <3> QED  BY <3>2
    <2>4. A = {} \/ B = {}
      <3>1. ASSUME NEW j \in A, NEW i \in B PROVE FALSE
        <4>1. got[j] < dev[i]  BY <2>1, <3>1 DEF OnceInv, OrderInv, DevOrder
        <4> QED  BY <2>1, <3>1, <4>1
      <3> QED  BY <3>1
    <2>5. creates = 1 /\ DeviceExists => A # {} \/ B # {}  BY DEF OnceInv, Origin, Kept
    <2> HIDE DEF A, B
    <2>6. (A = {} => Cardinality(A) = 0) /\ (B = {} => Cardinality(B) = 0)  BY FS_EmptySet
    <2>7. (A # {} => Cardinality(A) = 1) /\ (B # {} => Cardinality(B) = 1)  BY <2>2, <2>3, FS_Singleton
    <2>8. Cardinality(A) + Cardinality(B) <= 1
          /\ (creates = 1 /\ DeviceExists => Cardinality(A) + Cardinality(B) = 1)
      BY <2>4, <2>5, <2>6, <2>7
    <2> QED  BY <2>8 DEF A, B
  <1> QED  BY <1>1, InitOnce, NextOnce, PTL DEF TunSpec
=============================================================================
